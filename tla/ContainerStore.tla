--------------------------- MODULE ContainerStore ---------------------------
(***************************************************************************)
(* What create_container promises to its callers and to readers of its     *)
(* path, with no writer, no loop and no server in sight.  A call empties   *)
(* its path when it starts and, when it returns, leaves there its whole    *)
(* container and Ok, or some remnant of it and an error.  A path that      *)
(* another call has emptied meanwhile may only be spoilt.                  *)
(***************************************************************************)
EXTENDS Layout

CONSTANTS
    Builders,   \* the builders
    Paths,      \* the output paths
    Signers,    \* the inputs a caller may give to add_signer
    Overlap,    \* whether callers may run two calls on one path at a time
    Nobody      \* the maker of a path that was never created

VARIABLES
    files,      \* files[b], signers[b]: what builder b holds
    signers,
    outcome,    \* outcome[b]: "running", or what its call has returned
    path,       \* path[b]: the path of its call
    disk        \* disk[p]: the file at path p

storeVars == <<files, signers, outcome, path, disk>>

Init ==
    /\ files = [b \in Builders |-> <<>>]
    /\ signers = [b \in Builders |-> <<>>]
    /\ outcome = [b \in Builders |-> "idle"]
    /\ path \in [Builders -> Paths]
    /\ disk = [p \in Paths |->
                  [state |-> "absent", maker |-> Nobody, files |-> <<>>,
                   signers |-> <<>>, entries |-> <<>>]]
-----------------------------------------------------------------------------
\* Everything in builder b is dropped.
Emptied(b) ==
    /\ files' = [files EXCEPT ![b] = <<>>]
    /\ signers' = [signers EXCEPT ![b] = <<>>]

\* A builder is filled, or is lost by an add_file that fails.
Fill(b) ==
    /\ outcome[b] # "running"
    /\ outcome' = [outcome EXCEPT ![b] = "idle"]
    /\ \/ \E file \in Files :
             /\ files' = [files EXCEPT ![b] = Append(@, file)]
             /\ UNCHANGED signers
       \/ \E signer \in Signers :
             /\ signers' = [signers EXCEPT ![b] = Append(@, signer)]
             /\ UNCHANGED files
       \/ Emptied(b)
    /\ UNCHANGED <<path, disk>>

Start(b, p) ==
    /\ outcome[b] # "running"
    /\ Overlap \/ \A c \in Builders : outcome[c] = "running" => path[c] # p
    /\ outcome' = [outcome EXCEPT ![b] = "running"]
    /\ path' = [path EXCEPT ![b] = p]
    /\ disk' = [disk EXCEPT ![p] =
                   [state |-> "open", maker |-> b, files |-> files[b],
                    signers |-> signers[b], entries |-> <<>>]]
    /\ UNCHANGED <<files, signers>>

\* The call fails before the path is touched.
Refuse(b) ==
    /\ outcome[b] # "running"
    /\ outcome' = [outcome EXCEPT ![b] = "failed"]
    /\ UNCHANGED <<files, signers, path, disk>>
-----------------------------------------------------------------------------
Owns(b) == disk[path[b]].maker = b

Spoilt(b) ==
    /\ ~ Owns(b)
    /\ disk' = [disk EXCEPT ![path[b]].state = "torn"]

\* The entries come into view, if the path is still the call's own.
Published(b, entries) ==
    disk' = [disk EXCEPT ![path[b]] =
                IF Owns(b) /\ @.state = "open"
                THEN [@ EXCEPT !.state = "sealed", !.entries = entries]
                ELSE [@ EXCEPT !.state = "torn"]]

\* A call writes where another has started since.
Spoil(b) ==
    /\ outcome[b] = "running"
    /\ Spoilt(b)
    /\ UNCHANGED <<files, signers, outcome, path>>

\* No call succeeds whose container would hold a name twice.
Succeed(b) ==
    /\ outcome[b] = "running"
    /\ NamesAreUnique(Container(files[b], signers[b]))
    /\ Published(b, Container(files[b], signers[b]))
    /\ outcome' = [outcome EXCEPT ![b] = "ok"]
    /\ UNCHANGED <<files, signers, path>>

Fail(b) ==
    /\ outcome[b] = "running"
    /\ \/ \E entries \in Remnants(files[b], signers[b]) : Published(b, entries)
       \/ Spoilt(b)
       \/ UNCHANGED disk
    /\ outcome' = [outcome EXCEPT ![b] = "failed"]
    /\ UNCHANGED <<files, signers, path>>

Crash(b) ==
    /\ outcome[b] = "running"
    /\ outcome' = [outcome EXCEPT ![b] = "idle"]
    /\ Emptied(b)
    /\ UNCHANGED <<path, disk>>

Next ==
    \E b \in Builders :
        \/ Fill(b) \/ Refuse(b) \/ Spoil(b) \/ Succeed(b) \/ Fail(b) \/ Crash(b)
        \/ \E p \in Paths : Start(b, p)

Spec == Init /\ [][Next]_storeVars
=============================================================================
