---------------------------- MODULE GracePeriod ----------------------------
(***************************************************************************)
(* What RCU promises.  Objects are linked, then unlinked by their updater, *)
(* then reclaimed; a reader may use every object that was linked when its  *)
(* section began; nothing is reclaimed while a reader may use it.          *)
(***************************************************************************)
CONSTANTS Cpus, Objects

VARIABLES held,    \* held[c]: objects the reader on CPU c may dereference
          status   \* status[o]: "linked", "unlinked" or "reclaimed"

vars == <<held, status>>

Init ==
    /\ held = [c \in Cpus |-> {}]
    /\ status = [o \in Objects |-> "linked"]

Enter(c) ==
    /\ held[c] = {}
    /\ held' = [held EXCEPT ![c] = {o \in Objects : status[o] = "linked"}]
    /\ UNCHANGED status

Leave(c) ==
    /\ held' = [held EXCEPT ![c] = {}]
    /\ UNCHANGED status

Unlink(o) ==
    /\ status[o] = "linked"
    /\ status' = [status EXCEPT ![o] = "unlinked"]
    /\ UNCHANGED held

Reclaim(o) ==
    /\ status[o] = "unlinked"
    /\ \A c \in Cpus : o \notin held[c]
    /\ status' = [status EXCEPT ![o] = "reclaimed"]
    /\ UNCHANGED held

Next ==
    \/ \E c \in Cpus : Enter(c) \/ Leave(c)
    \/ \E o \in Objects : Unlink(o) \/ Reclaim(o)

Spec == Init /\ [][Next]_vars

=============================================================================
