----------------------------- MODULE MCRcuLive -----------------------------
(***************************************************************************)
(* Rcu for TLC, cast by cast: the behaviours of Rcu in which only the      *)
(* readers and callers of one cast ever start.  Fairness never makes       *)
(* anybody start, so it asks of those behaviours what it asks in Rcu.      *)
(***************************************************************************)
EXTENDS Rcu

VARIABLE cast

\* A callback among readers; a callback and a barrier; barriers that contend.
Casts == {[readers |-> Cpus, actors |-> Cbs],
          [readers |-> {}, actors |-> Cbs \union {CHOOSE b \in Barriers : TRUE}],
          [readers |-> {}, actors |-> Barriers]}

OthersStayOut ==
    /\ \A a \in Actors \ cast.actors : pc[a] = "start"
    /\ \A c \in Cpus \ cast.readers : ~reader[c]

CastSpec ==
    /\ Init /\ cast \in Casts
    /\ [][Next /\ UNCHANGED cast /\ OthersStayOut']_<<vars, cast>>
    /\ Fairness
=============================================================================
