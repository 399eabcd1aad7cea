------------------------------ MODULE MCFutex ------------------------------
(* Instances of Futex for TLC. *)
EXTENDS Futex

CONSTANTS w1, w2, t1, t2, a1

C(words, timed) == [words |-> words, bits |-> {0}, timed |-> timed]
W(w, n, store) == [kind |-> "wake", src |-> w, dst |-> NoWord, n |-> n, moves |-> 0, bits |-> {0, 1},
                   store |-> store, cmp |-> 0]
R(w, d, n, moves, store) == [W(w, n, store) EXCEPT !.kind = "requeue", !.dst = d, !.moves = moves]
Apart == [W(w1, 1, FALSE) EXCEPT !.bits = {1}]

Calls(f, g) == [t \in Tasks |-> IF t = t1 THEN f ELSE g]
Ops(f, g) == [a \in Wakers |-> IF a = a1 THEN f ELSE g]

\* A timed wait, with wakes of its word, one of them for other bits ...
Timed == [calls |-> Calls({C(<<w1>>, TRUE)}, {}), ops |-> Ops({Apart, W(w1, IntMax, TRUE)}, {}),
          signals |-> {}, late |-> FALSE]

\* ... and with signals.
Interrupted == [Timed EXCEPT !.ops = Ops({W(w1, 1, FALSE)}, {}), !.signals = {t1}]

\* A wait on two words.
Vec == [calls |-> Calls({C(<<w1, w2>>, TRUE)}, {}), ops |-> Ops({W(w1, IntMax, TRUE), W(w2, 1, FALSE)}, {}),
        signals |-> {}, late |-> FALSE]

\* A timed wait that is re-keyed while it sleeps.
Rekeyed == [calls |-> Calls({C(<<w1>>, TRUE)}, {}), ops |-> Ops({R(w1, w2, 0, IntMax, FALSE), W(w2, IntMax, FALSE)}, {}),
            signals |-> {}, late |-> FALSE]

\* A requeue, while a second thread changes the word it compares.
Raced == [calls |-> Calls({C(<<w1>>, FALSE)}, {}), ops |-> Ops({R(w1, w2, 0, IntMax, TRUE)}, {W(w1, IntMax, TRUE)}),
          signals |-> {}, late |-> FALSE]

\* Two waits, one woken and the other re-keyed, or one re-keyed and the other
\* left where it is.
Two == [calls |-> Calls({C(<<w1>>, FALSE)}, {C(<<w1>>, FALSE)}),
        ops |-> Ops({R(w1, w2, 1, IntMax, FALSE), R(w1, w2, 0, 1, FALSE), W(w2, 1, FALSE)}, {}), signals |-> {}, late |-> FALSE]

\* A waker that is delayed between its claim and the rest of its wake.
Late == [calls |-> Calls({C(<<w1>>, FALSE)}, {}), ops |-> Ops({W(w1, IntMax, TRUE)}, {}), signals |-> {t1}, late |-> TRUE]

WaitConfigs == {Timed, Interrupted, Vec, Rekeyed, Raced, Two, Late}

\* The same delay, for a timed wait.
LateConfigs == {[Late EXCEPT !.calls = Calls({C(<<w1>>, TRUE)}, {}), !.signals = {}]}
=============================================================================
