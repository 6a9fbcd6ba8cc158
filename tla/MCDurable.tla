----------------------------- MODULE MCDurable -----------------------------
(* Instances of DurableScheduler for TLC. *)
EXTENDS DurableScheduler

Forward(j, key, m) ==
    [job |-> j, kind |-> "forward", key |-> key, chat |-> "c1", topic |-> None, msg |-> m,
     caption |-> FALSE, album |-> None, takeover |-> "cancel", quiet |-> FALSE,
     dry |-> FALSE, typing |-> FALSE, marks |-> FALSE]
NoRequest == [ids |-> {}, chat |-> None, job |-> None, all |-> FALSE]

\* A forward, its replay under a new id, and a dry run of another job.
ReplayItems == {"f1", "f2", "g"}
ReplayAttr == [i \in ReplayItems |->
    CASE i = "f1" -> Forward("j1", "k1", 1)
      [] i = "f2" -> Forward("j1", "k1", 1)
      [] i = "g"  -> [Forward("j2", "k2", 2) EXCEPT !.dry = TRUE]]
PairItems == {"f1", "f2"}
PairAttr == [i \in PairItems |-> ReplayAttr[i]]

NoRequests == {}
CancelAll == {[NoRequest EXCEPT !.all = TRUE]}
=============================================================================
