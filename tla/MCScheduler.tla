---------------------------- MODULE MCScheduler ----------------------------
(* Instances of ActionScheduler for TLC. *)
EXTENDS ActionScheduler

\* An action with no album, no special mode; the instances override fields.
Plain(k, key, c, m) ==
    [job |-> "j1", kind |-> k, key |-> key, chat |-> c, topic |-> None, msg |-> m,
     caption |-> FALSE, album |-> None, takeover |-> "cancel", quiet |-> FALSE,
     dry |-> FALSE, typing |-> FALSE, marks |-> FALSE]

NoRequest == [ids |-> {}, chat |-> None, job |-> None, all |-> FALSE]
CancelJob(j) == [NoRequest EXCEPT !.job = j]
CancelChat(c) == [NoRequest EXCEPT !.chat = c]
CancelIds(S) == [NoRequest EXCEPT !.ids = S]
CancelAll == [NoRequest EXCEPT !.all = TRUE]

\* Reads of one chat that may go out together, one held by quiet hours, one dry.
CoalesceItems == {"r1", "r2", "r3", "r4"}
CoalesceAttr == [i \in CoalesceItems |->
    CASE i = "r1" -> [Plain("read", "k1", "c1", 1) EXCEPT !.takeover = "cancel_read"]
      [] i = "r2" -> [Plain("read", "k2", "c1", 2) EXCEPT !.quiet = TRUE]
      [] i = "r3" -> [Plain("read", "k3", "c1", 2) EXCEPT !.dry = TRUE]
      [] i = "r4" -> Plain("read", "k4", "c1", 2)]
CoalesceRequests == {CancelIds({"r2"})}

\* A read that quiet hours hold, and a reaction that reads the chat first.
DrainItems == {"r2", "x"}
DrainAttr == [i \in DrainItems |->
    IF i = "r2" THEN CoalesceAttr[i] ELSE Plain("react", "k3", "c1", 2)]

\* A reply that types first, its replay under a new id, and a dry run of another job.
RetryItems == {"p1", "p2", "d"}
RetryAttr == [i \in RetryItems |->
    CASE i = "p1" -> [Plain("reply", "k1", "c1", 1) EXCEPT !.typing = TRUE]
      [] i = "p2" -> [Plain("reply", "k1", "c1", 1) EXCEPT !.typing = TRUE]
      [] i = "d"  -> [Plain("reply", "k2", "c2", 1) EXCEPT !.dry = TRUE, !.job = "j2"]]
RetryRequests == {CancelJob("j1"), CancelChat("c2"), CancelAll}

\* Three messages of one album, the second with the caption, and a read of the chat
\* that fills the queue or is covered by the reaction's own read.
AlbumItems == {"a1", "a2", "a3", "f"}
AlbumAttr == [i \in AlbumItems |->
    CASE i = "a1" -> [Plain("react", "k1", "c1", 1) EXCEPT !.album = "g"]
      [] i = "a2" -> [Plain("react", "k2", "c1", 2) EXCEPT !.album = "g", !.caption = TRUE]
      [] i = "a3" -> [Plain("react", "k3", "c1", 3) EXCEPT !.album = "g"]
      [] i = "f"  -> Plain("read", "k4", "c1", 1)]
=============================================================================
