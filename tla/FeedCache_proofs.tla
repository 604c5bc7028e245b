--------------------------- MODULE FeedCache_proofs ---------------------------
(***************************************************************************)
(* Proofs about FeedCache, for any number of runs, any time to live, any   *)
(* bound on the clock, on the records and on the polls: the types, the age *)
(* of what is answered, when a request is spared, and the refinement of    *)
(* ResultCache.                                                            *)
(***************************************************************************)
EXTENDS FeedCache, TLAPS

(* What a run knows at each of its steps.  A result it has is really as    *)
(* old as its query, which is at most one unit long; between metadata and  *)
(* body no time passes, and what other runs make of the file is no older.  *)
(* Where it goes on to ask the provider, a fresh result has been stored    *)
(* since it looked.                                                        *)
Local(p) ==
  /\ pc[p] \in {"idle", "body", "send", "await", "poll"} => q[p].from = "none"
  /\ pc[p] \in {"body", "send"} => q[p].began = Real
  /\ pc[p] \in {"await", "poll"} => Real - q[p].began \in 0..1
  /\ pc[p] \in {"create", "write"} => q[p].from = "feed" /\ Real - q[p].res.at \in 0..1
  /\ pc[p] = "body" => file.body # "absent" /\ Fresh(file.mtime)
  /\ pc[p] = "send" /\ file.body = "whole" /\ Fresh(file.mtime)
       => file.mtime = now /\ file.back = back

(* The file was really written when its date and its history say, and a    *)
(* query of at most one unit preceded that.                                *)
Dated == file.body = "whole" => (file.mtime + file.back) - file.res.at <= 1

Inv == TypeOK /\ Dated /\ \A p \in Procs : Local(p)

------------------------------------------------------------------------------
(* The constants of the model as the provers use them.                     *)
LEMMA Empties ==
  /\ NoResult \in Results
  /\ NoQuery \in QueryType
  /\ NoQuery.from = "none" /\ NoQuery.res = NoResult /\ NoQuery.attempt = 0
BY ConstantsAssumption DEF NoResult, NoQuery, Results, QueryType, Times

(* Got gives one query a result, or none, and leaves the others alone.     *)
LEMMA GotOne ==
  ASSUME TypeOK, NEW p \in Procs, NEW r \in Results,
         NEW source \in {"none", "cache", "feed", "failed"}, Got(p, r, source)
  PROVE  /\ q' \in [Procs -> QueryType]
         /\ q'[p].res = r /\ q'[p].from = source /\ q'[p].attempt = 0
         /\ \A o \in Procs \ {p} : q'[o] = q[o]
<1> DEFINE g == [NoQuery EXCEPT !.res = r, !.from = source]
<1>1. g \in QueryType /\ g.res = r /\ g.from = source /\ g.attempt = 0
  BY Empties DEF QueryType, NoQuery
<1>2. q' = [q EXCEPT ![p] = g]
  BY DEF Got
<1> HIDE DEF g
<1>3. QED BY <1>1, <1>2 DEF TypeOK

(* Goto moves one run, to a place that is one.                             *)
LEMMA GotoOne ==
  ASSUME TypeOK, NEW p \in Procs, NEW l \in Pcs, Goto(p, l)
  PROVE  /\ pc' \in [Procs -> Pcs] /\ pc'[p] = l
         /\ \A o \in Procs \ {p} : pc'[o] = pc[o]
BY DEF Goto, TypeOK

(* A run that takes no step keeps what it knows while no time passes and   *)
(* the file stays or is written.                                           *)
LEMMA OthersKnow ==
  ASSUME Inv, NEW o \in Procs, pc'[o] = pc[o], q'[o] = q[o], now' = now, back' = back,
         file' = file \/ (file'.body # "absent" /\ file'.mtime = now /\ file'.back = back)
  PROVE  Local(o)'
<1>1. CASE file' = file
  BY <1>1 DEF Inv, Local, Fresh, Real
<1>2. CASE file'.body # "absent" /\ file'.mtime = now /\ file'.back = back
  <2>1. now \in Int /\ 0 \in 0..Ttl
    BY ConstantsAssumption DEF Inv, TypeOK, Times
  <2>2. Fresh(file.mtime)'
    BY <1>2, <2>1 DEF Fresh
  <2>3. QED BY <1>2, <2>2 DEF Inv, Local, Real
<1>3. QED BY <1>1, <1>2

(* So a step of a run is judged by what that run knows after it, and by    *)
(* the file it leaves.                                                     *)
LEMMA OneRun ==
  ASSUME Inv, NEW p \in Procs, NEW l \in Pcs, Goto(p, l),
         q' \in [Procs -> QueryType], q'[p].attempt \in 0..Polls,
         \A o \in Procs \ {p} : q'[o] = q[o],
         feed' = feed, now' = now, back' = back, file' \in FileType, Dated',
         file' = file \/ (file'.body # "absent" /\ file'.mtime = now /\ file'.back = back),
         pc'[p] = l => Local(p)'
  PROVE  Inv'
<1>1. /\ pc' \in [Procs -> Pcs] /\ pc'[p] = l
      /\ \A o \in Procs \ {p} : pc'[o] = pc[o]
  BY GotoOne DEF Inv
<1>2. \A o \in Procs : Local(o)'
  <2>1. TAKE o \in Procs
  <2>2. CASE o = p
    BY <1>1, <2>2
  <2>3. CASE o # p
    BY <1>1, <2>3, OthersKnow
  <2>4. QED BY <2>2, <2>3
<1>3. \A o \in Procs : q'[o].attempt \in 0..Polls
  BY DEF Inv, TypeOK
<1>4. QED BY <1>1, <1>2, <1>3 DEF Inv, TypeOK, Real

(* A query that fails knows nothing more.                                  *)
LEMMA FailInv ==
  ASSUME Inv, NEW p \in Procs, Fail(p), UNCHANGED <<feed, now, back, file>>
  PROVE  Inv'
<1>1. q' \in [Procs -> QueryType] /\ q'[p].attempt = 0 /\ \A o \in Procs \ {p} : q'[o] = q[o]
  BY Empties, GotOne DEF Fail, Inv
<1>2. q'[p].attempt \in 0..Polls
  BY <1>1, ConstantsAssumption
<1>3. Goto(p, "done") /\ "done" \in Pcs
  BY DEF Fail, Pcs
<1>4. pc'[p] = "done" => Local(p)'
  BY DEF Local
<1>5. Dated' /\ file' \in FileType
  BY DEF Inv, Dated, TypeOK
<1>6. QED BY <1>1, <1>2, <1>3, <1>4, <1>5, OneRun

(* The success of a query: the result is dated by its beginning.           *)
LEMMA FetchedInv ==
  ASSUME Inv, NEW p \in Procs, pc[p] \in {"await", "poll"},
         NEW n \in 0..MaxRecords, NEW ready \in BOOLEAN,
         Fetched(p, n, ready), Goto(p, "create"), UNCHANGED <<feed, now, back, file>>
  PROVE  Inv'
<1> DEFINE r == [n |-> n, at |-> q[p].began, ready |-> ready]
<1>1. Real - q[p].began \in 0..1 /\ q[p].began \in Times
  BY DEF Inv, Local, TypeOK, QueryType, Times
<1>2. r \in Results /\ r.at = q[p].began
  BY <1>1, ConstantsAssumption DEF Results, Times
<1>3. Got(p, r, "feed")
  BY DEF Fetched
<1> HIDE DEF r
<1>4. /\ q' \in [Procs -> QueryType] /\ q'[p].attempt = 0 /\ \A o \in Procs \ {p} : q'[o] = q[o]
      /\ q'[p].res = r /\ q'[p].from = "feed"
  BY <1>2, <1>3, GotOne DEF Inv
<1>5. q'[p].attempt \in 0..Polls
  BY <1>4, ConstantsAssumption
<1>6. pc'[p] = "create" => Local(p)'
  BY <1>1, <1>2, <1>4 DEF Local, Real
<1>7. Dated' /\ file' \in FileType
  BY DEF Inv, Dated, TypeOK
<1>8. QED BY <1>4, <1>5, <1>6, <1>7, OneRun DEF Pcs

(* A whole result, or the remains of one, is dated when it is written.     *)
LEMMA TornTyped ==
  ASSUME TypeOK, NEW size \in 0..MaxRecords
  PROVE  Torn(size) \in FileType /\ Torn(size).body = "torn"
         /\ Torn(size).mtime = now /\ Torn(size).back = back
BY Empties DEF Torn, Written, FileType, TypeOK, Times

(* Looking at the metadata, and sending: no file is touched.               *)
LEMMA MetaInv ==
  ASSUME Inv, NEW p \in Procs, Meta(p)
  PROVE  Inv'
<1> DEFINE l == IF file.body # "absent" /\ Fresh(file.mtime) THEN "body" ELSE "send"
           g == [NoQuery EXCEPT !.began = Real]
<1>1. g \in QueryType /\ g.began = Real /\ g.from = "none" /\ g.attempt = 0
  BY Empties DEF QueryType, NoQuery, Inv, TypeOK
<1>2. q' = [q EXCEPT ![p] = g] /\ Goto(p, l) /\ UNCHANGED <<feed, now, back, file>>
  BY DEF Meta, Begin
<1> HIDE DEF g
<1>3. /\ q' \in [Procs -> QueryType] /\ q'[p] = g
      /\ \A o \in Procs \ {p} : q'[o] = q[o]
  BY <1>1, <1>2 DEF Inv, TypeOK
<1>4. q'[p].attempt \in 0..Polls
  BY <1>1, <1>3, ConstantsAssumption
<1>5. pc'[p] = l => Local(p)'
  BY <1>1, <1>2, <1>3 DEF Local, Fresh, Real
<1>6. Dated' /\ file' \in FileType
  BY <1>2 DEF Inv, Dated, TypeOK
<1>7. QED BY <1>2, <1>3, <1>4, <1>5, <1>6, OneRun DEF Pcs

(* Reading the body: an answer, or the way on to the provider.             *)
LEMMA BodyInv ==
  ASSUME Inv, NEW p \in Procs, Body(p)
  PROVE  Inv'
<1>1. Dated' /\ file' \in FileType /\ file' = file /\ UNCHANGED <<feed, now, back>>
  BY DEF Body, Inv, Dated, TypeOK
<1>2. CASE file.body = "whole" /\ Got(p, file.res, "cache") /\ Goto(p, "done")
  <2>1. /\ q' \in [Procs -> QueryType] /\ q'[p].attempt = 0
        /\ \A o \in Procs \ {p} : q'[o] = q[o]
    BY <1>2, GotOne DEF Inv, TypeOK, FileType
  <2>2. q'[p].attempt \in 0..Polls
    BY <2>1, ConstantsAssumption
  <2>3. pc'[p] = "done" => Local(p)'
    BY DEF Local
  <2>4. QED BY <1>1, <1>2, <2>1, <2>2, <2>3, OneRun DEF Pcs
<1>3. CASE file.body # "whole" /\ Goto(p, "send") /\ UNCHANGED q
  <2>1. q' \in [Procs -> QueryType] /\ q'[p].attempt \in 0..Polls
    BY <1>3 DEF Inv, TypeOK
  <2>2. pc'[p] = "send" => Local(p)'
    BY <1>1, <1>3 DEF Body, Inv, Local, Real
  <2>3. QED BY <1>1, <1>3, <2>1, <2>2, OneRun DEF Pcs
<1>4. QED BY <1>2, <1>3 DEF Body

(* Sending the request.                                                    *)
LEMMA SendInv ==
  ASSUME Inv, NEW p \in Procs, Send(p)
  PROVE  Inv'
<1>1. CASE Fail(p)
  BY <1>1, FailInv DEF Send
<1>2. CASE Goto(p, "await") /\ UNCHANGED q
  <2>1. Dated' /\ file' \in FileType /\ file' = file /\ UNCHANGED <<feed, now, back>>
    BY DEF Send, Inv, Dated, TypeOK
  <2>2. q' \in [Procs -> QueryType] /\ q'[p].attempt \in 0..Polls
    BY <1>2 DEF Inv, TypeOK
  <2>3. pc'[p] = "await" => Local(p)'
    BY <1>2, <2>1 DEF Send, Inv, Local, TypeOK, Times, Real
  <2>4. QED BY <1>2, <2>1, <2>2, <2>3, OneRun DEF Pcs
<1>3. QED BY <1>1, <1>2 DEF Send

(* A step of the loop that polls.                                          *)
LEMMA PolledInv ==
  ASSUME Inv, NEW p \in Procs, pc[p] \in {"await", "poll"}, NEW r \in Results,
         NEW k \in 0..Polls, Goto(p, "poll"), UNCHANGED <<feed, now, back, file>>,
         q' = [q EXCEPT ![p].res = r, ![p].attempt = k]
  PROVE  Inv'
<1>1. q[p] \in QueryType /\ Real - q[p].began \in 0..1 /\ q[p].from = "none"
  BY DEF Inv, Local, TypeOK
<1> DEFINE g == [q[p] EXCEPT !.res = r, !.attempt = k]
<1>2. k \in Nat
  BY ConstantsAssumption
<1>3. /\ g \in QueryType /\ g.attempt = k
      /\ g.began = q[p].began /\ g.from = "none"
  BY <1>2, <1>1 DEF QueryType
<1>4. q' = [q EXCEPT ![p] = g]
  BY DEF Inv, TypeOK
<1> HIDE DEF g
<1>5. /\ q' \in [Procs -> QueryType] /\ q'[p] = g
      /\ \A o \in Procs \ {p} : q'[o] = q[o]
  BY <1>3, <1>4 DEF Inv, TypeOK
<1>6. pc'[p] = "poll" => Local(p)'
  BY <1>1, <1>3, <1>5 DEF Local, Real
<1>7. Dated' /\ file' \in FileType
  BY DEF Inv, Dated, TypeOK
<1>8. QED BY <1>3, <1>5, <1>6, <1>7, OneRun DEF Pcs

(* The answer of the provider.                                             *)
LEMMA AwaitInv ==
  ASSUME Inv, NEW p \in Procs, Await(p)
  PROVE  Inv'
<1>1. CASE Fail(p)
  BY <1>1, FailInv DEF Await
<1>2. CASE Goto(p, "create") /\ ((\E n \in 0..MaxRecords : Fetched(p, n, TRUE)) \/ Fetched(p, 0, FALSE))
  <2>1. pc[p] = "await" /\ UNCHANGED <<feed, now, back, file>> /\ 0 \in 0..MaxRecords
    BY ConstantsAssumption DEF Await
  <2>2. CASE \E n \in 0..MaxRecords : Fetched(p, n, TRUE)
    BY <1>2, <2>1, <2>2, FetchedInv
  <2>3. CASE Fetched(p, 0, FALSE)
    BY <1>2, <2>1, <2>3, FetchedInv
  <2>4. QED BY <1>2, <2>2, <2>3
<1>3. CASE Goto(p, "poll") /\ q' = [q EXCEPT ![p].attempt = 1]
  <2>1. q' = [q EXCEPT ![p].res = q[p].res, ![p].attempt = 1]
    BY <1>3 DEF Inv, TypeOK, QueryType
  <2>2. q[p].res \in Results /\ 1 \in 0..Polls
    BY ConstantsAssumption DEF Inv, TypeOK, QueryType
  <2>3. QED BY <1>3, <2>1, <2>2, PolledInv DEF Await
<1>4. QED BY <1>1, <1>2, <1>3 DEF Await

(* One poll: another attempt is made only below the last.                  *)
LEMMA PollInv ==
  ASSUME Inv, NEW p \in Procs, Poll(p)
  PROVE  Inv'
<1>1. CASE Fail(p)
  BY <1>1, FailInv DEF Poll
<1>2. CASE ~Fail(p)
  <2>1. PICK n \in q[p].res.n..MaxRecords, end \in BOOLEAN :
          LET ready == end \/ n = MaxRecords IN
          IF ready \/ q[p].attempt = Polls
            THEN Fetched(p, n, ready) /\ Goto(p, "create")
            ELSE /\ q' = [q EXCEPT ![p].res.n = n, ![p].attempt = @ + 1]
                 /\ UNCHANGED pc
    BY <1>2 DEF Poll
  <2> DEFINE ready == end \/ n = MaxRecords
  <2>2. /\ q[p] \in QueryType /\ q[p].res \in Results /\ q[p].attempt \in 0..Polls
        /\ pc[p] = "poll" /\ UNCHANGED <<feed, now, back, file>>
    BY DEF Inv, TypeOK, QueryType, Poll
  <2>3. n \in 0..MaxRecords /\ ready \in BOOLEAN
    BY <2>2, ConstantsAssumption DEF Results
  <2>4. CASE ready \/ q[p].attempt = Polls
    BY <2>1, <2>2, <2>3, <2>4, FetchedInv
  <2>5. CASE ~(ready \/ q[p].attempt = Polls)
    <3> DEFINE r == [q[p].res EXCEPT !.n = n]
    <3>1. r \in Results
      BY <2>2, <2>3 DEF Results
    <3>2. q' = [q EXCEPT ![p].res = r, ![p].attempt = q[p].attempt + 1] /\ UNCHANGED pc
      BY <2>1, <2>2, <2>5 DEF Inv, TypeOK, QueryType, Results
    <3>3. Goto(p, "poll")
      BY <2>2, <3>2 DEF Goto, Inv, TypeOK
    <3>4. q[p].attempt + 1 \in 0..Polls
      BY <2>2, <2>5, ConstantsAssumption
    <3> HIDE DEF r
    <3>5. QED BY <2>2, <3>1, <3>2, <3>3, <3>4, PolledInv
  <2>6. QED BY <2>4, <2>5
<1>3. QED BY <1>1, <1>2

(* The cache file is truncated, which leaves no result in it ...           *)
LEMMA CreateFileInv ==
  ASSUME Inv, NEW p \in Procs, CreateFile(p)
  PROVE  Inv'
<1>1. /\ q' \in [Procs -> QueryType] /\ q'[p].attempt \in 0..Polls
      /\ q' = q /\ UNCHANGED <<feed, now, back>>
  BY DEF CreateFile, Inv, TypeOK
<1>2. CASE file' = Torn(0) /\ Goto(p, "write")
  <2>1. 0 \in 0..MaxRecords
    BY ConstantsAssumption
  <2>2. file' \in FileType /\ file'.body = "torn" /\ file'.mtime = now /\ file'.back = back
    BY <1>2, <2>1, TornTyped DEF Inv
  <2>3. pc'[p] = "write" => Local(p)'
    BY <1>1 DEF CreateFile, Inv, Local, Real
  <2>4. QED BY <1>1, <1>2, <2>2, <2>3, OneRun DEF Pcs, Dated
<1>3. CASE UNCHANGED file /\ Goto(p, "done")
  <2>1. Dated' /\ file' \in FileType
    BY <1>3 DEF Inv, Dated, TypeOK
  <2>2. pc'[p] = "done" => Local(p)'
    BY DEF Local
  <2>3. QED BY <1>1, <1>3, <2>1, <2>2, OneRun DEF Pcs
<1>4. QED BY <1>2, <1>3 DEF CreateFile

(* ... and written, by a query that began at most one unit ago.            *)
LEMMA WriteFileInv ==
  ASSUME Inv, NEW p \in Procs, WriteFile(p)
  PROVE  Inv'
<1>1. /\ q' \in [Procs -> QueryType] /\ q'[p].attempt \in 0..Polls
      /\ q' = q /\ UNCHANGED <<feed, now, back>> /\ Goto(p, "done")
  BY DEF WriteFile, Inv, TypeOK
<1>2. pc'[p] = "done" => Local(p)'
  BY DEF Local
<1>3. file' \in FileType /\ file'.body # "absent" /\ file'.mtime = now /\ file'.back = back /\ Dated'
  <2> DEFINE r == q[p].res
  <2>1. /\ r \in Results /\ Real - r.at \in 0..1 /\ file.size \in 0..MaxRecords
        /\ now \in Times /\ back \in Times
    BY DEF WriteFile, Inv, Local, TypeOK, QueryType, FileType
  <2>2. CASE file' = Torn(file.size)
    BY <2>1, <2>2, TornTyped DEF Inv, Dated
  <2>3. CASE file' = Written("whole", r, r.n)
    BY <2>1, <2>3 DEF Written, FileType, Dated, Results, Times, Real
  <2>4. QED BY <2>2, <2>3 DEF WriteFile
<1>4. QED BY <1>1, <1>2, <1>3, OneRun DEF Pcs

(* The end of a run, its own or a crash.                                   *)
LEMMA LeaveInv ==
  ASSUME Inv, NEW p \in Procs, Leave(p)
  PROVE  Inv'
<1>1. /\ q' \in [Procs -> QueryType] /\ q'[p] = NoQuery
      /\ \A o \in Procs \ {p} : q'[o] = q[o]
  BY Empties DEF Leave, Inv, TypeOK
<1>2. q'[p].attempt \in 0..Polls
  BY <1>1, Empties, ConstantsAssumption
<1>3. pc'[p] = "idle" => Local(p)'
  BY <1>1, Empties DEF Local
<1>4. Dated' /\ file' \in FileType /\ file' = file /\ UNCHANGED <<feed, now, back>> /\ Goto(p, "idle")
  BY DEF Leave, Inv, Dated, TypeOK
<1>5. QED BY <1>1, <1>2, <1>3, <1>4, OneRun DEF Pcs

(* The clock moves only where no run is between two looks at the file.     *)
LEMMA ClockInv ==
  ASSUME Inv, Tick \/ SetBack
  PROVE  Inv'
<1>1. /\ now' \in Times /\ back' \in Times /\ Real' \in Times
      /\ UNCHANGED <<feed, file, pc, q>>
  BY ConstantsAssumption DEF Tick, SetBack, Inv, TypeOK, Times, Real
<1>2. ASSUME NEW p \in Procs
      PROVE  Local(p)'
  <2>1. CASE pc[p] \in {"idle", "done"}
    BY <1>1, <2>1 DEF Inv, Local
  <2>2. CASE pc[p] \in {"await", "poll"} /\ Real' = Real
    BY <1>1, <2>2 DEF Inv, Local
  <2>3. CASE pc[p] \in {"await", "poll"} /\ q[p].began = Real /\ Real' = Real + 1
    BY <1>1, <2>3 DEF Inv, Local, TypeOK, Times
  <2>4. SetBack => Real' = Real
    BY DEF SetBack, Inv, TypeOK, Times, Real
  <2>5. Tick => Real' = Real + 1
    BY DEF Tick, Inv, TypeOK, Times, Real
  <2>6. QED BY <2>1, <2>2, <2>3, <2>4, <2>5 DEF Tick, SetBack
<1>3. QED BY <1>1, <1>2 DEF Inv, TypeOK, Dated

------------------------------------------------------------------------------
(* Nothing is known, and no run has begun, at the start.                   *)
LEMMA InvInit == Init => Inv
<1> SUFFICES ASSUME Init PROVE Inv
  OBVIOUS
<1>1. file \in FileType /\ file.body = "absent"
  BY Empties, ConstantsAssumption DEF Init, FileType, Times
<1>2. \A p \in Procs : pc[p] = "idle" /\ q[p] = NoQuery
  BY DEF Init
<1>3. TypeOK
  BY <1>1, <1>2, Empties, ConstantsAssumption DEF Init, TypeOK, Pcs, Real, Times
<1>4. \A p \in Procs : Local(p)
  BY <1>2, Empties DEF Local
<1>5. QED BY <1>1, <1>3, <1>4 DEF Inv, Dated

(* Every step of every run, and of the clock, keeps what is known.         *)
LEMMA InvNext == Inv /\ [Next]_vars => Inv'
<1> SUFFICES ASSUME Inv, [Next]_vars PROVE Inv'
  OBVIOUS
<1>1. CASE Tick \/ SetBack
  BY <1>1, ClockInv
<1>2. CASE \E p \in Procs : Meta(p)
  BY <1>2, MetaInv
<1>3. CASE \E p \in Procs : Step(p)
  BY <1>3, BodyInv, SendInv, AwaitInv, PollInv, CreateFileInv, WriteFileInv, LeaveInv DEF Step, Exit
<1>4. CASE \E p \in Procs : Crash(p)
  BY <1>4, LeaveInv DEF Crash
<1>5. CASE UNCHANGED vars
  BY <1>5 DEF vars, Inv, TypeOK, Dated, Local, Fresh, Real
<1>6. QED BY <1>1, <1>2, <1>3, <1>4, <1>5 DEF Next

(* The types of the cache file and of the queries' locals: feeds/mod.rs.   *)
THEOREM Typed == Spec => []TypeOK
<1>1. Inv => TypeOK
  BY DEF Inv
<1>2. QED BY <1>1, InvInit, InvNext, PTL DEF Spec

(* What a query answers from the cache is recent, but for what the clock   *)
(* was set back since it was stored: feeds/mod.rs read_cache, which judges *)
(* by the wall clock, and the age of the file, not of the result in it.    *)
THEOREM CachedAnswersAreRecent == Spec => AnswersAreRecent
<1>1. ASSUME Inv, [Next]_vars, NEW p \in Procs, pc[p] = "body", q'[p].from = "cache"
      PROVE  Real - q'[p].res.at <= Ttl + 1 + (back - file.back)
  <2>1. /\ file.body # "absent" /\ now - file.mtime <= Ttl /\ q[p].from = "none"
        /\ file.body = "whole" => (file.mtime + file.back) - file.res.at <= 1
        /\ file \in FileType /\ now \in Nat /\ back \in Nat
    BY <1>1, ConstantsAssumption DEF Inv, Local, Fresh, Dated, TypeOK, Times
  <2>2. ASSUME NEW o \in Procs, Meta(o) \/ Step(o) \/ Crash(o)
        PROVE  (o = p /\ Body(p)) \/ q'[p] = q[p] \/ q'[p] = NoQuery
    BY <1>1, <2>2
       DEF Meta, Begin, Step, Body, Send, Await, Poll, CreateFile, WriteFile, Exit, Crash, Leave,
           Fail, Fetched, Got, Inv, TypeOK
  <2>3. Body(p)
    BY <1>1, <2>1, <2>2, Empties DEF Next, Tick, SetBack, vars
  <2>4. (Got(p, file.res, "cache") /\ file.body = "whole") \/ UNCHANGED q
    BY <2>3 DEF Body
  <2>5. Got(p, file.res, "cache") /\ file.body = "whole" /\ file.res \in Results
    BY <1>1, <2>1, <2>4 DEF FileType
  <2>6. q'[p].res = file.res
    BY <1>1, <2>5, GotOne DEF Inv
  <2>7. QED BY <2>1, <2>5, <2>6, ConstantsAssumption DEF FileType, Results, Times, Real
<1>2. ASSUME Inv, [Next]_vars
      PROVE  [\A p \in Procs :
                pc[p] = "body" /\ q'[p].from = "cache"
                  => Real - q'[p].res.at <= Ttl + 1 + (back - file.back)]_vars
  BY <1>1, <1>2
<1>3. QED BY <1>2, InvInit, InvNext, PTL DEF Spec, AnswersAreRecent

(* A request goes out past a fresh result only if another run stored that  *)
(* since this one looked, at this very time: feeds/mod.rs read_cache,      *)
(* before the await of each feed.                                          *)
THEOREM BudgetSpared == Spec => BudgetIsSpared
<1>1. ASSUME Inv, [Next]_vars
      PROVE  [\A p \in Procs :
                pc[p] = "send" /\ pc'[p] = "await" /\ file.body = "whole" /\ Fresh(file.mtime)
                  => file.mtime = now /\ file.back = back]_vars
  BY <1>1 DEF Inv, Local
<1>2. QED BY <1>1, InvInit, InvNext, PTL DEF Spec, BudgetIsSpared

------------------------------------------------------------------------------
(* What a query has answered, and what it owns, seen through the mapping.  *)
Answer(p) == IF pc[p] = "done" /\ q[p].from \in {"cache", "feed"} THEN {q[p].res} ELSE {}
Own(p) == IF q[p].from = "feed" THEN {q[p].res} ELSE {}

(* The mapping changes where the run that moves changes it.                *)
LEMMA Mapped ==
  ASSUME Inv, NEW p \in Procs,
         \A o \in Procs \ {p} : pc'[o] = pc[o] /\ q'[o] = q[o]
  PROVE  /\ Answers' = [Answers EXCEPT ![p] = Answer(p)']
         /\ Owned' = [Owned EXCEPT ![p] = Own(p)']
         /\ Answers[p] = Answer(p) /\ Owned[p] = Own(p)
         /\ Answer(p)' = Answer(p) => Answers' = Answers
         /\ Own(p)' = Own(p) => Owned' = Owned
<1>1. \A o \in Procs \ {p} : Answer(o)' = Answer(o) /\ Own(o)' = Own(o)
  BY DEF Answer, Own
<1>2. /\ Answers = [o \in Procs |-> Answer(o)] /\ Owned = [o \in Procs |-> Own(o)]
      /\ Answers' = [o \in Procs |-> Answer(o)'] /\ Owned' = [o \in Procs |-> Own(o)']
  BY DEF Answers, Owned, Answer, Own
<1>3. QED BY <1>1, <1>2, Zenon

(* A run that still has no result looks at the cell, or asks the provider, *)
(* unseen: it had and has no answer and nothing of its own.                *)
LEMMA Unseen ==
  ASSUME Inv, NEW p \in Procs, UNCHANGED <<now, back, file>>,
         \A o \in Procs \ {p} : pc'[o] = pc[o] /\ q'[o] = q[o],
         Answer(p)' = Answer(p), Own(p)' = Own(p)
  PROVE  UNCHANGED Cache!vars
<1>1. Answers' = Answers /\ Owned' = Owned
  BY Mapped
<1>2. QED BY <1>1 DEF Cache!vars, Cell

(* A query that fails is one of them.                                      *)
LEMMA FailUnseen ==
  ASSUME Inv, NEW p \in Procs, pc[p] \in {"send", "await", "poll"}, Fail(p),
         UNCHANGED <<now, back, file>>
  PROVE  UNCHANGED Cache!vars
<1>1. q'[p].from = "failed" /\ \A o \in Procs \ {p} : q'[o] = q[o]
  BY Empties, GotOne DEF Fail, Inv
<1>2. \A o \in Procs \ {p} : pc'[o] = pc[o]
  BY GotoOne DEF Fail, Inv, Pcs
<1>3. q[p].from = "none"
  BY DEF Inv, Local
<1>4. Answer(p)' = {} /\ Own(p)' = {} /\ Answer(p) = {} /\ Own(p) = {}
  BY <1>1, <1>3 DEF Answer, Own
<1>5. QED BY <1>1, <1>2, <1>4, Unseen

(* A success is a Fetch.                                                   *)
LEMMA FetchedFetches ==
  ASSUME Inv, NEW p \in Procs, pc[p] \in {"await", "poll"},
         NEW n \in 0..MaxRecords, NEW ready \in BOOLEAN,
         Fetched(p, n, ready), Goto(p, "create"), UNCHANGED <<feed, now, back, file>>
  PROVE  Cache!Fetch(p)
<1> DEFINE r == [n |-> n, at |-> q[p].began, ready |-> ready]
<1>1. r \in Results
  BY DEF Inv, TypeOK, QueryType, Results
<1>2. Got(p, r, "feed")
  BY DEF Fetched
<1> HIDE DEF r
<1>3. q'[p].res = r /\ q'[p].from = "feed" /\ \A o \in Procs \ {p} : q'[o] = q[o]
  BY <1>1, <1>2, GotOne DEF Inv
<1>4. pc'[p] = "create" /\ \A o \in Procs \ {p} : pc'[o] = pc[o]
  BY GotoOne DEF Inv, Pcs
<1>5. q[p].from = "none"
  BY DEF Inv, Local
<1>6. Answer(p)' = {} /\ Own(p)' = {r} /\ Answer(p) = {}
  BY <1>3, <1>4, <1>5 DEF Answer, Own
<1>7. /\ Answers' = [Answers EXCEPT ![p] = {}] /\ Answers[p] = {}
      /\ Owned' = [Owned EXCEPT ![p] = {r}]
  BY <1>3, <1>4, <1>6, Mapped
<1>8. Answers' = Answers
  BY <1>7 DEF Answers
<1>9. QED BY <1>1, <1>7, <1>8 DEF Cache!Fetch, Cell

(* An answer from the cache is a Hit: the cell is still fresh.             *)
LEMMA BodyHits ==
  ASSUME Inv, NEW p \in Procs, Body(p)
  PROVE  Cache!Hit(p) \/ UNCHANGED Cache!vars
<1>1. q[p].from = "none" /\ Fresh(file.mtime) /\ UNCHANGED <<now, back, file>>
  BY DEF Body, Inv, Local
<1>2. CASE file.body = "whole" /\ Got(p, file.res, "cache") /\ Goto(p, "done")
  <2>1. /\ q'[p].res = file.res /\ q'[p].from = "cache"
        /\ \A o \in Procs \ {p} : q'[o] = q[o]
    BY <1>2, GotOne DEF Inv, TypeOK, FileType
  <2>2. pc'[p] = "done" /\ \A o \in Procs \ {p} : pc'[o] = pc[o]
    BY <1>2, GotoOne DEF Inv, Pcs
  <2>3. Answer(p)' = {file.res} /\ Own(p)' = {} /\ Own(p) = {}
    BY <1>1, <2>1, <2>2 DEF Answer, Own
  <2>4. /\ Answers' = [Answers EXCEPT ![p] = {file.res}]
        /\ Owned' = [Owned EXCEPT ![p] = {}] /\ Owned[p] = {}
    BY <2>1, <2>2, <2>3, Mapped
  <2>5. Owned' = Owned
    BY <2>4 DEF Owned
  <2>6. Cell' = Cell /\ [res |-> file.res, at |-> file.mtime] \in Cell
    BY <1>1, <1>2 DEF Cell
  <2>7. QED BY <1>1, <2>4, <2>5, <2>6 DEF Cache!Hit, Cache!Fresh, Fresh
<1>3. CASE Goto(p, "send") /\ UNCHANGED q
  <2>1. pc'[p] = "send" /\ \A o \in Procs \ {p} : pc'[o] = pc[o]
    BY <1>3, GotoOne DEF Inv, Pcs
  <2>2. Answer(p)' = Answer(p) /\ Own(p)' = Own(p)
    BY <1>3, <2>1 DEF Body, Answer, Own
  <2>3. QED BY <1>1, <1>3, <2>1, <2>2, Unseen
<1>4. QED BY <1>2, <1>3 DEF Body

(* Truncating the file drops the cell, unless its errors are ignored: then *)
(* the query answers with what it fetched, and the cell is left.           *)
LEMMA CreateFileDrops ==
  ASSUME Inv, NEW p \in Procs, CreateFile(p)
  PROVE  Cache!Drop \/ Cache!Store(p)
<1>1. q[p].from = "feed" /\ UNCHANGED <<now, back, q>>
  BY DEF CreateFile, Inv, Local
<1>2. CASE file' = Torn(0) /\ Goto(p, "write")
  <2>1. pc'[p] = "write" /\ \A o \in Procs \ {p} : pc'[o] = pc[o]
    BY <1>2, GotoOne DEF Inv, Pcs
  <2>2. Answer(p)' = Answer(p) /\ Own(p)' = Own(p)
    BY <1>1, <2>1 DEF CreateFile, Answer, Own
  <2>3. Answers' = Answers /\ Owned' = Owned
    BY <1>1, <2>1, <2>2, Mapped
  <2>4. Cell' = {}
    BY <1>2 DEF Cell, Torn, Written
  <2>5. QED BY <1>1, <2>3, <2>4 DEF Cache!Drop
<1>3. CASE UNCHANGED file /\ Goto(p, "done")
  <2>1. pc'[p] = "done" /\ \A o \in Procs \ {p} : pc'[o] = pc[o]
    BY <1>3, GotoOne DEF Inv, Pcs
  <2>2. Answer(p)' = Own(p) /\ Own(p)' = Own(p) /\ Own(p) # {}
    BY <1>1, <2>1 DEF Answer, Own
  <2>3. Answers' = [Answers EXCEPT ![p] = Owned[p]] /\ Owned' = Owned /\ Owned[p] # {}
    BY <1>1, <2>1, <2>2, Mapped
  <2>4. Cell' = Cell
    BY <1>3 DEF Cell
  <2>5. QED BY <1>1, <2>3, <2>4 DEF Cache!Store
<1>4. QED BY <1>2, <1>3 DEF CreateFile

(* Writing it stores what the query fetched, or leaves the cell empty.     *)
LEMMA WriteFileStores ==
  ASSUME Inv, NEW p \in Procs, WriteFile(p)
  PROVE  Cache!Store(p)
<1>1. q[p].from = "feed" /\ UNCHANGED <<now, back, q>> /\ Goto(p, "done")
  BY DEF WriteFile, Inv, Local
<1>2. pc'[p] = "done" /\ \A o \in Procs \ {p} : pc'[o] = pc[o]
  BY <1>1, GotoOne DEF Inv, Pcs
<1>3. Answer(p)' = Own(p) /\ Own(p)' = Own(p) /\ Own(p) = {q[p].res}
  BY <1>1, <1>2 DEF Answer, Own
<1>4. /\ Answers' = [Answers EXCEPT ![p] = Owned[p]] /\ Owned' = Owned
      /\ Owned[p] = {q[p].res}
  BY <1>1, <1>2, <1>3, Mapped
<1>5. Cell' = {} \/ Cell' = {[res |-> q[p].res, at |-> now]}
  <2>1. CASE \E size \in {file.size} : file' = Torn(size)
    BY <2>1 DEF Cell, Torn, Written
  <2>2. CASE file' = Written("whole", q[p].res, q[p].res.n)
    BY <2>2 DEF Cell, Written
  <2>3. QED BY <2>1, <2>2 DEF WriteFile
<1>6. QED BY <1>1, <1>4, <1>5 DEF Cache!Store

(* Leaving ends the query, with or without an answer.                      *)
LEMMA LeaveEnds ==
  ASSUME Inv, NEW p \in Procs, Leave(p)
  PROVE  Cache!End(p)
<1>1. /\ pc'[p] = "idle" /\ q'[p] = NoQuery /\ UNCHANGED <<now, back, file>>
      /\ \A o \in Procs \ {p} : pc'[o] = pc[o] /\ q'[o] = q[o]
  BY GotoOne DEF Leave, Inv, TypeOK, Pcs
<1>2. Answer(p)' = {} /\ Own(p)' = {}
  BY <1>1, Empties DEF Answer, Own
<1>3. Answers' = [Answers EXCEPT ![p] = {}] /\ Owned' = [Owned EXCEPT ![p] = {}]
  BY <1>1, <1>2, Mapped
<1>4. QED BY <1>1, <1>3 DEF Cache!End, Cell

(* The steps before a result: the metadata, the request, its answer.       *)
LEMMA AskingMaps ==
  ASSUME Inv, NEW p \in Procs, Meta(p) \/ Send(p) \/ Await(p) \/ Poll(p)
  PROVE  Cache!Fetch(p) \/ UNCHANGED Cache!vars
<1>1. /\ pc[p] \in {"idle", "send", "await", "poll"} /\ q[p].from = "none"
      /\ UNCHANGED <<feed, now, back, file>>
  BY DEF Meta, Begin, Send, Await, Poll, Inv, Local
<1>2. CASE pc[p] # "idle" /\ Fail(p)
  BY <1>1, <1>2, FailUnseen
<1>3. CASE /\ pc[p] \in {"await", "poll"} /\ Goto(p, "create")
           /\ \E n \in 0..MaxRecords, ready \in BOOLEAN : Fetched(p, n, ready)
  BY <1>1, <1>3, FetchedFetches
<1>4. CASE /\ \A o \in Procs \ {p} : pc'[o] = pc[o] /\ q'[o] = q[o]
           /\ pc'[p] # "done" /\ q'[p].from = "none"
  BY <1>1, <1>4, Unseen DEF Answer, Own
<1>5. CASE Meta(p)
  <2>1. q' = [q EXCEPT ![p] = [NoQuery EXCEPT !.began = Real]]
    BY <1>5 DEF Meta, Begin
  <2>2. q'[p].from = "none" /\ \A o \in Procs \ {p} : q'[o] = q[o]
    BY <2>1 DEF NoQuery, Inv, TypeOK
  <2>3. pc'[p] # "done" /\ \A o \in Procs \ {p} : pc'[o] = pc[o]
    BY <1>5 DEF Meta, Goto, Inv, TypeOK
  <2>4. QED BY <1>4, <2>2, <2>3
<1>6. CASE Send(p) /\ ~Fail(p)
  BY <1>1, <1>4, <1>6 DEF Send, Goto, Inv, TypeOK
<1>7. CASE Await(p) /\ ~Fail(p)
  <2>1. CASE q' = [q EXCEPT ![p].attempt = 1] /\ Goto(p, "poll")
    <3>1. q'[p].from = "none" /\ \A o \in Procs \ {p} : q'[o] = q[o]
      BY <1>1, <2>1 DEF Inv, TypeOK, QueryType
    <3>2. QED BY <1>4, <2>1, <3>1 DEF Goto, Inv, TypeOK
  <2>2. 0 \in 0..MaxRecords
    BY ConstantsAssumption
  <2>3. QED BY <1>3, <1>7, <2>1, <2>2 DEF Await
<1>8. CASE Poll(p) /\ ~Fail(p)
  <2>1. PICK n \in q[p].res.n..MaxRecords, end \in BOOLEAN :
          LET ready == end \/ n = MaxRecords IN
          IF ready \/ q[p].attempt = Polls
            THEN Fetched(p, n, ready) /\ Goto(p, "create")
            ELSE /\ q' = [q EXCEPT ![p].res.n = n, ![p].attempt = @ + 1]
                 /\ UNCHANGED pc
    BY <1>8 DEF Poll
  <2>2. pc[p] = "poll" /\ n \in 0..MaxRecords
    BY <1>8, ConstantsAssumption DEF Poll, Inv, TypeOK, QueryType, Results
  <2>3. CASE Fetched(p, n, end \/ n = MaxRecords) /\ Goto(p, "create")
    BY <1>3, <2>2, <2>3
  <2>4. CASE q' = [q EXCEPT ![p].res.n = n, ![p].attempt = @ + 1] /\ UNCHANGED pc
    <3>1. q'[p].from = "none" /\ \A o \in Procs \ {p} : q'[o] = q[o]
      BY <1>1, <2>4 DEF Inv, TypeOK, QueryType
    <3>2. QED BY <1>4, <2>2, <2>4, <3>1
  <2>5. QED BY <2>1, <2>3, <2>4
<1>9. QED BY <1>2, <1>5, <1>6, <1>7, <1>8 DEF Send, Await, Poll

(* Every step of the runs and of the clock is one of the abstract cache,   *)
(* or is unseen there.                                                     *)
LEMMA CacheNext == Inv /\ [Next]_vars => [Cache!Next]_(Cache!vars)
<1> SUFFICES ASSUME Inv, [Next]_vars PROVE [Cache!Next]_(Cache!vars)
  OBVIOUS
<1>1. CASE Tick \/ SetBack
  <2>1. now' \in Times /\ UNCHANGED <<file, pc, q>>
    BY <1>1, ConstantsAssumption DEF Tick, SetBack, Inv, TypeOK, Times, Real
  <2>2. QED BY <2>1 DEF Cell, Answers, Owned, Cache!Clock, Cache!Next
<1>2. ASSUME NEW p \in Procs, Meta(p) \/ Step(p) \/ Crash(p)
      PROVE  [Cache!Next]_(Cache!vars)
  <2>1. CASE Meta(p) \/ Send(p) \/ Await(p) \/ Poll(p)
    BY <2>1, AskingMaps DEF Cache!Next
  <2>2. CASE Body(p)
    BY <2>2, BodyHits DEF Cache!Next
  <2>3. CASE CreateFile(p) \/ WriteFile(p)
    BY <2>3, CreateFileDrops, WriteFileStores DEF Cache!Next
  <2>4. CASE Exit(p) \/ Crash(p)
    BY <2>4, LeaveEnds DEF Exit, Crash, Cache!Next
  <2>5. QED BY <1>2, <2>1, <2>2, <2>3, <2>4 DEF Step
<1>3. CASE UNCHANGED vars
  BY <1>3 DEF vars, Cell, Answers, Owned, Cache!vars
<1>4. QED BY <1>1, <1>2, <1>3 DEF Next

(* The cache starts empty.                                                 *)
LEMMA CacheInit == Init => Cache!Init
BY DEF Init, NoQuery, Cell, Answers, Owned, Cache!Init

(* The file that runs truncate, overlay and abandon behaves as the cell of *)
(* ResultCache: feeds/mod.rs read_cache and write_cache.                   *)
THEOREM ImplementsCache == Spec => CacheSpec
BY CacheInit, CacheNext, InvInit, InvNext, PTL DEF Spec, CacheSpec, Cache!Spec
==============================================================================
