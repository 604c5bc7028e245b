------------------------------ MODULE FeedCache ------------------------------
(***************************************************************************)
(* src/src/feeds: one feed query (dehashed, snusbase, intelx) and the 24h  *)
(* disk cache, for one cache key: keys never share a file.  Several runs   *)
(* (processes, or handlers of `cymail serve`) query at once; the file      *)
(* calls of read_cache and write_cache are separate steps.                 *)
(***************************************************************************)
EXTENDS Integers

CONSTANTS
  Procs,       \* the runs that query this key
  MaxTime,     \* bound: time ends there
  Ttl,         \* cache_ttl
  MaxRecords,  \* max_records
  Polls        \* how often intelx polls (10)

ASSUME ConstantsAssumption ==
  /\ MaxTime \in Nat /\ Ttl \in Nat /\ MaxRecords \in Nat \ {0} /\ Polls \in Nat \ {0}

Times == 0..MaxTime
Feeds == {"dehashed", "intelx"}     \* snusbase queries as dehashed does
(* A FeedResult without error: how many records, when the query that got   *)
(* them really began (history), and whether they are the provider's        *)
(* complete answer.                                                        *)
Results == [n : 0..MaxRecords, at : Times, ready : BOOLEAN]
NoResult == [n |-> 0, at |-> 0, ready |-> FALSE]

VARIABLES
  feed,      \* the feed of the key, fixed
  now,       \* wall clock
  back,      \* history: how far it has been set back in all
  file,      \* the cache file
  pc,        \* [Procs -> Pcs]
  q          \* [Procs -> QueryType]: the locals of query()

vars == <<feed, now, back, file, pc, q>>

(* The time it really is: no program sees it and nothing sets it back.     *)
Real == now + back

Pcs == {"idle", "body", "send", "await", "poll", "create", "write", "done"}

(* "torn": no JSON document (empty, cut short, or two overlaid); size      *)
(* stands for the length of what the file holds; back is history, with     *)
(* mtime.                                                                  *)
FileType == [body : {"absent", "torn", "whole"}, res : Results, mtime : Times, back : Times,
             size : 0..MaxRecords]
QueryType ==
  [res : Results, from : {"none", "cache", "feed", "failed"},
   attempt : Nat, began : Times]

NoQuery == [res |-> NoResult, from |-> "none", attempt |-> 0, began |-> 0]

Init ==
  /\ feed \in Feeds /\ now \in Times /\ back = 0
  /\ file = [body |-> "absent", res |-> NoResult, mtime |-> 0, back |-> 0, size |-> 0]
  /\ pc = [p \in Procs |-> "idle"] /\ q = [p \in Procs |-> NoQuery]

Goto(p, l) == pc' = [pc EXCEPT ![p] = l]

(* What is left of the locals once there is a result, or none.             *)
Got(p, r, source) == q' = [q EXCEPT ![p] = [NoQuery EXCEPT !.res = r, !.from = source]]
Fail(p) == Goto(p, "done") /\ Got(p, NoResult, "failed")

------------------------------------------------------------------------------
(* query() begins with read_cache: the age is taken from the metadata ...  *)
Begin(p) == pc[p] = "idle" /\ q' = [q EXCEPT ![p] = [NoQuery EXCEPT !.began = Real]]
Fresh(at) == now - at \in 0..Ttl

(* Mutants: the age is not looked at; an entry is too old at its limit.    *)
Meta_Strict(p) ==
  /\ Begin(p)
  /\ Goto(p, IF file.body # "absent" /\ now - file.mtime \in 0..(Ttl - 1) THEN "body" ELSE "send")
  /\ UNCHANGED <<feed, now, back, file>>

Meta_Ageless(p) ==
  /\ Begin(p)
  /\ Goto(p, IF file.body # "absent" THEN "body" ELSE "send")
  /\ UNCHANGED <<feed, now, back, file>>

Meta(p) ==
  /\ Begin(p)
  /\ Goto(p, IF file.body # "absent" /\ Fresh(file.mtime) THEN "body" ELSE "send")
  /\ UNCHANGED <<feed, now, back, file>>

(* Mutant: what cannot be parsed is answered all the same.                 *)
Body_Lenient(p) ==
  /\ pc[p] = "body"
  /\ Got(p, file.res, "cache") /\ Goto(p, "done")
  /\ UNCHANGED <<feed, now, back, file>>

(* ... and the body read and parsed afterwards.                            *)
Body(p) ==
  /\ pc[p] = "body"
  /\ \/ file.body = "whole" /\ Got(p, file.res, "cache") /\ Goto(p, "done")
     \/ file.body # "whole" /\ Goto(p, "send") /\ UNCHANGED q
  /\ UNCHANGED <<feed, now, back, file>>

(* The request that spends API budget goes out, unless the key is          *)
(* malformed (dehashed) or no client can be built.                         *)
Send(p) ==
  /\ pc[p] = "send"
  /\ \/ Goto(p, "await") /\ UNCHANGED q
     \/ Fail(p)
  /\ UNCHANGED <<feed, now, back, file>>

Fetched(p, n, ready) == Got(p, [n |-> n, at |-> q[p].began, ready |-> ready], "feed")

(* The answer: an error, a status other than 2xx, or a success.  A success *)
(* with a body that is not JSON is read as Null: no search id (intelx), or *)
(* no records.                                                             *)
Await(p) ==
  /\ pc[p] = "await"
  /\ \/ Fail(p)
     \/ /\ feed # "intelx" /\ Goto(p, "create")
        /\ \/ \E n \in 0..MaxRecords : Fetched(p, n, TRUE)
           \/ Fetched(p, 0, FALSE)
     \/ /\ feed = "intelx" /\ Goto(p, "poll")
        /\ q' = [q EXCEPT ![p].attempt = 1]
  /\ UNCHANGED <<feed, now, back, file>>

(* Mutants: one poll too many; polling until the provider is ready.        *)
Poll_OneMore(p) ==
  /\ pc[p] = "poll"
  /\ \/ Fail(p)
     \/ \E n \in q[p].res.n..MaxRecords, end \in BOOLEAN :
          LET ready == end \/ n = MaxRecords IN
          IF ready \/ q[p].attempt > Polls
            THEN Fetched(p, n, ready) /\ Goto(p, "create")
            ELSE /\ q' = [q EXCEPT ![p].res.n = n, ![p].attempt = @ + 1]
                 /\ UNCHANGED pc
  /\ UNCHANGED <<feed, now, back, file>>

Poll_UntilReady(p) ==
  /\ pc[p] = "poll"
  /\ \/ Fail(p)
     \/ \E n \in q[p].res.n..MaxRecords, end \in BOOLEAN :
          LET ready == end \/ n = MaxRecords IN
          IF ready
            THEN Fetched(p, n, ready) /\ Goto(p, "create")
            ELSE /\ q' = [q EXCEPT ![p].res.n = n,
                                   ![p].attempt = IF @ = Polls THEN 1 ELSE @ + 1]
                 /\ UNCHANGED pc
  /\ UNCHANGED <<feed, now, back, file>>

(* intelx: each poll adds records, up to MaxRecords; a status of 1 or 3 or *)
(* a full list ends the loop, and so does the last attempt.                *)
Poll(p) ==
  /\ pc[p] = "poll"
  /\ \/ Fail(p)
     \/ \E n \in q[p].res.n..MaxRecords, end \in BOOLEAN :
          LET ready == end \/ n = MaxRecords IN
          IF ready \/ q[p].attempt = Polls
            THEN Fetched(p, n, ready) /\ Goto(p, "create")
            ELSE /\ q' = [q EXCEPT ![p].res.n = n, ![p].attempt = @ + 1]
                 /\ UNCHANGED pc
  /\ UNCHANGED <<feed, now, back, file>>

Written(body, r, size) == [body |-> body, res |-> r, mtime |-> now, back |-> back, size |-> size]
Torn(size) == Written("torn", NoResult, size)

(* write_cache: fs::write truncates the file ...                           *)
CreateFile(p) ==
  /\ pc[p] = "create"
  /\ \/ /\ file' = Torn(0)
        /\ Goto(p, "write")
     \/ UNCHANGED file /\ Goto(p, "done")       \* its errors are ignored
  /\ UNCHANGED <<feed, now, back, q>>

(* ... and writes from its own offset 0: over what another run wrote since *)
(* its truncation, whose longer tail stays.                                *)
WriteFile(p) ==
  /\ pc[p] = "write" /\ Goto(p, "done")
  /\ LET r == q[p].res IN
     \/ file.size <= r.n /\ file' = Written("whole", r, r.n)
     \/ file.size > r.n /\ file' = Torn(file.size)
     \/ file' = Torn(file.size)                                   \* disk full
  /\ UNCHANGED <<feed, now, back, q>>

(* The result is handed to run_all; or the process dies at any step.       *)
Leave(p) ==
  /\ Goto(p, "idle") /\ q' = [q EXCEPT ![p] = NoQuery]
  /\ UNCHANGED <<feed, now, back, file>>
Exit(p)  == pc[p] = "done" /\ Leave(p)
Crash(p) == pc[p] # "idle" /\ Leave(p)

------------------------------------------------------------------------------
(* One unit of the clock is longer than a query (its HTTP calls time out)  *)
(* and no time passes during file calls.                                   *)
Tick ==
  /\ Real < MaxTime
  /\ \A p \in Procs : pc[p] \in {"idle", "done"} \/ (pc[p] \in {"await", "poll"} /\ q[p].began = Real)
  /\ now' = now + 1
  /\ UNCHANGED <<feed, back, file, pc, q>>

(* The wall clock is set back, which takes no time.                        *)
SetBack ==
  /\ now > 0 /\ \A p \in Procs : pc[p] \in {"idle", "done", "await", "poll"}
  /\ now' = now - 1 /\ back' = back + 1
  /\ UNCHANGED <<feed, file, pc, q>>

Step(p) ==
  \/ Body(p) \/ Send(p) \/ Await(p) \/ Poll(p) \/ CreateFile(p)
  \/ WriteFile(p) \/ Exit(p)

Next ==
  \/ Tick \/ SetBack
  \/ \E p \in Procs : Meta(p) \/ Step(p) \/ Crash(p)

Spec == Init /\ [][Next]_vars

(* Every await ends: http_timeout bounds the calls, sleep the polls.       *)
FairSpec == Spec /\ \A p \in Procs : WF_vars(Step(p))

------------------------------------------------------------------------------
TypeOK ==
  /\ feed \in Feeds /\ Real \in Times /\ now \in Times /\ back \in Times /\ file \in FileType
  /\ pc \in [Procs -> Pcs] /\ q \in [Procs -> QueryType]
  /\ \A p \in Procs : q[p].attempt \in 0..Polls

(* The cache is the abstract one of ResultCache: runs that truncate,       *)
(* overlay and crash leave the cell empty or holding one whole result, and *)
(* a query that looked at a fresh file answers from a cell still fresh,    *)
(* although age and body are read at different moments.                    *)
Cell == IF file.body = "whole" THEN {[res |-> file.res, at |-> file.mtime]} ELSE {}
Answers == [p \in Procs |-> IF pc[p] = "done" /\ q[p].from \in {"cache", "feed"}
                             THEN {q[p].res} ELSE {}]
Owned == [p \in Procs |-> IF q[p].from = "feed" THEN {q[p].res} ELSE {}]
Cache == INSTANCE ResultCache WITH cell <- Cell, answer <- Answers, own <- Owned
CacheSpec == Cache!Spec

(* What a query answers from the cache is really no older than a time to   *)
(* live and the time of the query that fetched it, and than what the clock *)
(* was set back since it was stored; although the age is read off the file *)
(* by a clock that moves, a slow run may overwrite a newer result with its *)
(* own, and two runs may overlay their results.                            *)
AnswersAreRecent ==
  [][\A p \in Procs :
       pc[p] = "body" /\ q'[p].from = "cache"
         => Real - q'[p].res.at <= Ttl + 1 + (back - file.back)]_vars

(* "so repeated runs don't re-spend the API budget": a request goes out    *)
(* while a whole and fresh result is on disk only if another run has       *)
(* stored it since this one looked, which is at this very time: no entry,  *)
(* up to its last moment, is asked for again, however runs cut it short,   *)
(* overlay it or let it expire.                                            *)
BudgetIsSpared ==
  [][\A p \in Procs :
       pc[p] = "send" /\ pc'[p] = "await" /\ file.body = "whole" /\ Fresh(file.mtime)
         => file.mtime = now /\ file.back = back]_vars

(* Every query ends, with a result or an error.                            *)
EveryQueryEnds == \A p \in Procs : pc[p] # "idle" ~> pc[p] = "idle"

------------------------------------------------------------------------------
(* What the documentation says and the code does not keep.                 *)

(* "Caches results for 24h": an answer is no older than that and the time  *)
(* of its query.  A clock set back and left to catch up refutes it.        *)
NoAnswerOutlivesTtl ==
  [][\A p \in Procs :
       pc[p] = "body" /\ q'[p].from = "cache" => Real - q'[p].res.at <= Ttl + 1]_vars

(* "so repeated runs don't re-spend the API budget": no request goes out   *)
(* while a whole and fresh result is on disk.  Two runs at once refute it; *)
(* one after the other they keep it.                                       *)
NoSpendWhileCached ==
  [][\A p \in Procs :
       pc[p] = "send" /\ pc'[p] = "await"
         => ~(file.body = "whole" /\ Fresh(file.mtime))]_vars

(* "poll until ready": what is cached of an IntelX search, and answered    *)
(* for a day, is its complete result.                                      *)
CachedIsComplete == feed = "intelx" /\ file.body = "whole" => file.res.ready

(* "key but zero hits", as opposed to an error: what is cached of the      *)
(* other feeds is what the provider answered.                              *)
ZeroHitsAreTheAnswer == feed # "intelx" /\ file.body = "whole" => file.res.ready
==============================================================================
