------------------------------ MODULE MCQueries ------------------------------
(* The two query registries on small instances: MySQL executions with one id and
   two cancels ("cancels") and with two ids, of which only one is kept when both
   have ended, and one cancel ("ids"), and page loads on every engine ("pages").
   They share no state, so a behaviour moves one part and leaves the others where
   they start. *)
EXTENDS MysqlQuery

CONSTANTS q1, q2, c1

VARIABLES part
VARIABLES idEntries, idCtl, idTask, idCaller, idKill, idSession, idNow
VARIABLES engine, pages, requested, load, stop, pool, answered, clock

Ids == INSTANCE MysqlQuery WITH
  Queries <- {q1, q2}, Callers <- {c1},
  entries <- idEntries, ctl <- idCtl, task <- idTask, caller <- idCaller, kill <- idKill,
  session <- idSession, now <- idNow
Pages == INSTANCE TableQuery WITH
  Queries <- {q1, q2}, Callers <- {c1},
  entries <- pages, task <- load, session <- pool, now <- clock
ASSUME MysqlQueryConstantsOK /\ Ids!MysqlQueryConstantsOK /\ Pages!TableQueryConstantsOK

idsVars == <<idEntries, idCtl, idTask, idCaller, idKill, idSession, idNow>>
pagesVars == <<engine, pages, requested, load, stop, pool, answered, clock>>
MCVars == <<part, vars, idsVars, pagesVars>>

MCInit ==
  /\ part \in {"cancels", "ids", "pages"}
  /\ Init /\ Ids!Init
  /\ Pages!Init /\ (part # "pages" => engine = "mysql")

MCNext ==
  \/ part = "cancels" /\ Next /\ UNCHANGED <<part, idsVars, pagesVars>>
  \/ part = "ids" /\ Ids!Next /\ UNCHANGED <<part, vars, pagesVars>>
  \/ part = "pages" /\ Pages!Next /\ UNCHANGED <<part, vars, idsVars>>

\* The fairness of FairSpec in MysqlQuery and TableQuery.
MCFairness ==
  /\ \A a \in Attempts :
       /\ WF_vars(part = "cancels" /\ TaskStep(a))
       /\ WF_vars(part = "cancels" /\ KillFails(a))
       /\ WF_pagesVars(part = "pages" /\ Pages!TaskStep(a))
       /\ WF_pagesVars(part = "pages" /\ engine = "sqlite" /\ Pages!StopArrives(a))
  /\ \A c \in Callers :
       /\ WF_vars(part = "cancels" /\ CancelFound(c))
       /\ WF_vars(part = "cancels" /\ CancelReturns(c))

MCSpec == MCInit /\ [][MCNext]_MCVars /\ MCFairness

-----------------------------------------------------------------------------
\* The registry of executions keeps its types and its limit; with two ids, when
\* the newer entry evicts the older, stops still stay with their query and no id
\* runs twice (an evicted tombstone's query runs, so CancelTrue is not asked).
ExecutionsSafe ==
  /\ TypeOK /\ RetainedBounded
  /\ Ids!TypeOK /\ Ids!StopStaysWithQuery /\ Ids!OneRunPerId /\ Ids!RetainedBounded

\* What TableQuery promises of page loads on every engine.
LoadsSafe ==
  /\ Pages!TypeOK /\ Pages!OneRunPerId /\ Pages!CancelTrue
  /\ Pages!StopStaysWithQuery /\ Pages!PooledSessionQuiet

\* Every cancel is answered and what it cancelled ends, whatever the server does
\* and whichever registry it went through, and the registries stay safe.
CancellationsEnd ==
  /\ CancelAnswered /\ CancelledEnds
  /\ part = "pages" => Pages!CancelledEnds
  /\ []ExecutionsSafe /\ []LoadsSafe
=============================================================================
