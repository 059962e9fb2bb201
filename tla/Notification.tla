---------------------------- MODULE Notification ----------------------------
(***************************************************************************)
(* From a committed operation of auth-service (or an invitation of         *)
(* company-service) to its entry in the audit trail and to the mail in the *)
(* addressee's mailbox: the listeners, the call to notification-service,   *)
(* its BullMQ queue and worker, and Resend behind it.                      *)
(*                                                                         *)
(* BullMQ, its Redis and Resend are external: they are modelled by what    *)
(* the code asks of them (attempts, job ids, idempotency keys).            *)
(***************************************************************************)
EXTENDS EventCatalogue, Naturals, FiniteSets

CONSTANTS
    Ops,                \* business operations that end in an event
    MaxAttempts,        \* EMAIL_QUEUE_ATTEMPTS
    MaxCrashes,         \* bound: crashes of notification-service
    MaxRollbacks        \* bound: restarts of Redis that lose the newest job

ASSUME SomeAttempts == MaxAttempts \in Nat \ {0}

ASSUME OpsAreFinite == IsFiniteSet(Ops) /\ "free" \notin Ops

ASSUME BoundsAreNat == MaxCrashes \in Nat /\ MaxRollbacks \in Nat

VARIABLES
    op,                 \* op[m]: an operation, its report and its mail
    worker,             \* the process of notification-service
    nextId,             \* the id BullMQ gives to the next job
    keys,               \* keys[k]: whose mail Resend knows the key k from
    crashes, rollbacks

vars == <<op, worker, nextId, keys, crashes, rollbacks>>

-----------------------------------------------------------------------------
(* Operations.                                                             *)

Max_Stalled == 1        \* maxStalledCount, left at BullMQ's default

Op == [\* The operation: the mail its event asks for, if any.
       mail     : BOOLEAN,
       renders  : BOOLEAN,
       complete : BOOLEAN,
       \* In auth-service: where its request is, whether the address is still
       \* to be looked up, and how far its report is ("listed": a listener
       \* will file it; "none" again once it is counted or lost).
       pc       : {"idle", "auditing", "publishing", "lookup", "posting",
                   "ended"},
       looks_up : BOOLEAN,
       report   : {"none", "listed", "due"},
       \* The job.
       job      : {"none", "wait", "active", "orphan", "done", "failed",
                  "gone"},
       id       : 0..Cardinality(Ops),
       made     : 0..MaxAttempts,
       stalled  : 0..(Max_Stalled + 1),
       \* The request to Resend of the attempt under way; a request that
       \* nobody waits for any more may arrive at any later time.
       request  : {"none", "sent", "ok", "error", "spoilt"},
       late     : BOOLEAN,
       \* The mailbox.
       received : 0..2,
       \* History: what the outside world did to it.
       dropped  : BOOLEAN,
       errors   : 0..MaxAttempts,
       stops    : 0..(Max_Stalled + 1)]

TypeOK ==
    /\ op \in [Ops -> Op]
    /\ worker \in {"up", "down"}
    /\ nextId \in 1..(Cardinality(Ops) + 1)
    /\ keys \in [1..Cardinality(Ops) -> Ops \cup {"free"}]
    /\ crashes \in 0..MaxCrashes /\ rollbacks \in 0..MaxRollbacks

Idle == [mail |-> FALSE, renders |-> FALSE, complete |-> FALSE,
         pc |-> "idle", looks_up |-> FALSE, report |-> "none",
         job |-> "none", id |-> 0, made |-> 0, stalled |-> 0,
         request |-> "none", late |-> FALSE, received |-> 0,
         dropped |-> FALSE, errors |-> 0, stops |-> 0]

Init ==
    /\ op = [m \in Ops |-> Idle]
    /\ worker = "up"
    /\ nextId = 1
    /\ keys = [k \in 1..Cardinality(Ops) |-> "free"]
    /\ crashes = 0 /\ rollbacks = 0

Become(m, new) == op' = [op EXCEPT ![m] = new]

Rest == <<worker, nextId, keys, crashes, rollbacks>>

-----------------------------------------------------------------------------
(* auth-service.                                                           *)

\* A use case has written its change to the database and is about to
\* publish e; registering files its report first.
Committed(e) ==
    LET mails   == {m \in Mails : m.event = e}
        awaited == e \in {r.event : r \in RegisterReports}
        filed   == e \in {r.event : r \in Reports}
    IN  [Idle EXCEPT
            !.mail     = mails # {},
            !.renders  = \A m \in mails : Renders(m),
            !.complete = \A m \in mails : IsComplete(m),
            !.looks_up = \E m \in mails : m.looks_up,
            !.pc       = IF awaited THEN "auditing" ELSE "publishing",
            !.report   = CASE awaited -> "due"
                           [] filed /\ ~awaited -> "listed"
                           [] OTHER -> "none"]

Beginnings == {Committed(e) : e \in Events}

Commit(m) ==
    /\ op[m].pc = "idle"
    /\ \E new \in Beginnings : Become(m, new)
    /\ UNCHANGED Rest

\* The bus calls every listener before publish returns: each runs up to its
\* first await.
Publish(m) ==
    /\ op[m].pc = "publishing"
    /\ Become(m, [op[m] EXCEPT
            !.pc = IF ~op[m].mail THEN "ended"
                   ELSE IF op[m].looks_up THEN "lookup" ELSE "posting",
            !.report = IF @ = "listed" THEN "due" ELSE @])
    /\ UNCHANGED Rest

\* The mail will never be asked for.
Dropped(o) ==
    [o EXCEPT !.pc = "ended", !.looks_up = FALSE, !.dropped = TRUE]

\* AuthActivityRecorderService.log returns: the report is stored and counted.
Counted(o) ==
    [o EXCEPT !.report = "none",
              !.pc = IF @ = "auditing" THEN "publishing" ELSE @]

\* A report that cannot be stored is an error of the listener, which nobody
\* hears of; where the use case awaits it, it is an error of the request.
StoreReport(m) ==
    /\ op[m].report = "due"
    /\ \/ Become(m, Counted(op[m]))
       \/ LET failed == [op[m] EXCEPT !.report = "none"]
          IN  Become(m, IF op[m].pc = "auditing" THEN Dropped(failed)
                        ELSE failed)
    /\ UNCHANGED Rest

\* resolveEmail; an account is never deleted, but the query may fail.
Lookup(m) ==
    /\ op[m].pc = "lookup"
    /\ \/ Become(m, [op[m] EXCEPT !.pc = "posting", !.looks_up = FALSE])
       \/ Become(m, Dropped(op[m]))
    /\ UNCHANGED Rest

\* NotificationClient.sendEmail: one POST that nobody waits for.
PostFails(m) ==
    /\ op[m].pc = "posting"
    /\ Become(m, Dropped(op[m]))
    /\ UNCHANGED Rest

\* It arrives, and the job is added to the queue.
Enqueue(m) ==
    /\ op[m].pc = "posting" /\ worker = "up"
    /\ Become(m, [op[m] EXCEPT !.pc = "ended", !.job = "wait",
                               !.id = nextId])
    /\ nextId' = nextId + 1
    /\ UNCHANGED <<worker, keys, crashes, rollbacks>>

\* Everything auth-service was in the middle of is forgotten.
Interrupted(o) ==
    IF o.pc \in {"idle", "ended"} THEN [o EXCEPT !.report = "none"]
    ELSE [Dropped(o) EXCEPT !.report = "none"]

AuthCrash ==
    /\ op' = [m \in Ops |-> Interrupted(op[m])]
    /\ UNCHANGED Rest

-----------------------------------------------------------------------------
(* notification-service: the queue and its worker, one job at a time.      *)

Working(m) == worker = "up" /\ op[m].job = "active"

\* EmailConsumer.process, up to the call of Resend; a template that is not
\* known throws before there is one.
Take(m) ==
    /\ worker = "up" /\ op[m].job = "wait"
    /\ \A n \in Ops : op[n].job # "active"
    /\ Become(m, [op[m] EXCEPT
            !.job = "active",
            !.request = IF op[m].renders THEN "sent" ELSE "error"])
    /\ UNCHANGED Rest

\* Mutant of idempotencyKey: the number of the attempt goes with it.
AttemptNumber(m) == op[m].made + 1

\* The job's id goes with every attempt.
idempotencyKey(m) == op[m].id

\* Resend sends a mail under a new key, repeats its answer under a key it
\* knows the mail from, and refuses a key it knows another mail from.
Accepts(m) == keys[idempotencyKey(m)] \in {"free", m}

Accept(m, new) ==
    /\ Accepts(m)
    /\ keys' = [keys EXCEPT ![idempotencyKey(m)] = m]
    /\ Become(m, [new EXCEPT
            !.received = IF keys[idempotencyKey(m)] = "free"
                         THEN @ + 1 ELSE @])

Answered(m) ==
    /\ Working(m) /\ op[m].request = "sent"
    /\ \/ Accept(m, [op[m] EXCEPT !.request = "ok"])
       \/ /\ ~Accepts(m)
          /\ Become(m, [op[m] EXCEPT !.request = "error"])
          /\ UNCHANGED keys
    /\ UNCHANGED <<worker, nextId, crashes, rollbacks>>

\* An attempt that the outside world spoils.
Spoilt(o) == [o EXCEPT !.request = "spoilt"]

\* Resend reports an error, or cannot be reached, or its answer is lost.
RequestFails(m) ==
    /\ Working(m) /\ op[m].request \in {"sent", "ok"}
    /\ Become(m, Spoilt(op[m]))
    /\ UNCHANGED Rest

\* Mutant of RequestTimesOut: there is no timeout.
NoTimeout(m) == FALSE /\ UNCHANGED vars

\* withTimeout gives up the wait; the request goes on.
RequestTimesOut(m) ==
    /\ Working(m) /\ op[m].request = "sent"
    /\ Become(m, [Spoilt(op[m]) EXCEPT !.late = TRUE])
    /\ UNCHANGED Rest

\* A request nobody waits for reaches Resend after all.
LateRequest(m) ==
    /\ op[m].late
    /\ Accept(m, op[m])
    /\ UNCHANGED <<worker, nextId, crashes, rollbacks>>

\* process returns.
Complete(m) ==
    /\ Working(m) /\ op[m].request = "ok"
    /\ Become(m, [op[m] EXCEPT !.job = "done", !.request = "none"])
    /\ UNCHANGED Rest

\* Mutant of AttemptFails: one attempt too many.
AttemptFailsLate(m) ==
    /\ Working(m) /\ op[m].request \in {"error", "spoilt"}
    /\ Become(m, [op[m] EXCEPT
            !.request = "none", !.made = @ + 1,
            !.job = IF op[m].made < MaxAttempts THEN "wait" ELSE "failed"])
    /\ UNCHANGED Rest

\* process throws: another attempt, as long as there is one left.
AttemptFails(m) ==
    /\ Working(m) /\ op[m].request \in {"error", "spoilt"}
    /\ Become(m, [op[m] EXCEPT
            !.request = "none", !.made = @ + 1,
            !.errors = IF op[m].request = "spoilt" THEN @ + 1 ELSE @,
            !.job = IF op[m].made + 1 < MaxAttempts THEN "wait"
                    ELSE "failed"])
    /\ UNCHANGED Rest

\* The process dies; the job it held keeps its lock until the lock expires.
Abandoned(o) ==
    IF o.job = "active"
    THEN [o EXCEPT !.job = "orphan", !.request = "none", !.stops = @ + 1,
                   !.late = @ \/ o.request = "sent"]
    ELSE o

WorkerCrash ==
    /\ worker = "up" /\ crashes < MaxCrashes
    /\ worker' = "down" /\ crashes' = crashes + 1
    /\ op' = [m \in Ops |-> Abandoned(op[m])]
    /\ UNCHANGED <<nextId, keys, rollbacks>>

WorkerStart ==
    /\ worker = "down" /\ worker' = "up"
    /\ UNCHANGED <<op, nextId, keys, crashes, rollbacks>>

\* BullMQ finds a job whose lock has expired: it runs again, and does not
\* count as an attempt; the second time it is given up.
StalledCheck(m) ==
    /\ worker = "up" /\ op[m].job = "orphan"
    /\ Become(m, [op[m] EXCEPT
            !.stalled = @ + 1,
            !.job = IF op[m].stalled < Max_Stalled THEN "wait"
                    ELSE "failed"])
    /\ UNCHANGED Rest

\* Redis comes back without its last second: the newest job is gone if it
\* was not finished, and its id will be given again.
RedisRollback ==
    /\ rollbacks < MaxRollbacks /\ nextId > 1
    /\ rollbacks' = rollbacks + 1
    /\ nextId' = nextId - 1
    /\ op' = [m \in Ops |->
                IF /\ op[m].id = nextId - 1
                   /\ op[m].job \in {"wait", "active", "orphan"}
                THEN [op[m] EXCEPT !.job = "gone", !.request = "none",
                        !.late = @ \/ op[m].request = "sent"]
                ELSE op[m]]
    /\ UNCHANGED <<worker, keys, crashes>>

-----------------------------------------------------------------------------
AuthStep(m) == \/ Publish(m) \/ StoreReport(m)
               \/ Lookup(m) \/ PostFails(m) \/ Enqueue(m)

RequestStep(m) == Answered(m) \/ RequestFails(m) \/ RequestTimesOut(m)

JobStep(m) == Complete(m) \/ AttemptFails(m) \/ StalledCheck(m)

Next ==
    \/ \E m \in Ops : \/ Commit(m) \/ AuthStep(m) \/ Take(m)
                      \/ RequestStep(m) \/ JobStep(m) \/ LateRequest(m)
    \/ AuthCrash \/ WorkerCrash \/ WorkerStart \/ RedisRollback

\* What a running process does next, the timeout that ends a request at the
\* latest, and the restart policy of the containers.
Fairness ==
    /\ \A m \in Ops : /\ WF_vars(AuthStep(m)) /\ WF_vars(StoreReport(m))
                      /\ WF_vars(Take(m)) /\ WF_vars(RequestTimesOut(m))
                      /\ WF_vars(JobStep(m))
    /\ WF_vars(WorkerStart)

Spec == Init /\ [][Next]_vars /\ Fairness

-----------------------------------------------------------------------------
(* Properties.                                                             *)

Owed == {m \in Ops : op[m].mail}

\* More went wrong with m than the retries are there for: it was lost before
\* there was a job, every attempt was spoilt from outside, the process died
\* under it twice, or Redis went back in time.
Excused ==
    {m \in Ops : \/ op[m].dropped \/ op[m].errors >= MaxAttempts
                 \/ op[m].stops > Max_Stalled \/ rollbacks > 0}

Settled(o) ==
    CASE o.job = "done" -> "sent"
      [] o.job \in {"failed", "gone"} -> "abandoned"
      [] o.job = "none" /\ o.dropped /\ o.mail -> "abandoned"
      [] OTHER -> "open"

Promise == INSTANCE MailDelivery WITH
    Letters   <- Ops,
    owed      <- Owed,
    delivered <- [m \in Ops |-> IF op[m].complete
                                THEN op[m].received ELSE 0],
    excused   <- Excused,
    closed    <- [m \in Ops |-> Settled(op[m])]

\* A mail is delivered at most once whatever times out, crashes or is tried
\* again; a job is completed only if its mail was delivered, with nothing
\* missing from it; and a mail is given up only after more failures than the
\* attempts, the stalled-job check and the store were meant to survive.
Delivery == Promise!AbsSpec

\* Every operation's mail ends up sent or given up, and its report counted
\* or lost to a failure: no job stays in the queue, and no step waits for ever.
Settles ==
    \A m \in Ops :
        op[m].pc # "idle" ~>
            /\ op[m].mail => Settled(op[m]) # "open"
            /\ op[m].pc = "ended" /\ op[m].report = "none"

=============================================================================
