---------------------------- MODULE SettlementMail ----------------------------
(***************************************************************************)
(* E-mailing settlements: run_settlement and email_settlement queue an     *)
(* email_settlement_task, a Celery worker mails every tenant through       *)
(* send_owner_email, the page of a settlement mails one tenant, and each   *)
(* e-mail gets an EmailLog row.                                            *)
(*                                                                         *)
(* Celery runs with its defaults: a task is taken off the broker before it *)
(* runs and is not retried.  A batch keeps the mail settings it loaded     *)
(* with its first e-mail.  A worker dies with its batch when it is killed, *)
(* which CELERY_TASK_TIME_LIMIT also does to a batch that takes too long.  *)
(***************************************************************************)
EXTENDS Naturals, Sequences, FiniteSets

CONSTANTS
    Workers,     \* Celery workers
    Clients,     \* requests of the owner's browser
    Calcs,       \* settlements
    People,      \* contracts settled by each, with an e-mail address
    Redirects,   \* whether an owner has an address for test mode: a set of BOOLEANs
    MaxTasks,    \* bound: tasks ever queued
    MaxMails,    \* bound: e-mails ever sent
    MaxCrashes   \* bound: killed workers and requests

ASSUME BoundsAssumption ==
    /\ MaxTasks \in Nat /\ MaxMails \in Nat /\ MaxCrashes \in Nat
    /\ Redirects \subseteq BOOLEAN

Agents == Workers \cup Clients

\* FeeCalculationTenant with an e-mail address; the others are skipped.
Tenant == [calc : Calcs, person : People]
TenantsOf(k) == [calc : {k}, person : People]

\* What the owner has set: test mode, and whether a test-mode address is known.
Settings == [test_mode : BOOLEAN, redirect : Redirects]

\* An e-mail accepted by SMTP: for which task (0 for the page that mails one tenant)
\* and tenant, who got it, and whether it lists the fees.
Mail == [task : Nat, tenant : Tenant, to : {"tenant", "owner"}, items : BOOLEAN]

\* EmailLog; mail is the position of the e-mail it records, 0 if none was sent.
\* A row keeps its tenant here when settlement_tenant is set to NULL.
Log == [mail : Nat, tenant : Tenant, status : {"sent", "failed"}]

\* A job sends to now, or has sent mail to now and logs it; todo comes after.
Idle == [pc |-> "idle"]
Busy == [pc : {"send", "log"}, task : Nat, todo : SUBSET Tenant, now : Tenant, mail : Nat,
         cfg : Settings]
Job == {Idle} \cup Busy

VARIABLES
    calcs,     \* FeeCalculation rows
    saved,     \* settlements ever saved
    tasks,     \* the settlement of each task ever queued: task n is for tasks[n]
    queue,     \* tasks waiting on the broker; workers prefetch, so in no order
    settings,  \* MailSettings of the owner
    job,       \* what each agent is doing
    mails,     \* e-mails accepted by the SMTP server, in order
    logs,      \* EmailLog rows
    crashes

vars == <<calcs, saved, tasks, queue, settings, job, mails, logs, crashes>>

TypeOK ==
    /\ calcs \subseteq Calcs
    /\ saved \subseteq Calcs
    /\ tasks \in Seq(Calcs)
    /\ queue \subseteq Nat
    /\ settings \in Settings
    /\ job \in [Agents -> Job]
    /\ mails \in Seq(Mail)
    /\ logs \subseteq Log
    /\ crashes \in Nat

Init ==
    /\ calcs = {} /\ saved = {} /\ tasks = <<>> /\ queue = {}
    /\ settings \in [test_mode : {FALSE}, redirect : Redirects]
    /\ job = [a \in Agents |-> Idle]
    /\ mails = <<>> /\ logs = {}
    /\ crashes = 0

-----------------------------------------------------------------------------
(* The owner *)

Queue(k) ==
    /\ Len(tasks) < MaxTasks
    /\ tasks' = Append(tasks, k)
    /\ queue' = queue \cup {Len(tasks) + 1}

\* run_settlement: the settlement is committed before its task is queued.
RunSettlement(c) ==
    /\ job[c] = Idle
    /\ \E k \in Calcs \ saved :
         /\ calcs' = calcs \cup {k}
         /\ saved' = saved \cup {k}
         /\ \/ Queue(k)
            \/ UNCHANGED <<tasks, queue>>
    /\ UNCHANGED <<settings, job, mails, logs, crashes>>

\* email_settlement queues another task.
EmailSettlement(c) ==
    /\ job[c] = Idle
    /\ \E k \in calcs : Queue(k)
    /\ UNCHANGED <<calcs, saved, settings, job, mails, logs, crashes>>

\* delete_settlement: the logs stay and lose their tenant (SET_NULL).
DeleteSettlement(c) ==
    /\ job[c] = Idle
    /\ \E k \in calcs : calcs' = calcs \ {k}
    /\ UNCHANGED <<saved, tasks, queue, settings, job, mails, logs, crashes>>

SaveMailSettings(c) ==
    /\ job[c] = Idle
    /\ settings' \in Settings
    /\ UNCHANGED <<calcs, saved, tasks, queue, job, mails, logs, crashes>>

-----------------------------------------------------------------------------
(* Sending *)

\* What a job does with the tenants it has left: it takes any of them, for the rows
\* come in no specified order.
Rest(task, todo, cfg) ==
    IF todo = {} THEN {Idle}
    ELSE {[pc |-> "send", task |-> task, todo |-> todo \ {t}, now |-> t,
           mail |-> 0, cfg |-> cfg] : t \in todo}

\* Mutant: a task is acknowledged after it ran.
AcknowledgedLate(n) == queue

Taken(n) == queue \ {n}

\* email_settlement_task: a settlement deleted while it waited ends the task.
TakeTask(w) ==
    /\ job[w] = Idle
    /\ \E n \in queue :
         /\ queue' = Taken(n)
         /\ \E j \in Rest(n, IF tasks[n] \in calcs THEN TenantsOf(tasks[n]) ELSE {}, settings) :
              job' = [job EXCEPT ![w] = j]
    /\ UNCHANGED <<calcs, saved, tasks, settings, mails, logs, crashes>>

\* settlement_email_send_one
SendOne(c) ==
    /\ job[c] = Idle
    /\ \E k \in calcs : \E t \in TenantsOf(k) : \E j \in Rest(0, {t}, settings) :
         job' = [job EXCEPT ![c] = j]
    /\ UNCHANGED <<calcs, saved, tasks, queue, settings, mails, logs, crashes>>

\* Test mode sends to the owner, if an address of the owner is known.
Recipient(cfg) == IF cfg.test_mode /\ cfg.redirect THEN "owner" ELSE "tenant"

\* The SMTP server accepts.  The fees are read while the e-mail is rendered: those
\* of a deleted settlement are gone.
Send(a) ==
    /\ job[a].pc = "send"
    /\ Len(mails) < MaxMails
    /\ mails' = Append(mails, [task |-> job[a].task, tenant |-> job[a].now,
                               to |-> Recipient(job[a].cfg),
                               items |-> job[a].now.calc \in calcs])
    /\ job' = [job EXCEPT ![a] = [pc |-> "log", task |-> @.task, todo |-> @.todo,
                                 now |-> @.now, mail |-> Len(mails) + 1, cfg |-> @.cfg]]
    /\ UNCHANGED <<calcs, saved, tasks, queue, settings, logs, crashes>>

\* Mutant: a failed e-mail is not recorded.
NoLog(a) == logs

\* A log of a tenant who is gone fails on its foreign key and is not written.
FailedLog(a) ==
    IF job[a].now.calc \in calcs
    THEN logs \cup {[mail |-> 0, tenant |-> job[a].now, status |-> "failed"]} ELSE logs

\* The SMTP server refuses: the exception is logged and ends the whole batch.
SendFails(a) ==
    /\ job[a].pc = "send"
    /\ logs' = FailedLog(a)
    /\ job' = [job EXCEPT ![a] = Idle]
    /\ UNCHANGED <<calcs, saved, tasks, queue, settings, mails, crashes>>

\* Mutant: a tenant has one row, that of the latest e-mail.
OneRowPerTenant(a) ==
    {l \in logs : l.tenant # job[a].now}
    \cup {[mail |-> job[a].mail, tenant |-> job[a].now, status |-> "sent"]}

SentLog(a) == logs \cup {[mail |-> job[a].mail, tenant |-> job[a].now, status |-> "sent"]}

\* The e-mail is logged as sent and the job goes on ...
LogSent(a) ==
    /\ job[a].pc = "log"
    /\ job[a].now.calc \in calcs
    /\ logs' = SentLog(a)
    /\ \E j \in Rest(job[a].task, job[a].todo, job[a].cfg) : job' = [job EXCEPT ![a] = j]
    /\ UNCHANGED <<calcs, saved, tasks, queue, settings, mails, crashes>>

\* ... unless the tenant is gone: the foreign key fails and ends the batch.
LogFails(a) ==
    /\ job[a].pc = "log"
    /\ job[a].now.calc \notin calcs
    /\ job' = [job EXCEPT ![a] = Idle]
    /\ UNCHANGED <<calcs, saved, tasks, queue, settings, mails, logs, crashes>>

Crash(a) ==
    /\ job[a] # Idle
    /\ crashes < MaxCrashes
    /\ crashes' = crashes + 1
    /\ job' = [job EXCEPT ![a] = Idle]
    /\ UNCHANGED <<calcs, saved, tasks, queue, settings, mails, logs>>

-----------------------------------------------------------------------------
Work(a) == Send(a) \/ SendFails(a) \/ LogSent(a) \/ LogFails(a)

Next ==
    \/ \E c \in Clients :
         RunSettlement(c) \/ EmailSettlement(c) \/ DeleteSettlement(c)
         \/ SaveMailSettings(c) \/ SendOne(c)
    \/ \E w \in Workers : TakeTask(w)
    \/ \E a \in Agents : Work(a) \/ Crash(a)

Spec == Init /\ [][Next]_vars

\* Workers keep taking tasks and running the code they are in.
Fairness == \A w \in Workers : WF_vars(TakeTask(w)) /\ WF_vars(Work(w))
FairSpec == Spec /\ Fairness

-----------------------------------------------------------------------------
(* Properties *)

Logged(i) == \E l \in logs : l.mail = i /\ l.status = "sent"
BeingLogged(i) == \E a \in Agents : job[a].pc = "log" /\ job[a].mail = i

\* The unlogged e-mails of a settlement that still exists.
Unlogged == {i \in DOMAIN mails :
                /\ mails[i].tenant.calc \in calcs
                /\ ~Logged(i) /\ ~BeingLogged(i)}

\* No task n is waiting or being run.
Over(n) == n \notin queue /\ \A a \in Agents : job[a] # Idle => job[a].task # n

\* A task is delivered once and a batch never returns to a tenant, so however
\* workers die a task mails a tenant at most once.
TaskMailsOnce ==
    \A i, j \in DOMAIN mails :
        (mails[i].task = mails[j].task /\ mails[i].task # 0
         /\ mails[i].tenant = mails[j].tenant) => i = j

\* A job that logs an e-mail has sent it to the tenant it logs.
JobsLogTheirMail ==
    \A a \in Agents : job[a].pc = "log" =>
        job[a].mail \in DOMAIN mails /\ mails[job[a].mail].tenant = job[a].now

\* A task waits, then a worker is at it or has been: numbers are not used again.
TasksTaken ==
    /\ queue \subseteq DOMAIN tasks
    /\ \A a \in Agents : job[a] # Idle => job[a].task <= Len(tasks) /\ job[a].task \notin queue
    /\ \A i \in DOMAIN mails : mails[i].task <= Len(tasks) /\ mails[i].task \notin queue

\* Jobs and e-mails are about settlements that were saved, if deleted since.
AboutSaved ==
    /\ calcs \subseteq saved
    /\ \A i \in DOMAIN mails : mails[i].tenant.calc \in saved
    /\ \A a \in Agents : job[a] # Idle =>
         \A t \in job[a].todo \cup {job[a].now} : t.calc \in saved

\* Two agents are never at one task.
BatchesApart ==
    \A a, b \in Agents :
        (/\ job[a] # Idle /\ job[b] # Idle
         /\ job[a].task = job[b].task /\ job[a].task # 0) => a = b

\* What a job is still to send, its task has not sent before.
StillToSend(a) ==
    IF job[a] = Idle THEN {}
    ELSE job[a].todo \cup (IF job[a].pc = "send" THEN {job[a].now} ELSE {})

MailedBy(n, t) == \E i \in DOMAIN mails : mails[i].task = n /\ mails[i].tenant = t

NothingSentTwice ==
    \A a \in Agents :
        /\ job[a] # Idle => job[a].now \notin job[a].todo
        /\ \A t \in StillToSend(a) : job[a].task # 0 => ~MailedBy(job[a].task, t)

\* The inductive invariant of queue, batches and e-mails.
MailInv ==
    /\ JobsLogTheirMail
    /\ TasksTaken
    /\ AboutSaved
    /\ BatchesApart
    /\ NothingSentTwice
    /\ TaskMailsOnce

\* send_owner_email leaves no e-mail of a kept settlement out of the audit trail,
\* but for one with each process killed between SMTP and log.save().
MailsAccounted == Cardinality(Unlogged) <= crashes

\* The page of a settlement shows whether its batches went wrong: once its tasks have
\* ended and none was killed, every tenant is logged as sent, or a failure is.
StoppedBatchShows ==
    \A k \in {tasks[n] : n \in DOMAIN tasks} \cap calcs :
        (crashes = 0 /\ \A n \in DOMAIN tasks : tasks[n] = k => Over(n))
        => \/ \A t \in TenantsOf(k) : \E l \in logs : l.tenant = t /\ l.status = "sent"
           \/ \E l \in logs : l.tenant.calc = k /\ l.status = "failed"

\* With fair workers every queued task is taken and run to its end.
BatchEnds == \A n \in 1..MaxTasks : n \in queue ~> Over(n)

=============================================================================
