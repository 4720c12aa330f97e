------------------------- MODULE SettlementMailProofs -------------------------
(* Proofs about SettlementMail, for every number of workers and settlements. *)
EXTENDS SettlementMail, FiniteSetTheorems, TLAPS

\* What Rest makes of a set of tenants: an end, or an e-mail to one of them.
LEMMA RestCases ==
    ASSUME NEW task \in Nat, NEW todo \in SUBSET Tenant, NEW cfg \in Settings,
           NEW j \in Rest(task, todo, cfg)
    PROVE  \/ todo = {} /\ j = Idle
           \/ /\ j \in Busy /\ j # Idle /\ j.pc = "send" /\ j.now \in todo
              /\ j.todo = todo \ {j.now} /\ j.task = task
<1>1. CASE todo = {}
  BY <1>1 DEF Rest
<1>2. CASE todo # {}
  <2>1. PICK t \in todo : j = [pc |-> "send", task |-> task, todo |-> todo \ {t}, now |-> t,
                               mail |-> 0, cfg |-> cfg]
    BY <1>2 DEF Rest
  <2> QED BY <2>1 DEF Busy, Idle
<1> QED BY <1>1, <1>2

\* What Rest makes is a job.
LEMMA RestTyped ==
    ASSUME NEW task \in Nat, NEW todo \in SUBSET Tenant, NEW cfg \in Settings
    PROVE  Rest(task, todo, cfg) \subseteq Job
BY RestCases DEF Job

\* A job in one of its two busy states has the fields of one.
LEMMA BusyJob ==
    ASSUME NEW j \in Job, j.pc \in {"send", "log"} \/ j # Idle
    PROVE  /\ j \in Busy /\ j # Idle /\ j.todo \in SUBSET Tenant /\ j.now \in Tenant
           /\ j.mail \in Nat /\ j.cfg \in Settings /\ j.pc \in {"send", "log"}
           /\ j.now.calc \in Calcs /\ j.task \in Nat
BY DEF Job, Busy, Idle, Tenant

\* The tenants of a settlement are tenants.
LEMMA TenantsTyped ==
    ASSUME NEW k \in Calcs
    PROVE  TenantsOf(k) \in SUBSET Tenant /\ \A t \in TenantsOf(k) : t.calc = k
BY DEF TenantsOf, Tenant

\* Queueing a task keeps the types of the task list and the queue.
LEMMA QueueTyped ==
    ASSUME TypeOK, NEW k \in Calcs, Queue(k)
    PROVE  tasks' \in Seq(Calcs) /\ queue' \subseteq Nat
<1>1. tasks \in Seq(Calcs) /\ tasks' = Append(tasks, k)
  BY DEF TypeOK, Queue
<1>2. Len(tasks) \in Nat /\ tasks' \in Seq(Calcs)
  BY <1>1
<1>3. queue \subseteq Nat /\ queue' = queue \cup {Len(tasks) + 1}
  BY DEF TypeOK, Queue
<1>4. Len(tasks) + 1 \in Nat
  BY <1>2
<1> QED BY <1>2, <1>3, <1>4

\* Every variable keeps its type: a step writes only rows and jobs of the types above.
LEMMA TypeStep == TypeOK /\ [Next]_vars => TypeOK'
<1> SUFFICES ASSUME TypeOK, [Next]_vars PROVE TypeOK'
  OBVIOUS
<1>1. ASSUME NEW c \in Clients, RunSettlement(c) PROVE TypeOK'
  <2>1. PICK k \in Calcs \ saved : /\ calcs' = calcs \cup {k} /\ saved' = saved \cup {k}
                                  /\ (Queue(k) \/ UNCHANGED <<tasks, queue>>)
    BY <1>1 DEF RunSettlement
  <2>2. tasks' \in Seq(Calcs) /\ queue' \subseteq Nat
    BY <2>1, QueueTyped DEF TypeOK
  <2> QED BY <1>1, <2>1, <2>2 DEF TypeOK, RunSettlement
<1>12. ASSUME NEW c \in Clients, EmailSettlement(c) PROVE TypeOK'
  <2>1. PICK k \in calcs : Queue(k)
    BY <1>12 DEF EmailSettlement
  <2>2. tasks' \in Seq(Calcs) /\ queue' \subseteq Nat
    BY <2>1, QueueTyped DEF TypeOK
  <2> QED BY <1>12, <2>2 DEF TypeOK, EmailSettlement
<1>2. ASSUME NEW c \in Clients, DeleteSettlement(c) PROVE TypeOK'
  BY <1>2 DEF TypeOK, DeleteSettlement
<1>3. ASSUME NEW c \in Clients, SaveMailSettings(c) PROVE TypeOK'
  BY <1>3 DEF TypeOK, SaveMailSettings
<1>4. ASSUME NEW c \in Clients, SendOne(c) PROVE TypeOK'
  <2>0. PICK k \in calcs : \E t \in TenantsOf(k) : \E j \in Rest(0, {t}, settings) :
          job' = [job EXCEPT ![c] = j]
    BY <1>4 DEF SendOne
  <2>1. PICK t \in TenantsOf(k) : \E j \in Rest(0, {t}, settings) : job' = [job EXCEPT ![c] = j]
    BY <2>0
  <2>2. {t} \in SUBSET Tenant /\ settings \in Settings
    BY TenantsTyped DEF TypeOK
  <2>3. PICK j \in Job : job' = [job EXCEPT ![c] = j]
    BY <2>1, <2>2, RestTyped
  <2> QED BY <1>4, <2>1, <2>3 DEF TypeOK, SendOne
<1>5. ASSUME NEW w \in Workers, TakeTask(w) PROVE TypeOK'
  <2>1. PICK n \in queue :
          /\ queue' = queue \ {n}
          /\ \E j \in Rest(n, IF tasks[n] \in calcs THEN TenantsOf(tasks[n]) ELSE {}, settings) :
               job' = [job EXCEPT ![w] = j]
    BY <1>5 DEF TakeTask, Taken
  <2>2. (IF tasks[n] \in calcs THEN TenantsOf(tasks[n]) ELSE {}) \in SUBSET Tenant
    BY TenantsTyped DEF TypeOK
  <2>3. n \in Nat /\ settings \in Settings
    BY DEF TypeOK
  <2>4. PICK j \in Job : job' = [job EXCEPT ![w] = j]
    BY <2>1, <2>2, <2>3, RestTyped
  <2> QED BY <1>5, <2>1, <2>4 DEF TypeOK, TakeTask
<1>6. ASSUME NEW a \in Agents, Send(a) PROVE TypeOK'
  <2> DEFINE m == [task |-> job[a].task, tenant |-> job[a].now,
                   to |-> Recipient(job[a].cfg), items |-> job[a].now.calc \in calcs]
             j == [pc |-> "log", task |-> job[a].task, todo |-> job[a].todo, now |-> job[a].now,
                   mail |-> Len(mails) + 1, cfg |-> job[a].cfg]
  <2>1. job[a] \in Job /\ job[a].pc \in {"send", "log"}
    BY <1>6 DEF TypeOK, Send
  <2>2. job[a] \in Busy /\ job[a].now \in Tenant
    BY <2>1, BusyJob
  <2>3. Recipient(job[a].cfg) \in {"tenant", "owner"}
    BY DEF Recipient
  <2>4. m \in Mail
    BY <2>2, <2>3 DEF Mail, Busy
  <2>5. Len(mails) \in Nat
    BY DEF TypeOK
  <2>6. j \in Job
    BY <2>2, <2>5 DEF Job, Busy
  <2>7. mails' = Append(mails, m) /\ job' = [job EXCEPT ![a] = j]
    BY <1>6 DEF Send
  <2>8. mails' \in Seq(Mail) /\ job' \in [Agents -> Job]
    BY <2>4, <2>6, <2>7 DEF TypeOK
  <2> QED BY <1>6, <2>8 DEF TypeOK, Send
<1>7. ASSUME NEW a \in Agents, SendFails(a) PROVE TypeOK'
  <2>1. job[a].now \in Tenant
    BY <1>7, BusyJob DEF TypeOK, SendFails
  <2>2. FailedLog(a) \subseteq Log
    BY <2>1 DEF FailedLog, Log, TypeOK
  <2> QED BY <1>7, <2>2 DEF TypeOK, SendFails, Job
<1>8. ASSUME NEW a \in Agents, LogSent(a) PROVE TypeOK'
  <2>1. /\ job[a].now \in Tenant /\ job[a].mail \in Nat
        /\ job[a].todo \in SUBSET Tenant /\ job[a].cfg \in Settings /\ job[a].task \in Nat
    BY <1>8, BusyJob DEF TypeOK, LogSent
  <2>2. SentLog(a) \subseteq Log
    BY <2>1 DEF SentLog, Log, TypeOK
  <2>3. PICK j \in Job : job' = [job EXCEPT ![a] = j]
    BY <1>8, <2>1, RestTyped DEF LogSent
  <2> QED BY <1>8, <2>2, <2>3 DEF TypeOK, LogSent
<1>9. ASSUME NEW a \in Agents, LogFails(a) PROVE TypeOK'
  BY <1>9 DEF TypeOK, LogFails, Job
<1>10. ASSUME NEW a \in Agents, Crash(a) PROVE TypeOK'
  BY <1>10 DEF TypeOK, Crash, Job
<1>11. ASSUME UNCHANGED vars PROVE TypeOK'
  BY <1>11 DEF TypeOK, vars
<1> QED BY <1>1, <1>2, <1>3, <1>4, <1>5, <1>6, <1>7, <1>8, <1>9, <1>10, <1>11, <1>12
    DEF Next, Work, vars

\* The tables start empty and every agent idle.
LEMMA TypeInit == Init => TypeOK
<1> SUFFICES ASSUME Init PROVE TypeOK
  OBVIOUS
<1>1. settings \in Settings
  BY DEF Init, Settings
<1>2. job \in [Agents -> Job]
  BY DEF Init, Job
<1>3. mails \in Seq(Mail) /\ tasks \in Seq(Calcs)
  BY DEF Init
<1> QED BY <1>1, <1>2, <1>3 DEF Init, TypeOK

\* Settlements, queue, jobs, e-mails and audit rows keep their types.
THEOREM TypeCorrect == Spec => []TypeOK
BY TypeInit, TypeStep, PTL DEF Spec

-----------------------------------------------------------------------------
\* Handing an e-mail to SMTP keeps the earlier ones and puts it last.
LEMMA Appended ==
    ASSUME TypeOK, NEW m \in Mail, mails' = Append(mails, m)
    PROVE  /\ Len(mails) \in Nat
           /\ DOMAIN mails = 1..Len(mails)
           /\ DOMAIN mails' = 1..(Len(mails) + 1)
           /\ \A i \in DOMAIN mails : mails'[i] = mails[i]
           /\ mails'[Len(mails) + 1] = m
BY DEF TypeOK

\* A job that ends or goes on to a tenant it had left, and a client's job, keep the
\* invariant while no e-mail is sent.
LEMMA JobStep ==
    ASSUME TypeOK, MailInv, NEW a \in Agents, NEW j,
           job' = [job EXCEPT ![a] = j],
           UNCHANGED <<calcs, saved, tasks, queue, mails>>,
           \/ j = Idle
           \/ /\ j.pc = "send" /\ j.now \notin j.todo
              /\ \A t \in j.todo \cup {j.now} : t.calc \in saved
              /\ \/ j.task = 0
                 \/ /\ job[a] # Idle /\ j.task = job[a].task
                    /\ j.todo \cup {j.now} \subseteq job[a].todo
    PROVE  MailInv'
<1>1. \A b \in Agents : job'[b] = IF b = a THEN j ELSE job[b]
  BY DEF TypeOK
<1>2. \A n, t : MailedBy(n, t)' = MailedBy(n, t)
  BY DEF MailedBy
<1>3. JobsLogTheirMail'
  BY <1>1 DEF MailInv, JobsLogTheirMail, Idle
<1>4. TasksTaken'
  <2>1. queue \subseteq Nat \ {0} /\ Len(tasks) \in Nat
    BY DEF MailInv, TasksTaken, TypeOK
  <2>2. j # Idle => j.task <= Len(tasks) /\ j.task \notin queue
    BY <2>1 DEF MailInv, TasksTaken
  <2> QED BY <1>1, <2>2 DEF MailInv, TasksTaken
<1>5. AboutSaved'
  BY <1>1 DEF MailInv, AboutSaved
<1>6. BatchesApart'
  BY <1>1 DEF MailInv, BatchesApart
<1>7. NothingSentTwice'
  BY <1>1, <1>2 DEF MailInv, NothingSentTwice, StillToSend
<1>8. TaskMailsOnce'
  BY DEF MailInv, TaskMailsOnce
<1> QED BY <1>3, <1>4, <1>5, <1>6, <1>7, <1>8 DEF MailInv

\* A new task has a number no job and no e-mail has.
LEMMA QueueStep ==
    ASSUME TypeOK, MailInv, NEW k \in Calcs, Queue(k), calcs \subseteq calcs',
           calcs' \subseteq saved', saved \subseteq saved', UNCHANGED <<job, mails>>
    PROVE  MailInv'
<1>1. /\ Len(tasks) \in Nat /\ DOMAIN tasks = 1..Len(tasks)
      /\ Len(tasks') = Len(tasks) + 1 /\ DOMAIN tasks' = 1..(Len(tasks) + 1)
      /\ queue' = queue \cup {Len(tasks) + 1}
  BY DEF TypeOK, Queue
<1>2. \A a \in Agents : job[a] # Idle => job[a].task \in Nat
  <2> SUFFICES ASSUME NEW a \in Agents, job[a] # Idle PROVE job[a].task \in Nat
    OBVIOUS
  <2>1. job[a] \in Job
    BY DEF TypeOK
  <2>2. job[a] \in Busy
    BY <2>1 DEF Job
  <2> QED BY <2>2 DEF Busy
<1>3. \A i \in DOMAIN mails : mails[i].task \in Nat
  <2>1. mails \in Seq(Mail)
    BY DEF TypeOK
  <2>2. \A i \in DOMAIN mails : mails[i] \in Mail
    BY <2>1
  <2> QED BY <2>2 DEF Mail
<1>4. TasksTaken'
  <2>1. \A a \in Agents : job[a] # Idle => job[a].task <= Len(tasks') /\ job[a].task \notin queue'
    BY <1>1, <1>2 DEF MailInv, TasksTaken
  <2>2. \A i \in DOMAIN mails : mails[i].task <= Len(tasks') /\ mails[i].task \notin queue'
    BY <1>1, <1>3 DEF MailInv, TasksTaken
  <2>3. queue' \subseteq DOMAIN tasks'
    BY <1>1 DEF MailInv, TasksTaken
  <2> QED BY <2>1, <2>2, <2>3 DEF TasksTaken
<1>5. AboutSaved'
  BY DEF MailInv, AboutSaved
<1> QED BY <1>4, <1>5 DEF MailInv, JobsLogTheirMail, BatchesApart, NothingSentTwice,
         TaskMailsOnce, MailedBy, StillToSend

\* A worker takes a task no agent is at and no e-mail was sent for.
LEMMA TakeStep ==
    ASSUME TypeOK, MailInv, NEW w \in Workers, TakeTask(w)
    PROVE  MailInv'
<1>1. PICK n \in queue :
        /\ queue' = queue \ {n}
        /\ \E j \in Rest(n, IF tasks[n] \in calcs THEN TenantsOf(tasks[n]) ELSE {}, settings) :
             job' = [job EXCEPT ![w] = j]
  BY DEF TakeTask, Taken
<1> DEFINE todo == IF tasks[n] \in calcs THEN TenantsOf(tasks[n]) ELSE {}
<1>2. todo \in SUBSET Tenant /\ \A t \in todo : t.calc \in saved
  BY TenantsTyped DEF TypeOK, MailInv, AboutSaved
<1>3. n \in Nat /\ n <= Len(tasks) /\ settings \in Settings
  BY DEF TypeOK, MailInv, TasksTaken
<1>4. PICK j \in Rest(n, todo, settings) : job' = [job EXCEPT ![w] = j]
  BY <1>1
<1> HIDE DEF todo
<1>5. \/ j = Idle
      \/ j # Idle /\ j.pc = "send" /\ j.now \in todo /\ j.todo = todo \ {j.now} /\ j.task = n
  BY <1>2, <1>3, <1>4, RestCases
<1>6. \A b \in Agents : job'[b] = IF b = w THEN j ELSE job[b]
  BY <1>4 DEF TypeOK
<1>7. UNCHANGED <<calcs, saved, tasks, mails>>
  BY DEF TakeTask
<1>8. \A b \in Agents : job[b] # Idle => job[b].task # n
  BY DEF MailInv, TasksTaken
<1>9. \A i \in DOMAIN mails : mails[i].task # n
  BY DEF MailInv, TasksTaken
<1>10. JobsLogTheirMail'
  BY <1>5, <1>6, <1>7 DEF MailInv, JobsLogTheirMail, Idle
<1>11. TasksTaken'
  <2>1. j # Idle => j.task <= Len(tasks) /\ j.task \notin queue'
    BY <1>1, <1>3, <1>5
  <2> QED BY <1>1, <1>6, <1>7, <2>1 DEF MailInv, TasksTaken
<1>12. AboutSaved'
  <2>1. j # Idle => \A t \in j.todo \cup {j.now} : t.calc \in saved
    BY <1>2, <1>5
  <2> QED BY <1>6, <1>7, <2>1 DEF MailInv, AboutSaved
<1>13. BatchesApart'
  BY <1>5, <1>6, <1>8 DEF MailInv, BatchesApart
<1>14. NothingSentTwice'
  <2>1. \A m, t : MailedBy(m, t)' = MailedBy(m, t)
    BY <1>7 DEF MailedBy
  <2>2. \A t : ~MailedBy(n, t)
    BY <1>9 DEF MailedBy
  <2> QED BY <1>5, <1>6, <2>1, <2>2 DEF MailInv, NothingSentTwice, StillToSend
<1>15. TaskMailsOnce'
  BY <1>7 DEF MailInv, TaskMailsOnce
<1> QED BY <1>10, <1>11, <1>12, <1>13, <1>14, <1>15 DEF MailInv

\* A batch mails a tenant its task has not mailed, and no other agent is at its task.
LEMMA SendStep ==
    ASSUME TypeOK, MailInv, NEW a \in Agents, Send(a)
    PROVE  MailInv'
<1> DEFINE now == job[a].now
           n == job[a].task
           m == [task |-> n, tenant |-> now, to |-> Recipient(job[a].cfg),
                 items |-> now.calc \in calcs]
           j == [pc |-> "log", task |-> n, todo |-> job[a].todo, now |-> now,
                 mail |-> Len(mails) + 1, cfg |-> job[a].cfg]
<1>1. job[a] # Idle /\ now \in Tenant /\ n \in Nat /\ job[a].pc = "send"
  BY BusyJob DEF Send, TypeOK
<1>2. m \in Mail /\ m.tenant = now /\ m.task = n
  BY <1>1 DEF Mail, Recipient
<1>3. mails' = Append(mails, m)
  BY DEF Send
<1> HIDE DEF m
<1>4. /\ Len(mails) \in Nat
      /\ DOMAIN mails = 1..Len(mails)
      /\ DOMAIN mails' = 1..(Len(mails) + 1)
      /\ \A i \in DOMAIN mails : mails'[i] = mails[i]
      /\ mails'[Len(mails) + 1] = m
  BY <1>2, <1>3, Appended
<1>5. \A b \in Agents : job'[b] = IF b = a THEN j ELSE job[b]
  BY DEF Send, TypeOK
<1>6. UNCHANGED <<calcs, saved, tasks, queue>>
  BY DEF Send
<1>7. /\ j # Idle /\ j.now = now /\ j.todo = job[a].todo /\ j.pc = "log"
      /\ j.mail = Len(mails) + 1 /\ j.task = n
  BY DEF Idle
<1> HIDE DEF j
<1>8. \A i \in DOMAIN mails' : i \in DOMAIN mails \/ (i = Len(mails) + 1 /\ mails'[i] = m)
  BY <1>4
<1>9. n # 0 => ~MailedBy(n, now)
  BY <1>1 DEF StillToSend, MailInv, NothingSentTwice
<1>10. JobsLogTheirMail'
  BY <1>2, <1>4, <1>5, <1>7 DEF MailInv, JobsLogTheirMail
<1>11. TasksTaken'
  <2>1. n <= Len(tasks) /\ n \notin queue
    BY <1>1 DEF MailInv, TasksTaken
  <2>2. \A i \in DOMAIN mails' : mails'[i].task <= Len(tasks) /\ mails'[i].task \notin queue
    BY <1>2, <1>4, <1>8, <2>1 DEF MailInv, TasksTaken
  <2> QED BY <1>5, <1>6, <1>7, <2>1, <2>2 DEF MailInv, TasksTaken
<1>12. AboutSaved'
  BY <1>1, <1>2, <1>4, <1>5, <1>6, <1>7 DEF MailInv, AboutSaved
<1>13. BatchesApart'
  BY <1>1, <1>5, <1>7 DEF MailInv, BatchesApart
<1>14. NothingSentTwice'
  <2>0. \A l, t : MailedBy(l, t)' <=> MailedBy(l, t) \/ (l = n /\ t = now)
    BY <1>2, <1>4, <1>8 DEF MailedBy
  <2> SUFFICES ASSUME NEW b \in Agents, job'[b] # Idle
               PROVE  /\ job'[b].now \notin job'[b].todo
                      /\ \A t \in StillToSend(b)' : job'[b].task # 0 =>
                           ~MailedBy(job'[b].task, t) /\ ~(job'[b].task = n /\ t = now)
    <3>1. \A b \in Agents : StillToSend(b)' # {} => job'[b] # Idle
      BY DEF StillToSend
    <3> QED BY <2>0, <3>1 DEF NothingSentTwice
  <2>1. job[b] # Idle /\ job'[b].now = job[b].now /\ job'[b].todo = job[b].todo
        /\ job'[b].task = job[b].task
    BY <1>1, <1>5, <1>7
  <2>2. job'[b].now \notin job'[b].todo
    BY <2>1 DEF MailInv, NothingSentTwice
  <2>3. ASSUME NEW t \in StillToSend(b)', job'[b].task # 0
        PROVE  ~MailedBy(job'[b].task, t) /\ ~(job'[b].task = n /\ t = now)
    <3>1. t \in StillToSend(b)
      BY <1>5, <1>7, <2>1, <2>3 DEF StillToSend
    <3>2. ~MailedBy(job[b].task, t)
      BY <2>1, <2>3, <3>1 DEF MailInv, NothingSentTwice
    <3>3. ~(n = job[b].task /\ now = t)
      <4>1. CASE b = a
        BY <1>5, <1>7, <2>1, <2>2, <2>3, <4>1 DEF StillToSend
      <4>2. CASE b # a
        BY <1>1, <2>1, <2>3, <4>2 DEF MailInv, BatchesApart
      <4> QED BY <4>1, <4>2
    <3> QED BY <2>1, <3>2, <3>3
  <2> QED BY <2>2, <2>3
<1>15. TaskMailsOnce'
  <2> SUFFICES ASSUME NEW i \in DOMAIN mails', NEW k \in DOMAIN mails',
                      mails'[i].task = mails'[k].task, mails'[i].task # 0,
                      mails'[i].tenant = mails'[k].tenant
               PROVE  i = k
    BY DEF TaskMailsOnce
  <2>1. CASE i \in DOMAIN mails /\ k \in DOMAIN mails
    BY <1>4, <2>1 DEF MailInv, TaskMailsOnce
  <2>2. \A l \in DOMAIN mails : n # 0 => ~(mails[l].task = n /\ mails[l].tenant = now)
    BY <1>9 DEF MailedBy
  <2> QED BY <1>2, <1>4, <1>8, <2>1, <2>2
<1> QED BY <1>10, <1>11, <1>12, <1>13, <1>14, <1>15 DEF MailInv

\* No step of a browser, worker or crash breaks the invariant.
LEMMA MailStep == TypeOK /\ MailInv /\ [Next]_vars => MailInv'
<1> SUFFICES ASSUME TypeOK, MailInv, [Next]_vars PROVE MailInv'
  OBVIOUS
<1>1. ASSUME NEW c \in Clients, RunSettlement(c) PROVE MailInv'
  <2>1. PICK k \in Calcs \ saved : /\ calcs' = calcs \cup {k} /\ saved' = saved \cup {k}
                                  /\ (Queue(k) \/ UNCHANGED <<tasks, queue>>)
    BY <1>1 DEF RunSettlement
  <2>2. /\ UNCHANGED <<job, mails>> /\ calcs \subseteq calcs' /\ saved \subseteq saved'
        /\ calcs' \subseteq saved'
    BY <1>1, <2>1 DEF RunSettlement, MailInv, AboutSaved
  <2>3. CASE Queue(k)
    BY <2>2, <2>3, QueueStep
  <2>4. CASE UNCHANGED <<tasks, queue>>
    BY <2>2, <2>4 DEF MailInv, JobsLogTheirMail, TasksTaken, AboutSaved, BatchesApart,
       NothingSentTwice, TaskMailsOnce, MailedBy, StillToSend
  <2> QED BY <2>1, <2>3, <2>4
<1>2. ASSUME NEW c \in Clients, EmailSettlement(c) PROVE MailInv'
  <2>1. PICK k \in calcs : Queue(k)
    BY <1>2 DEF EmailSettlement
  <2>2. k \in Calcs /\ UNCHANGED <<calcs, saved, job, mails>> /\ calcs \subseteq saved
    BY <1>2 DEF EmailSettlement, TypeOK, MailInv, AboutSaved
  <2> QED BY <2>1, <2>2, QueueStep
<1>3. ASSUME NEW c \in Clients, DeleteSettlement(c) \/ SaveMailSettings(c) PROVE MailInv'
  <2>1. calcs' \subseteq calcs /\ UNCHANGED <<saved, tasks, queue, job, mails>>
    BY <1>3 DEF DeleteSettlement, SaveMailSettings
  <2>2. TasksTaken' /\ NothingSentTwice'
    BY <2>1 DEF MailInv, TasksTaken, NothingSentTwice, MailedBy, StillToSend
  <2> QED BY <2>1, <2>2 DEF MailInv, AboutSaved, JobsLogTheirMail, BatchesApart, TaskMailsOnce
<1>4. ASSUME NEW c \in Clients, SendOne(c) PROVE MailInv'
  <2>1. PICK k \in calcs : \E t \in TenantsOf(k) : \E j \in Rest(0, {t}, settings) :
          job' = [job EXCEPT ![c] = j]
    BY <1>4 DEF SendOne
  <2>2. PICK t \in TenantsOf(k) : \E j \in Rest(0, {t}, settings) : job' = [job EXCEPT ![c] = j]
    BY <2>1
  <2>3. {t} \in SUBSET Tenant /\ settings \in Settings
    BY TenantsTyped DEF TypeOK
  <2>4. PICK j \in Rest(0, {t}, settings) : job' = [job EXCEPT ![c] = j]
    BY <2>2
  <2> DEFINE todo == {t}
  <2>9. 0 \in Nat /\ todo \in SUBSET Tenant /\ settings \in Settings /\ j \in Rest(0, todo, settings)
    BY <2>3, <2>4
  <2> HIDE DEF todo
  <2>5. \/ j = Idle
        \/ j.pc = "send" /\ j.now \in todo /\ j.todo = todo \ {j.now} /\ j.task = 0
    BY <2>9, RestCases
  <2>6. t.calc \in saved
    BY TenantsTyped DEF TypeOK, MailInv, AboutSaved
  <2>7. c \in Agents /\ UNCHANGED <<calcs, saved, tasks, queue, mails>>
    BY <1>4 DEF Agents, SendOne
  <2>8. j = Idle \/ (/\ j.pc = "send" /\ j.now \notin j.todo /\ j.task = 0
                     /\ \A u \in j.todo \cup {j.now} : u.calc \in saved)
    BY <2>5, <2>6 DEF todo
  <2> QED BY <2>4, <2>7, <2>8, JobStep
<1>5. ASSUME NEW w \in Workers, TakeTask(w) PROVE MailInv'
  BY <1>5, TakeStep
<1>6. ASSUME NEW a \in Agents, Send(a) PROVE MailInv'
  BY <1>6, SendStep
<1>7. ASSUME NEW a \in Agents, SendFails(a) \/ LogFails(a) \/ Crash(a) PROVE MailInv'
  BY <1>7, JobStep DEF SendFails, LogFails, Crash
<1>8. ASSUME NEW a \in Agents, LogSent(a) PROVE MailInv'
  <2>1. /\ job[a] # Idle /\ job[a].todo \in SUBSET Tenant /\ job[a].cfg \in Settings
        /\ job[a].task \in Nat
    BY <1>8, BusyJob DEF TypeOK, LogSent
  <2>2. PICK j \in Rest(job[a].task, job[a].todo, job[a].cfg) : job' = [job EXCEPT ![a] = j]
    BY <1>8 DEF LogSent
  <2>3. \/ j = Idle
        \/ /\ j.pc = "send" /\ j.now \in job[a].todo /\ j.todo = job[a].todo \ {j.now}
           /\ j.task = job[a].task
    BY <2>1, <2>2, RestCases
  <2>4. UNCHANGED <<calcs, saved, tasks, queue, mails>>
    BY <1>8 DEF LogSent
  <2>5. \A t \in job[a].todo : t.calc \in saved
    BY <2>1 DEF MailInv, AboutSaved
  <2> QED BY <2>1, <2>3, <2>2, <2>4, <2>5, JobStep
<1>9. ASSUME UNCHANGED vars PROVE MailInv'
  BY <1>9 DEF vars, MailInv, JobsLogTheirMail, TasksTaken, AboutSaved, BatchesApart,
      NothingSentTwice, TaskMailsOnce, MailedBy, StillToSend
<1> QED BY <1>1, <1>2, <1>3, <1>4, <1>5, <1>6, <1>7, <1>8, <1>9 DEF Next, Work, vars

\* Before the first settlement nothing was queued or sent.
LEMMA MailInit == Init => MailInv
<1> SUFFICES ASSUME Init PROVE MailInv
  OBVIOUS
<1>1. \A a \in Agents : job[a] = Idle
  BY DEF Init
<1>2. DOMAIN mails = {} /\ queue = {} /\ calcs = {}
  BY DEF Init
<1>3. JobsLogTheirMail
  BY <1>1 DEF JobsLogTheirMail, Idle
<1> QED BY <1>1, <1>2, <1>3 DEF MailInv, AboutSaved, TasksTaken, BatchesApart, NothingSentTwice,
         TaskMailsOnce, StillToSend

\* The inductive invariant of queue, batches and e-mails holds for any number of workers.
THEOREM MailInvHolds == Spec => []MailInv
<1>1. Init => TypeOK /\ MailInv
  BY TypeInit, MailInit
<1>2. TypeOK /\ MailInv /\ [Next]_vars => TypeOK' /\ MailInv'
  BY TypeStep, MailStep
<1> QED BY <1>1, <1>2, PTL DEF Spec

\* However workers interleave and die, a task mails a tenant at most once.
THEOREM NoTenantMailedTwice == Spec => []TaskMailsOnce
<1>1. MailInv => TaskMailsOnce
  BY DEF MailInv
<1> QED BY <1>1, MailInvHolds, PTL

-----------------------------------------------------------------------------
(* MailsAccounted: only Crash leaves an e-mail without its row. *)

\* A set with at most one element more than another has at most one more.
LEMMA OneMore ==
    ASSUME NEW S, IsFiniteSet(S), NEW x, NEW T \in SUBSET (S \cup {x})
    PROVE  Cardinality(T) <= Cardinality(S) + 1
<1>1. /\ IsFiniteSet(S \cup {x}) /\ Cardinality(S) \in Nat
      /\ Cardinality(S \cup {x}) \in {Cardinality(S), Cardinality(S) + 1}
  BY FS_AddElement, FS_CardinalityType
<1>2. IsFiniteSet(T) /\ Cardinality(T) <= Cardinality(S \cup {x})
  BY <1>1, FS_Subset
<1>3. Cardinality(T) \in Nat
  BY <1>2, FS_CardinalityType
<1> QED BY <1>1, <1>2, <1>3

\* The e-mails sent so far, and so the unlogged ones, are finitely many.
LEMMA MailsFinite ==
    ASSUME NEW s \in Seq(Mail), NEW T \in SUBSET DOMAIN s
    PROVE  IsFiniteSet(T)
<1>1. DOMAIN s = 1..Len(s) /\ Len(s) \in Nat
  OBVIOUS
<1>2. IsFiniteSet(1..Len(s))
  BY <1>1, FS_Interval
<1> QED BY <1>1, <1>2, FS_Subset

\* An e-mail is newly without its row only when the job about to log it died.
LEMMA NothingLost ==
    ASSUME TypeOK, MailInv, [Next]_vars, NEW i \in Unlogged', i \notin Unlogged
    PROVE  \E a \in Agents : Crash(a) /\ i = job[a].mail
<1>1. ASSUME i \in DOMAIN mails, mails'[i] = mails[i], logs \subseteq logs',
             mails[i].tenant.calc \in calcs' => mails[i].tenant.calc \in calcs,
             \A a \in Agents : job[a].pc = "log" /\ job[a].mail = i => job'[a] = job[a]
      PROVE  FALSE
  BY <1>1 DEF Unlogged, Logged, BeingLogged
<1>2. \A c \in Clients : ~RunSettlement(c) /\ ~EmailSettlement(c)
  BY <1>1 DEF RunSettlement, EmailSettlement, Unlogged, MailInv, AboutSaved
<1>3. \A c \in Clients : ~DeleteSettlement(c)
  BY <1>1 DEF DeleteSettlement, Unlogged
<1>4. \A c \in Clients : ~SaveMailSettings(c)
  BY <1>1 DEF SaveMailSettings, Unlogged
<1>5. ASSUME NEW a \in Agents, NEW j, job' = [job EXCEPT ![a] = j], job[a].pc # "log",
             UNCHANGED <<calcs, mails>>, logs \subseteq logs'
      PROVE  FALSE
  <2>1. \A b \in Agents : b # a => job'[b] = job[b]
    BY <1>5 DEF TypeOK
  <2> QED BY <1>1, <1>5, <2>1 DEF Unlogged
<1>6. ASSUME NEW c \in Clients, SendOne(c) PROVE FALSE
  <2>1. \E j : job' = [job EXCEPT ![c] = j]
    BY <1>6 DEF SendOne
  <2>2. job[c].pc # "log" /\ c \in Agents /\ UNCHANGED <<calcs, mails, logs>>
    BY <1>6 DEF SendOne, Idle, Agents
  <2> QED BY <1>5, <2>1, <2>2
<1>7. ASSUME NEW w \in Workers, TakeTask(w) PROVE FALSE
  <2>1. \E j : job' = [job EXCEPT ![w] = j]
    BY <1>7 DEF TakeTask
  <2>2. job[w].pc # "log" /\ w \in Agents /\ UNCHANGED <<calcs, mails, logs>>
    BY <1>7 DEF TakeTask, Idle, Agents
  <2> QED BY <1>5, <2>1, <2>2
<1>8. ASSUME NEW a \in Agents, Send(a) PROVE FALSE
  <2>1. /\ DOMAIN mails = 1..Len(mails) /\ DOMAIN mails' = 1..(Len(mails) + 1)
        /\ \A n \in DOMAIN mails : mails'[n] = mails[n]
    BY <1>8 DEF Send, TypeOK
  <2>2. job'[a].pc = "log" /\ job'[a].mail = Len(mails) + 1
    BY <1>8 DEF Send, TypeOK
  <2>3. i # Len(mails) + 1
    BY <2>2 DEF Unlogged, BeingLogged
  <2>4. i \in DOMAIN mails
    BY <2>1, <2>3 DEF Unlogged, TypeOK
  <2>5. \A b \in Agents : job[b].pc = "log" => job'[b] = job[b]
    BY <1>8 DEF Send, TypeOK
  <2> QED BY <1>1, <1>8, <2>1, <2>4, <2>5 DEF Send
<1>9. \A a \in Agents : ~SendFails(a)
  BY <1>5 DEF SendFails, FailedLog
<1>10. ASSUME NEW a \in Agents, job[a].pc = "log", job[a].mail # i,
              \E j : job' = [job EXCEPT ![a] = j],
              UNCHANGED <<calcs, mails>>, logs \subseteq logs'
       PROVE  FALSE
  <2>1. \A b \in Agents : b # a => job'[b] = job[b]
    BY <1>10 DEF TypeOK
  <2> QED BY <1>1, <1>10, <2>1 DEF Unlogged
<1>11. ASSUME NEW a \in Agents, LogSent(a) PROVE FALSE
  <2>1. logs' = SentLog(a) /\ UNCHANGED <<calcs, mails>> /\ job[a].pc = "log"
    BY <1>11 DEF LogSent
  <2>2. \E j : job' = [job EXCEPT ![a] = j]
    BY <1>11 DEF LogSent
  <2>3. job[a].mail # i
    <3> DEFINE l == [mail |-> job[a].mail, tenant |-> job[a].now, status |-> "sent"]
    <3>1. l \in logs' /\ l.mail = job[a].mail /\ l.status = "sent"
      BY <2>1 DEF SentLog
    <3>2. ~\E x \in logs' : x.mail = i /\ x.status = "sent"
      BY DEF Unlogged, Logged
    <3> QED BY <3>1, <3>2
  <2> QED BY <1>10, <2>1, <2>2, <2>3 DEF SentLog
<1>12. ASSUME NEW a \in Agents, LogFails(a) PROVE FALSE
  <2>1. job[a].mail # i
    BY <1>12 DEF LogFails, Unlogged, MailInv, JobsLogTheirMail
  <2> QED BY <1>10, <1>12, <2>1 DEF LogFails
<1>13. ~UNCHANGED vars
  BY <1>1 DEF vars, Unlogged
<1>14. PICK a \in Agents : Crash(a)
  BY <1>2, <1>3, <1>4, <1>6, <1>7, <1>8, <1>9, <1>11, <1>12, <1>13 DEF Next, Work, vars
<1>15. i = job[a].mail
  BY <1>5, <1>10, <1>14 DEF Crash
<1> QED BY <1>14, <1>15

\* One killed process costs the audit trail at most one row.
LEMMA AccountedStep ==
    ASSUME TypeOK, MailInv, MailsAccounted, [Next]_vars
    PROVE  MailsAccounted'
<1>1. TypeOK'
  BY TypeStep
<1>2. /\ IsFiniteSet(Unlogged) /\ IsFiniteSet(Unlogged')
      /\ Cardinality(Unlogged) \in Nat /\ Cardinality(Unlogged') \in Nat
  <2>1. IsFiniteSet(Unlogged)
    BY MailsFinite DEF Unlogged, TypeOK
  <2>2. IsFiniteSet(Unlogged')
    <3>1. mails' \in Seq(Mail) /\ Unlogged' \subseteq DOMAIN mails'
      BY <1>1 DEF Unlogged, TypeOK
    <3> QED BY <3>1, MailsFinite
  <2> QED BY <2>1, <2>2, FS_CardinalityType
<1>3. crashes \in Nat /\ Cardinality(Unlogged) <= crashes
  BY DEF TypeOK, MailsAccounted
<1>4. CASE \E a \in Agents : Crash(a)
  <2>1. PICK a \in Agents : Crash(a)
    BY <1>4
  <2>2. /\ job' = [job EXCEPT ![a] = Idle] /\ crashes' = crashes + 1
        /\ UNCHANGED <<calcs, mails, logs>>
    BY <2>1 DEF Crash
  <2>3. \A b \in Agents : b # a => job'[b] = job[b]
    BY <2>2 DEF TypeOK
  <2>4. Unlogged' \subseteq Unlogged \cup {job[a].mail}
    BY <2>2, <2>3 DEF Unlogged, Logged, BeingLogged
  <2>5. Cardinality(Unlogged') <= Cardinality(Unlogged) + 1
    BY <1>2, <2>4, OneMore
  <2> QED BY <1>2, <1>3, <2>2, <2>5 DEF MailsAccounted
<1>5. CASE \A a \in Agents : ~Crash(a)
  <2>1. Unlogged' \subseteq Unlogged
    BY <1>5, NothingLost
  <2>2. Cardinality(Unlogged') <= Cardinality(Unlogged)
    BY <1>2, <2>1, FS_Subset
  <2>3. crashes' = crashes
    BY <1>5 DEF Next, Work, vars, RunSettlement, EmailSettlement, DeleteSettlement, SaveMailSettings, SendOne,
       TakeTask, Send, SendFails, LogSent, LogFails
  <2> QED BY <1>2, <1>3, <2>2, <2>3 DEF MailsAccounted
<1> QED BY <1>4, <1>5

\* Without a killed process the audit trail is complete, with n of them at most n
\* e-mails of settlements that still exist are missing from it.
THEOREM AuditTrail == Spec => []MailsAccounted
<1>1. Init => MailsAccounted
  <2> SUFFICES ASSUME Init PROVE MailsAccounted
    OBVIOUS
  <2>1. Unlogged = {}
    BY DEF Init, Unlogged
  <2> QED BY <2>1, FS_EmptySet DEF Init, MailsAccounted
<1>2. TypeOK /\ MailInv /\ MailsAccounted /\ [Next]_vars => MailsAccounted'
  BY AccountedStep
<1> QED BY <1>1, <1>2, TypeCorrect, MailInvHolds, PTL DEF Spec

-----------------------------------------------------------------------------
(* StoppedBatchShows: what a batch has not sent, its worker still has to. *)

\* The tenants a job has not logged as sent.
Left(a) == IF job[a] = Idle THEN {} ELSE job[a].todo \cup {job[a].now}

SentIn(rows, t) == \E l \in rows : l.tenant = t /\ l.status = "sent"
FailedIn(rows, k) == \E l \in rows : l.tenant.calc = k /\ l.status = "failed"

\* Task n is waiting, or shows a failure, or a worker has left whom it has not sent to.
Progress(n) ==
    \/ n \in queue
    \/ FailedIn(logs, tasks[n])
    \/ \A t \in TenantsOf(tasks[n]) :
         SentIn(logs, t) \/ \E a \in Agents : job[a] # Idle /\ job[a].task = n /\ t \in Left(a)

\* A batch is about the settlement of its task, and unless a process was killed it
\* makes progress on one that still exists.
BatchInv ==
    /\ \A n \in DOMAIN tasks : tasks[n] \in saved
    /\ \A a \in Agents : job[a] # Idle /\ job[a].task # 0 =>
         /\ job[a].task \in DOMAIN tasks
         /\ \A t \in Left(a) : t.calc = tasks[job[a].task]
    /\ crashes = 0 => \A n \in DOMAIN tasks : tasks[n] \in calcs => Progress(n)

LEMMA TaskList ==
    ASSUME TypeOK
    PROVE  Len(tasks) \in Nat /\ DOMAIN tasks = 1..Len(tasks)
BY DEF TypeOK

\* A step that queues nothing and at most ends jobs whose settlement is gone, or takes
\* a tenant from a job who is logged as sent.
LEMMA BatchKeeps ==
    ASSUME TypeOK, BatchInv, UNCHANGED tasks, saved \subseteq saved', calcs' \subseteq calcs,
           queue \subseteq queue', logs \subseteq logs', crashes' \in Nat, crashes <= crashes',
           \A a \in Agents : job[a] # Idle =>
             \/ job'[a] # Idle /\ job'[a].task = job[a].task /\ Left(a)' = Left(a)
             \/ job[a].task = 0
             \/ tasks[job[a].task] \notin calcs'
             \/ FailedIn(logs', tasks[job[a].task]),
           \A a \in Agents : job'[a] # Idle /\ job'[a].task # 0 =>
             job[a] # Idle /\ job'[a].task = job[a].task /\ Left(a)' \subseteq Left(a)
    PROVE  BatchInv'
<1>1. \A n \in DOMAIN tasks' : tasks'[n] \in saved'
  BY DEF BatchInv
<1>2. \A a \in Agents : job'[a] # Idle /\ job'[a].task # 0 =>
        /\ job'[a].task \in DOMAIN tasks'
        /\ \A t \in Left(a)' : t.calc = tasks'[job'[a].task]
  BY DEF BatchInv
<1>3. ASSUME crashes' = 0, NEW n \in DOMAIN tasks', tasks'[n] \in calcs' PROVE Progress(n)'
  <2>1. crashes = 0 /\ n \in DOMAIN tasks /\ tasks[n] \in calcs
    BY <1>3 DEF TypeOK
  <2>2. Progress(n)
    BY <2>1 DEF BatchInv
  <2>3. n # 0
    BY <2>1, TaskList
  <2>4. CASE n \in queue \/ FailedIn(logs, tasks[n])
    BY <2>4 DEF Progress, FailedIn
  <2>5. CASE ~FailedIn(logs', tasks[n]) /\
             \A t \in TenantsOf(tasks[n]) :
               SentIn(logs, t) \/ \E a \in Agents : job[a] # Idle /\ job[a].task = n /\ t \in Left(a)
    <3>1. \A t \in TenantsOf(tasks[n]) : SentIn(logs, t) => SentIn(logs', t)
      BY DEF SentIn
    <3>2. \A a \in Agents : job[a] # Idle /\ job[a].task = n =>
            job'[a] # Idle /\ job'[a].task = n /\ Left(a)' = Left(a)
      BY <1>3, <2>3, <2>5
    <3> QED
      BY <2>5, <3>1, <3>2 DEF Progress, TenantsOf
  <2> QED
    BY <2>2, <2>4, <2>5 DEF Progress, FailedIn
<1> QED
  BY <1>1, <1>2, <1>3 DEF BatchInv

\* The task queued last waits; the others are where they were.
LEMMA BatchQueues ==
    ASSUME TypeOK, BatchInv, calcs \subseteq saved, NEW k \in Calcs, Queue(k), k \in saved',
           saved \subseteq saved',
           calcs' \subseteq calcs \cup {k}, k \in calcs \/ k \notin saved,
           UNCHANGED <<job, logs, crashes>>
    PROVE  BatchInv'
<1>1. /\ Len(tasks) \in Nat /\ DOMAIN tasks = 1..Len(tasks)
      /\ DOMAIN tasks' = 1..(Len(tasks) + 1)
      /\ \A n \in DOMAIN tasks : tasks'[n] = tasks[n]
      /\ tasks'[Len(tasks) + 1] = k
      /\ queue' = queue \cup {Len(tasks) + 1}
  BY DEF TypeOK, Queue
<1>2. \A n \in DOMAIN tasks' : n \in DOMAIN tasks \/ n = Len(tasks) + 1
  BY <1>1
<1>3. \A n \in DOMAIN tasks : n \in DOMAIN tasks' /\ (tasks[n] \in calcs' => tasks[n] \in calcs)
  BY <1>1 DEF BatchInv
<1>4. \A a \in Agents : Left(a)' = Left(a)
  BY DEF Left
<1>5. \A n \in DOMAIN tasks' : tasks'[n] \in saved'
  BY <1>1, <1>2 DEF BatchInv
<1>6. \A a \in Agents : job'[a] # Idle /\ job'[a].task # 0 =>
        /\ job'[a].task \in DOMAIN tasks'
        /\ \A t \in Left(a)' : t.calc = tasks'[job'[a].task]
  BY <1>1, <1>3, <1>4 DEF BatchInv
<1>7. ASSUME crashes' = 0, NEW n \in DOMAIN tasks', tasks'[n] \in calcs' PROVE Progress(n)'
  <2>1. CASE n = Len(tasks) + 1
    BY <1>1, <2>1 DEF Progress
  <2>2. CASE n \in DOMAIN tasks
    <3>1. Progress(n) /\ tasks'[n] = tasks[n]
      BY <1>1, <1>3, <1>7, <2>2 DEF BatchInv
    <3>2. n \in queue => n \in queue'
      BY <1>1
    <3>3. FailedIn(logs, tasks[n]) => FailedIn(logs', tasks'[n])
      BY <3>1 DEF FailedIn
    <3>4. ASSUME NEW t, SentIn(logs, t) \/ \E a \in Agents :
                                       job[a] # Idle /\ job[a].task = n /\ t \in Left(a)
          PROVE  SentIn(logs', t) \/ \E a \in Agents :
                                 job'[a] # Idle /\ job'[a].task = n /\ t \in Left(a)'
      BY <1>4, <3>4 DEF SentIn
    <3> QED
      BY <3>1, <3>2, <3>3, <3>4 DEF Progress, TenantsOf
  <2> QED
    BY <1>2, <2>1, <2>2
<1> QED
  BY <1>5, <1>6, <1>7 DEF BatchInv

\* The worker that takes a task has all its tenants left.
LEMMA BatchTaken ==
    ASSUME TypeOK, MailInv, BatchInv, NEW w \in Workers, TakeTask(w)
    PROVE  BatchInv'
<1>1. PICK n \in queue :
        /\ queue' = queue \ {n}
        /\ \E j \in Rest(n, IF tasks[n] \in calcs THEN TenantsOf(tasks[n]) ELSE {}, settings) :
             job' = [job EXCEPT ![w] = j]
  BY DEF TakeTask, Taken
<1> DEFINE todo == IF tasks[n] \in calcs THEN TenantsOf(tasks[n]) ELSE {}
<1>2. n \in DOMAIN tasks /\ n \in Nat /\ settings \in Settings
  BY DEF TypeOK, MailInv, TasksTaken
<1>3. todo \in SUBSET Tenant /\ \A t \in todo : t.calc = tasks[n]
  BY <1>2, TenantsTyped DEF TypeOK
<1>4. PICK j \in Rest(n, todo, settings) : job' = [job EXCEPT ![w] = j]
  BY <1>1
<1>5. tasks[n] \in calcs => todo = TenantsOf(tasks[n])
  OBVIOUS
<1> HIDE DEF todo
<1>6. \/ todo = {} /\ j = Idle
      \/ j # Idle /\ j.now \in todo /\ j.todo = todo \ {j.now} /\ j.task = n
  BY <1>2, <1>3, <1>4, RestCases
<1>7. /\ \A b \in Agents : job'[b] = IF b = w THEN j ELSE job[b]
      /\ w \in Agents /\ job[w] = Idle
  BY <1>4 DEF TypeOK, TakeTask, Agents
<1>8. UNCHANGED <<calcs, saved, tasks, logs, crashes>>
  BY DEF TakeTask
<1>9. Left(w)' = todo /\ \A b \in Agents : b # w => Left(b)' = Left(b)
  BY <1>6, <1>7 DEF Left
<1>10. \A a \in Agents : job'[a] # Idle /\ job'[a].task # 0 =>
         /\ job'[a].task \in DOMAIN tasks'
         /\ \A t \in Left(a)' : t.calc = tasks'[job'[a].task]
  <2> SUFFICES ASSUME NEW a \in Agents, job'[a] # Idle, job'[a].task # 0
               PROVE  /\ job'[a].task \in DOMAIN tasks'
                      /\ \A t \in Left(a)' : t.calc = tasks'[job'[a].task]
    OBVIOUS
  <2>1. CASE a = w
    BY <1>2, <1>3, <1>6, <1>7, <1>8, <1>9, <2>1
  <2>2. CASE a # w
    BY <1>7, <1>8, <1>9, <2>2 DEF BatchInv
  <2> QED
    BY <2>1, <2>2
<1>11. ASSUME crashes' = 0, NEW m \in DOMAIN tasks', tasks'[m] \in calcs' PROVE Progress(m)'
  <2>1. CASE m = n
    <3>1. \A t \in TenantsOf(tasks[n]) : job'[w] # Idle /\ job'[w].task = n /\ t \in Left(w)'
      BY <1>5, <1>6, <1>7, <1>8, <1>9, <1>11, <2>1
    <3> QED
      BY <1>7, <1>8, <2>1, <3>1 DEF Progress, TenantsOf
  <2>2. CASE m # n
    <3>1. Progress(m)
      BY <1>8, <1>11 DEF BatchInv
    <3>2. m \in queue => m \in queue'
      BY <1>1, <2>2
    <3>3. ASSUME NEW t, \E a \in Agents : job[a] # Idle /\ job[a].task = m /\ t \in Left(a)
          PROVE  \E a \in Agents : job'[a] # Idle /\ job'[a].task = m /\ t \in Left(a)'
      <4>1. PICK a \in Agents : job[a] # Idle /\ job[a].task = m /\ t \in Left(a)
        BY <3>3
      <4>2. a # w
        BY <1>7, <4>1
      <4> QED
        BY <1>7, <1>9, <4>1, <4>2
    <3> QED
      BY <1>8, <3>1, <3>2, <3>3 DEF Progress, TenantsOf, FailedIn, SentIn
  <2> QED
    BY <2>1, <2>2
<1> QED
  BY <1>8, <1>10, <1>11 DEF BatchInv

\* A tenant who is logged as sent leaves the job, the others stay.
LEMMA BatchLogs ==
    ASSUME TypeOK, MailInv, BatchInv, NEW a \in Agents, LogSent(a)
    PROVE  BatchInv'
<1>1. /\ job[a] # Idle /\ job[a].todo \in SUBSET Tenant /\ job[a].cfg \in Settings
      /\ job[a].task \in Nat
  BY BusyJob DEF TypeOK, LogSent
<1>2. PICK j \in Rest(job[a].task, job[a].todo, job[a].cfg) : job' = [job EXCEPT ![a] = j]
  BY DEF LogSent
<1>3. \/ job[a].todo = {} /\ j = Idle
      \/ /\ j # Idle /\ j.now \in job[a].todo /\ j.todo = job[a].todo \ {j.now}
         /\ j.task = job[a].task
  BY <1>1, <1>2, RestCases
<1>4. \A b \in Agents : job'[b] = IF b = a THEN j ELSE job[b]
  BY <1>2 DEF TypeOK
<1>5. UNCHANGED <<calcs, saved, tasks, queue, crashes>> /\ logs' = SentLog(a)
  BY DEF LogSent
<1>6. Left(a)' = job[a].todo /\ \A b \in Agents : b # a => Left(b)' = Left(b)
  BY <1>3, <1>4 DEF Left
<1>7. SentIn(logs', job[a].now) /\ \A t : SentIn(logs, t) => SentIn(logs', t)
  <2> DEFINE l == [mail |-> job[a].mail, tenant |-> job[a].now, status |-> "sent"]
  <2>1. logs' = logs \cup {l} /\ l.tenant = job[a].now /\ l.status = "sent"
    BY <1>5 DEF SentLog
  <2> HIDE DEF l
  <2> QED
    BY <2>1 DEF SentIn
<1>8. \A b \in Agents : job'[b] # Idle /\ job'[b].task # 0 =>
        /\ job'[b].task \in DOMAIN tasks'
        /\ \A t \in Left(b)' : t.calc = tasks'[job'[b].task]
  <2> SUFFICES ASSUME NEW b \in Agents, job'[b] # Idle, job'[b].task # 0
               PROVE  /\ job'[b].task \in DOMAIN tasks'
                      /\ \A t \in Left(b)' : t.calc = tasks'[job'[b].task]
    OBVIOUS
  <2>1. CASE b = a
    <3>1. Left(a)' \subseteq Left(a) /\ job'[a].task = job[a].task
      BY <1>1, <1>3, <1>4, <1>6, <2>1 DEF Left
    <3> QED
      BY <1>1, <1>5, <2>1, <3>1 DEF BatchInv
  <2>2. CASE b # a
    BY <1>4, <1>5, <1>6, <2>2 DEF BatchInv
  <2> QED
    BY <2>1, <2>2
<1>9. ASSUME crashes' = 0, NEW n \in DOMAIN tasks', tasks'[n] \in calcs' PROVE Progress(n)'
  <2>1. Progress(n)
    BY <1>5, <1>9 DEF BatchInv
  <2>2. FailedIn(logs, tasks[n]) => FailedIn(logs', tasks'[n])
    BY <1>5 DEF FailedIn, SentLog
  <2>3. ASSUME NEW t, \E b \in Agents : job[b] # Idle /\ job[b].task = n /\ t \in Left(b)
        PROVE  SentIn(logs', t) \/ \E b \in Agents : job'[b] # Idle /\ job'[b].task = n /\ t \in Left(b)'
    <3>1. PICK b \in Agents : job[b] # Idle /\ job[b].task = n /\ t \in Left(b)
      BY <2>3
    <3>2. CASE b # a
      BY <1>4, <1>6, <3>1, <3>2
    <3>3. CASE b = a /\ t = job[a].now
      BY <1>7, <3>3
    <3>4. CASE b = a /\ t \in job[a].todo
      BY <1>3, <1>4, <1>6, <3>1, <3>4
    <3> QED
      BY <3>1, <3>2, <3>3, <3>4 DEF Left
  <2> QED
    BY <1>5, <1>7, <2>1, <2>2, <2>3 DEF Progress, TenantsOf
<1> QED
  BY <1>5, <1>8, <1>9 DEF BatchInv

LEMMA BatchStep == TypeOK /\ MailInv /\ BatchInv /\ [Next]_vars => BatchInv'
<1> SUFFICES ASSUME TypeOK, MailInv, BatchInv, [Next]_vars PROVE BatchInv'
  OBVIOUS
<1>0. calcs \subseteq saved /\ crashes \in Nat /\ calcs \subseteq Calcs
  BY DEF MailInv, AboutSaved, TypeOK
<1>l. job' = job => \A a \in Agents : Left(a)' = Left(a)
  BY DEF Left
<1>1. ASSUME NEW c \in Clients, RunSettlement(c) PROVE BatchInv'
  <2>1. PICK k \in Calcs \ saved : /\ calcs' = calcs \cup {k} /\ saved' = saved \cup {k}
                                  /\ (Queue(k) \/ UNCHANGED <<tasks, queue>>)
    BY <1>1 DEF RunSettlement
  <2>2. UNCHANGED <<job, logs, crashes>>
    BY <1>1 DEF RunSettlement
  <2>3. CASE Queue(k)
    BY <1>0, <2>1, <2>2, <2>3, BatchQueues
  \* Nothing was queued for it yet, so nothing has to have progressed.
  <2>4. CASE UNCHANGED <<tasks, queue>>
    <3>1. \A n \in DOMAIN tasks : tasks[n] \in calcs' => tasks[n] \in calcs
      BY <2>1 DEF BatchInv
    <3>2. \A n : Progress(n)' = Progress(n)
      BY <1>l, <2>2, <2>4 DEF Progress, FailedIn, SentIn, TenantsOf
    <3> QED
      BY <1>l, <2>1, <2>2, <2>4, <3>1, <3>2 DEF BatchInv
  <2> QED
    BY <2>1, <2>3, <2>4
<1>2. ASSUME NEW c \in Clients, EmailSettlement(c) PROVE BatchInv'
  <2>1. PICK k \in calcs : Queue(k)
    BY <1>2 DEF EmailSettlement
  <2>2. UNCHANGED <<calcs, saved, job, logs, crashes>>
    BY <1>2 DEF EmailSettlement
  <2>3. k \in Calcs /\ k \in saved'
    BY <1>0, <2>2
  <2> QED
    BY <1>0, <2>1, <2>2, <2>3, BatchQueues
<1>3. ASSUME NEW c \in Clients, DeleteSettlement(c) \/ SaveMailSettings(c) PROVE BatchInv'
  <2>1. calcs' \subseteq calcs /\ UNCHANGED <<saved, tasks, queue, job, logs, crashes>>
    BY <1>3 DEF DeleteSettlement, SaveMailSettings
  <2> QED
    BY <1>0, <1>l, <2>1, BatchKeeps
<1>4. ASSUME NEW c \in Clients, SendOne(c) PROVE BatchInv'
  <2>1. PICK k \in calcs : \E t \in TenantsOf(k) : \E j \in Rest(0, {t}, settings) :
          job' = [job EXCEPT ![c] = j]
    BY <1>4 DEF SendOne
  <2>2. PICK t \in TenantsOf(k) : \E j \in Rest(0, {t}, settings) : job' = [job EXCEPT ![c] = j]
    BY <2>1
  <2>3. PICK j \in Rest(0, {t}, settings) : job' = [job EXCEPT ![c] = j]
    BY <2>2
  <2> DEFINE todo == {t}
  <2>4. 0 \in Nat /\ todo \in SUBSET Tenant /\ settings \in Settings /\ j \in Rest(0, todo, settings)
    BY <1>0, <2>3, TenantsTyped DEF TypeOK
  <2> HIDE DEF todo
  <2>5. j = Idle \/ j.task = 0
    BY <2>4, RestCases
  <2>6. job[c] = Idle /\ \A a \in Agents : job'[a] = IF a = c THEN j ELSE job[a]
    BY <1>4, <2>3 DEF SendOne, TypeOK
  <2>7. \A a \in Agents : a # c => Left(a)' = Left(a)
    BY <2>6 DEF Left
  <2>8. UNCHANGED <<calcs, saved, tasks, queue, logs, crashes>>
    BY <1>4 DEF SendOne
  <2>9. /\ \A a \in Agents : job[a] # Idle =>
             job'[a] # Idle /\ job'[a].task = job[a].task /\ Left(a)' = Left(a)
        /\ \A a \in Agents : job'[a] # Idle /\ job'[a].task # 0 =>
             job[a] # Idle /\ job'[a].task = job[a].task /\ Left(a)' \subseteq Left(a)
    BY <2>5, <2>6, <2>7
  <2> QED
    BY <1>0, <2>8, <2>9, BatchKeeps
<1>5. ASSUME NEW w \in Workers, TakeTask(w) PROVE BatchInv'
  BY <1>5, BatchTaken
<1>6. ASSUME NEW a \in Agents, Send(a) PROVE BatchInv'
  <2>1. job[a] # Idle /\ \A b \in Agents : b # a => job'[b] = job[b]
    BY <1>6 DEF Send, TypeOK, Idle
  <2>2. /\ job'[a].pc = "log" /\ job'[a].task = job[a].task /\ job'[a].todo = job[a].todo
        /\ job'[a].now = job[a].now
    BY <1>6 DEF Send, TypeOK
  <2>3. job'[a] # Idle
    BY <2>2 DEF Idle
  <2>4. \A b \in Agents : Left(b)' = Left(b)
    BY <2>1, <2>2, <2>3 DEF Left
  <2>5. UNCHANGED <<calcs, saved, tasks, queue, logs, crashes>>
    BY <1>6 DEF Send
  <2>6. /\ \A b \in Agents : job[b] # Idle =>
             job'[b] # Idle /\ job'[b].task = job[b].task /\ Left(b)' = Left(b)
        /\ \A b \in Agents : job'[b] # Idle /\ job'[b].task # 0 =>
             job[b] # Idle /\ job'[b].task = job[b].task /\ Left(b)' \subseteq Left(b)
    BY <2>1, <2>2, <2>3, <2>4
  <2> QED
    BY <1>0, <2>5, <2>6, BatchKeeps
\* A job that ends leaves a failure behind, or its settlement is gone, or it was killed.
<1>7. ASSUME NEW a \in Agents, SendFails(a) \/ LogFails(a) PROVE BatchInv'
  <2>1. job' = [job EXCEPT ![a] = Idle] /\ UNCHANGED <<calcs, saved, tasks, queue, crashes>>
    BY <1>7 DEF SendFails, LogFails
  <2>2. \A b \in Agents : job'[b] = IF b = a THEN Idle ELSE job[b]
    BY <2>1 DEF TypeOK
  <2>3. \A b \in Agents : b # a => Left(b)' = Left(b)
    BY <2>2 DEF Left
  <2>4. logs \subseteq logs'
    BY <1>7 DEF SendFails, LogFails, FailedLog
  <2>5. job[a] # Idle /\ job[a].task # 0 => job[a].now.calc = tasks[job[a].task]
    BY DEF BatchInv, Left
  <2>6. job[a].now.calc \notin calcs' \/ FailedIn(logs', job[a].now.calc)
    <3>1. CASE LogFails(a)
      BY <3>1 DEF LogFails
    <3>2. CASE SendFails(a) /\ job[a].now.calc \in calcs
      <4> DEFINE l == [mail |-> 0, tenant |-> job[a].now, status |-> "failed"]
      <4>1. l \in logs' /\ l.tenant.calc = job[a].now.calc /\ l.status = "failed"
        BY <3>2 DEF SendFails, FailedLog
      <4> HIDE DEF l
      <4> QED
        BY <4>1 DEF FailedIn
    <3>3. CASE job[a].now.calc \notin calcs
      BY <2>1, <3>3
    <3> QED
      BY <1>7, <3>1, <3>2, <3>3
  <2>7. \A b \in Agents : job[b] # Idle =>
          \/ job'[b] # Idle /\ job'[b].task = job[b].task /\ Left(b)' = Left(b)
          \/ job[b].task = 0
          \/ tasks[job[b].task] \notin calcs'
          \/ FailedIn(logs', tasks[job[b].task])
    BY <2>1, <2>2, <2>3, <2>5, <2>6 DEF FailedIn
  <2>8. \A b \in Agents : job'[b] # Idle /\ job'[b].task # 0 =>
          job[b] # Idle /\ job'[b].task = job[b].task /\ Left(b)' \subseteq Left(b)
    BY <2>2, <2>3
  <2> QED
    BY <1>0, <2>1, <2>4, <2>7, <2>8, BatchKeeps
<1>8. ASSUME NEW a \in Agents, LogSent(a) PROVE BatchInv'
  BY <1>8, BatchLogs
<1>9. ASSUME NEW a \in Agents, Crash(a) PROVE BatchInv'
  <2>1. /\ job' = [job EXCEPT ![a] = Idle] /\ UNCHANGED <<calcs, saved, tasks, queue, logs>>
        /\ crashes' # 0
    BY <1>0, <1>9 DEF Crash
  <2>2. \A b \in Agents : job'[b] = IF b = a THEN Idle ELSE job[b]
    BY <2>1 DEF TypeOK
  <2>3. \A b \in Agents : b # a => Left(b)' = Left(b)
    BY <2>2 DEF Left
  <2> QED
    BY <2>1, <2>2, <2>3 DEF BatchInv
<1>10. ASSUME UNCHANGED vars PROVE BatchInv'
  BY <1>0, <1>l, <1>10, BatchKeeps DEF vars
<1> QED
  BY <1>1, <1>2, <1>3, <1>4, <1>5, <1>6, <1>7, <1>8, <1>9, <1>10 DEF Next, Work, vars

\* While no process was killed, a task of a settlement that still exists waits, or the log
\* shows a failure, or each tenant is logged as sent or left to the job of the task's worker.
THEOREM BatchesProgress == Spec => []BatchInv
<1>1. Init => BatchInv
  <2> SUFFICES ASSUME Init PROVE BatchInv
    OBVIOUS
  <2>1. DOMAIN tasks = {} /\ \A a \in Agents : job[a] = Idle
    BY DEF Init
  <2> QED
    BY <2>1 DEF BatchInv
<1>2. TypeOK /\ MailInv /\ BatchInv /\ [Next]_vars => BatchInv'
  BY BatchStep
<1> QED BY <1>1, <1>2, TypeCorrect, MailInvHolds, PTL DEF Spec

\* Once the tasks of a settlement have ended and no process was killed, every tenant is
\* logged as sent or a failure is: the page of the settlement shows which.
THEOREM StoppedBatchesShow == Spec => []StoppedBatchShows
<1>1. TypeOK /\ BatchInv => StoppedBatchShows
  <2> SUFFICES ASSUME TypeOK, BatchInv, NEW n \in DOMAIN tasks, tasks[n] \in calcs, crashes = 0,
                      Over(n), ~FailedIn(logs, tasks[n]), NEW t \in TenantsOf(tasks[n])
               PROVE  SentIn(logs, t)
    BY DEF StoppedBatchShows, FailedIn, SentIn
  <2>1. Progress(n)
    BY DEF BatchInv
  <2> QED
    BY <2>1 DEF Progress, Over
<1> QED BY <1>1, TypeCorrect, BatchesProgress, PTL
=============================================================================
