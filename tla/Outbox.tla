-------------------------------- MODULE Outbox --------------------------------
(***************************************************************************)
(* One outbound e-mail: the request that composes it (compose_and_queue_   *)
(* email() in modules/emails/service.py), the Celery message that carries  *)
(* its id, every delivery of that message to a worker (send_email() in     *)
(* tasks/emails.py) and the provider's webhook.                            *)
(*                                                                         *)
(* The message is enqueued before the composing transaction commits; with  *)
(* acks_late it is delivered again when its worker dies, and by the        *)
(* broker's visibility timeout while it waits for its ETA, so several      *)
(* deliveries may be under way.  Each commit of the row compares the       *)
(* row_version its worker has read.                                        *)
(***************************************************************************)
EXTENDS Naturals

CONSTANTS
  Deliveries,   \* deliveries of the message, each with the retries it carries
  MaxAttempts,  \* max_attempts of the row
  MaxRetries,   \* max_retries of the task
  MaxDeaths     \* bound: workers that die

ASSUME OutboxAssumption ==
  MaxAttempts \in Nat \ {0} /\ MaxRetries \in Nat /\ MaxDeaths \in Nat

VARIABLES
  composing,  \* the composing transaction: not begun, open or over
  email,      \* status of the row in emails ("absent": not committed)
  attempts,   \* attempts of the row
  task,       \* where each delivery stands
  retries,    \* request.retries of each delivery
  overtaken,  \* the deliveries whose copy of the row is an old version
  accepted,   \* history: times the provider has accepted the message
  unanswered, \* history: of these, whose answer never arrived
  deaths,     \* history: workers that died
  dropped     \* history: some delivery ended with an exception

outboxVars == <<composing, email, attempts, task, retries, overtaken, accepted,
                unanswered, deaths, dropped>>

InHand == {"read", "sending", "answered", "refused", "retry"}
Settled == {"sent", "failed", "suppressed", "delivered", "bounced"}

OutboxTypeOK ==
  /\ composing \in {"no", "open", "over"}
  /\ email \in {"absent", "pending", "processing"} \union Settled
  /\ attempts \in 0 .. MaxAttempts
  /\ task \in [Deliveries -> InHand \union {"none", "queued", "missing"}]
  /\ retries \in [Deliveries -> 0 .. MaxRetries]
  /\ overtaken \in SUBSET Deliveries
  /\ accepted \in 0 .. MaxAttempts /\ unanswered \in 0 .. accepted
  /\ deaths \in 0 .. MaxDeaths /\ dropped \in BOOLEAN

OutboxInit ==
  /\ composing = "no" /\ email = "absent" /\ attempts = 0
  /\ task = [d \in Deliveries |-> "none"]
  /\ retries = [d \in Deliveries |-> 0]
  /\ overtaken = {} /\ accepted = 0 /\ unanswered = 0 /\ deaths = 0 /\ dropped = FALSE

provider == <<accepted, unanswered>>
faults == <<deaths, dropped>>

\* compose_and_queue_email() has flushed the row and enqueues the message.
Compose(d) ==
  /\ composing = "no"
  /\ composing' = "open"
  /\ task' = [task EXCEPT ![d] = "queued"]
  /\ UNCHANGED <<email, attempts, retries, overtaken, provider, faults>>

ComposeCommits ==
  /\ composing = "open"
  /\ composing' = "over" /\ email' = "pending"
  /\ UNCHANGED <<attempts, task, retries, overtaken, provider, faults>>

ComposeRollsBack ==
  /\ composing = "open"
  /\ composing' = "over"
  /\ UNCHANGED <<email, attempts, task, retries, overtaken, provider, faults>>

-----------------------------------------------------------------------------
(* send_email(). *)

Sendable == {"pending", "queued"}

\* Delivery d goes on at step at; "none": it is acknowledged and gone.
GoesOn(d, at) ==
  /\ task' = [task EXCEPT ![d] = at]
  /\ retries' = IF at = "none" THEN [retries EXCEPT ![d] = 0] ELSE retries

\* What a commit of d does to the copies of the others.
Overtakes(d) == overtaken' = {e \in Deliveries \ {d} : e \in overtaken \/ task[e] \in InHand}

\* db.get(): a row not there yet, one already processed, or one to be sent.
Read(d) ==
  /\ task[d] = "queued"
  /\ \/ email = "absent" /\ GoesOn(d, "missing")
     \/ email \in Sendable /\ GoesOn(d, "read")
     \/ email \notin {"absent"} \union Sendable /\ GoesOn(d, "none")
  /\ overtaken' = overtaken \ {d}
  /\ UNCHANGED <<composing, email, attempts, provider, faults>>

\* Mutant: the UPDATE does not compare the row_version.
AnyVersion(d) == TRUE
UpToDate(d) == d \notin overtaken

\* EMAIL_ENABLED is off.
Suppress(d) ==
  /\ task[d] = "read" /\ UpToDate(d)
  /\ email' = "suppressed"
  /\ GoesOn(d, "none") /\ Overtakes(d)
  /\ UNCHANGED <<composing, attempts, provider, faults>>

\* The commit before the provider is called.
Process(d) ==
  /\ task[d] = "read" /\ UpToDate(d)
  /\ email' = "processing" /\ attempts' = attempts + 1
  /\ GoesOn(d, "sending") /\ Overtakes(d)
  /\ UNCHANGED <<composing, provider, faults>>

\* EMAIL_LOG_ONLY is on: no provider, straight to "sent".
LogOnly(d) ==
  /\ task[d] = "sending"
  /\ GoesOn(d, "answered")
  /\ UNCHANGED <<composing, email, attempts, overtaken, provider, faults>>

\* The provider takes the message; a lost answer looks like a refusal.
Accept(d, heard) ==
  /\ task[d] = "sending"
  /\ accepted' = accepted + 1
  /\ unanswered' = IF heard THEN unanswered ELSE unanswered + 1
  /\ GoesOn(d, IF heard THEN "answered" ELSE "refused")
  /\ UNCHANGED <<composing, email, attempts, overtaken, faults>>

Refuse(d) ==
  /\ task[d] = "sending"
  /\ GoesOn(d, "refused")
  /\ UNCHANGED <<composing, email, attempts, overtaken, provider, faults>>

Sent(d) ==
  /\ task[d] = "answered" /\ UpToDate(d)
  /\ email' = "sent"
  /\ GoesOn(d, "none") /\ Overtakes(d)
  /\ UNCHANGED <<composing, attempts, provider, faults>>

LastAttempt == attempts >= MaxAttempts

\* Mutant: a failed attempt leaves the row as it is for the retry.
StaysProcessing == IF LastAttempt THEN "failed" ELSE "processing"
AfterFailure == IF LastAttempt THEN "failed" ELSE "pending"

\* The attempt failed: for good, or back to pending for a retry.
Failed(d) ==
  /\ task[d] = "refused" /\ UpToDate(d)
  /\ email' = AfterFailure
  /\ GoesOn(d, IF LastAttempt THEN "none" ELSE "retry") /\ Overtakes(d)
  /\ UNCHANGED <<composing, attempts, provider, faults>>

\* self.retry(): a row that was missing, an attempt that failed - both count.
Retry(d) ==
  /\ task[d] \in {"missing", "retry"} /\ retries[d] < MaxRetries
  /\ task' = [task EXCEPT ![d] = "queued"]
  /\ retries' = [retries EXCEPT ![d] = @ + 1]
  /\ overtaken' = overtaken \ {d}
  /\ UNCHANGED <<composing, email, attempts, provider, faults>>

\* The task ends with an exception and is acknowledged: MaxRetriesExceededError,
\* StaleDataError (another delivery has the row), the database away.
Raise(d) ==
  /\ task[d] \in InHand \union {"missing"}
  /\ dropped' = (dropped \/ UpToDate(d))
  /\ GoesOn(d, "none")
  /\ overtaken' = overtaken \ {d}
  /\ UNCHANGED <<composing, email, attempts, provider, deaths>>

-----------------------------------------------------------------------------
(* The broker, crashes, the webhook. *)

\* A worker dies; its delivery was not acknowledged.
Die(d) ==
  /\ task[d] \in InHand /\ deaths < MaxDeaths
  /\ deaths' = deaths + 1
  /\ task' = [task EXCEPT ![d] = "queued"]
  /\ overtaken' = overtaken \ {d}
  /\ UNCHANGED <<composing, email, attempts, retries, provider, dropped>>

\* A message that waits beyond the visibility timeout is delivered once more.
DeliverAgain(d, e) ==
  /\ task[d] = "queued" /\ task[e] = "none"
  /\ task' = [task EXCEPT ![e] = "queued"]
  /\ retries' = [retries EXCEPT ![e] = retries[d]]
  /\ UNCHANGED <<composing, email, attempts, overtaken, provider, faults>>

\* process_resend_webhook() knows the message by provider_message_id, which is
\* committed with "sent"; events come in any order.
Webhook ==
  /\ email \in {"sent", "delivered", "bounced"}
  /\ email' \in {"delivered", "bounced"}
  /\ overtaken' = overtaken \union {d \in Deliveries : task[d] \in InHand}
  /\ UNCHANGED <<composing, attempts, task, retries, provider, faults>>

Deliver(d) ==
  \/ Read(d) \/ Suppress(d) \/ Process(d) \/ LogOnly(d) \/ Refuse(d)
  \/ \E heard \in BOOLEAN : Accept(d, heard)
  \/ Sent(d) \/ Failed(d) \/ Retry(d) \/ Raise(d)

OutboxNext ==
  \/ ComposeCommits \/ ComposeRollsBack \/ Webhook
  \/ \E d \in Deliveries : Compose(d) \/ Deliver(d) \/ Die(d) \/ \E e \in Deliveries : DeliverAgain(d, e)

\* The composing request ends and what the broker has is delivered and worked on.
OutboxFairness ==
  /\ WF_outboxVars(ComposeCommits \/ ComposeRollsBack)
  /\ \A d \in Deliveries : WF_outboxVars(Deliver(d))

OutboxSpec == OutboxInit /\ [][OutboxNext]_outboxVars /\ OutboxFairness

-----------------------------------------------------------------------------
(* Properties. *)

(* emails.py: "Retries are DB-driven"; a retry, a redelivery and a second delivery
   of one message send it again only if the answer to an earlier attempt was
   lost, and never more often than max_attempts.                           *)
SentAgainOnlyUnanswered ==
  accepted <= 1 + unanswered /\ accepted <= attempts

(* An e-mail that was committed is settled in the end, whatever was refused or
   delivered twice - unless a worker died or a task that had the row to itself
   ended with an exception (tasks/emails.py has no sweep that would rescue it). *)
EveryMailSettles ==
  email \in {"pending", "processing"} ~> (email \in Settled \/ deaths > 0 \/ dropped)

(* Why that is so: an e-mail to be sent is in the hands of a delivery that has the
   row to itself, and one that is being sent in the hands of its attempt.    *)
MailIsInHand ==
  deaths = 0 /\ ~dropped =>
    /\ email = "pending" =>
         \E d \in Deliveries : UpToDate(d) /\ task[d] \in {"queued", "read", "retry", "missing"}
    /\ email = "processing" =>
         \E d \in Deliveries : UpToDate(d) /\ task[d] \in {"sending", "answered", "refused"}
===============================================================================
