---------------------------- MODULE IdentityClose ----------------------------
(***************************************************************************)
(* Identity's background work and how Close ends it (identity.go,          *)
(* audit.go): mails handed to the Sender, the audit log's callers, queue   *)
(* and writer, and Close, which waits for the mails, stops the sweeps and  *)
(* closes the audit log, all within one context.  A write to the database  *)
(* may take for ever unless its context is canceled.                       *)
(***************************************************************************)
EXTENDS Integers, FiniteSets, FiniteSetsExt

CONSTANTS
  Loggers,    \* callers of Audit.Log
  DropOnFull, \* AuditConfig.DropOnFull
  Buffer,     \* AuditConfig.AsyncBuffer
  BatchSize,  \* auditBatchSize
  MaxEvents,  \* bound: events logged
  MaxMails    \* bound: mails in flight

ASSUME CloseAssumption ==
  DropOnFull \in BOOLEAN /\ {Buffer, BatchSize} \subseteq Nat \ {0} /\ {MaxEvents, MaxMails} \subseteq Nat

VARIABLES
  stage,      \* how far Close is
  ctxEnded,   \* Close's context has ended
  mails,      \* sends in flight
  mailClosed,
  logger,     \* caller -> idle, entered (holds the read lock) or sending (found the log open)
  stopping,   \* the stopping channel is closed
  inClosed,   \* closed, and the queue's channel is closed
  buffered,     \* events in the channel
  batch,      \* events the writer holds
  writer,     \* select, flush, last (its final flush) or returned
  canceled,   \* the writer's and the sweeper's context
  sweeper,    \* waits, purges (a batch is being deleted) or returned
  accepted, written, failedRows, dropped

mailVars == <<mails, mailClosed>>
auditVars == <<sweeper, logger, stopping, inClosed, buffered, batch, writer, canceled, accepted, written, failedRows, dropped>>
closeVars == <<stage, ctxEnded, mails, mailClosed, sweeper, logger, stopping, inClosed, buffered, batch, writer, canceled,
               accepted, written, failedRows, dropped>>

CloseInit ==
  /\ stage = "open" /\ ctxEnded = FALSE
  /\ mails = 0 /\ mailClosed = FALSE
  /\ logger = [l \in Loggers |-> "idle"]
  /\ stopping = FALSE /\ inClosed = FALSE /\ buffered = 0 /\ batch = 0
  /\ writer = "select" /\ sweeper \in {"waits", "returned"} /\ canceled = FALSE
  /\ accepted = 0 /\ written = 0 /\ failedRows = 0 /\ dropped = 0

-----------------------------------------------------------------------------
(* Mails.                                                                  *)

sendMail ==
  /\ ~ mailClosed /\ mails < MaxMails
  /\ mails' = mails + 1
  /\ UNCHANGED <<stage, ctxEnded, mailClosed>> /\ UNCHANGED auditVars

MailEnds ==
  /\ mails > 0
  /\ mails' = mails - 1
  /\ UNCHANGED <<stage, ctxEnded, mailClosed>> /\ UNCHANGED auditVars

-----------------------------------------------------------------------------
(* Audit.Log.  A waiting Lock keeps new readers out.                       *)

Readers == {l \in Loggers : logger[l] # "idle"}
To(l, pc) == logger' = [logger EXCEPT ![l] = pc]

LogEnters(l) ==
  /\ logger[l] = "idle" /\ stage # "lock" /\ accepted + dropped + Cardinality(Readers) < MaxEvents
  /\ To(l, "entered")
  /\ UNCHANGED <<stage, ctxEnded, mails, mailClosed, sweeper, stopping, inClosed, buffered, batch, writer, canceled, accepted, written, failedRows, dropped>>

LogChecks(l) ==
  /\ logger[l] = "entered"
  /\ IF inClosed THEN To(l, "idle") /\ dropped' = dropped + 1 ELSE To(l, "sending") /\ UNCHANGED dropped
  /\ UNCHANGED <<stage, ctxEnded, mails, mailClosed, sweeper, stopping, inClosed, buffered, batch, writer, canceled, accepted, written, failedRows>>

LogSends(l) ==
  /\ logger[l] = "sending" /\ buffered < Buffer
  /\ buffered' = buffered + 1 /\ accepted' = accepted + 1
  /\ To(l, "idle")
  /\ UNCHANGED <<stage, ctxEnded, mails, mailClosed, sweeper, stopping, inClosed, batch, writer, canceled, written, failedRows, dropped>>

(* The queue is full and drop_on_full is set, or the log is closing.       *)
LogDrops(l) ==
  /\ logger[l] = "sending"
  /\ IF DropOnFull THEN buffered >= Buffer ELSE stopping
  /\ dropped' = dropped + 1
  /\ To(l, "idle")
  /\ UNCHANGED <<stage, ctxEnded, mails, mailClosed, sweeper, stopping, inClosed, buffered, batch, writer, canceled, accepted, written, failedRows>>

(* The caller's own context ends.                                          *)
LogGivesUp(l) ==
  /\ logger[l] = "sending" /\ ~ DropOnFull
  /\ dropped' = dropped + 1
  /\ To(l, "idle")
  /\ UNCHANGED <<stage, ctxEnded, mails, mailClosed, sweeper, stopping, inClosed, buffered, batch, writer, canceled, accepted, written, failedRows>>

-----------------------------------------------------------------------------
(* The writer, run.                                                        *)

Receive ==
  /\ writer = "select" /\ buffered > 0
  /\ buffered' = buffered - 1
  /\ \/ batch' = batch + 1 /\ writer' = (IF batch + 1 >= BatchSize THEN "flush" ELSE "select") /\ UNCHANGED failedRows
     \/ failedRows' = failedRows + 1 /\ UNCHANGED <<batch, writer>>
  /\ UNCHANGED <<stage, ctxEnded, mails, mailClosed, sweeper, logger, stopping, inClosed, canceled, accepted, written, dropped>>

FlushTimer ==
  /\ writer = "select" /\ batch > 0
  /\ writer' = "flush"
  /\ UNCHANGED <<stage, ctxEnded, mails, mailClosed, sweeper, logger, stopping, inClosed, buffered, batch, canceled, accepted, written, failedRows, dropped>>

QueueEnds_NoFlush ==
  /\ writer = "select" /\ inClosed /\ buffered = 0
  /\ writer' = "returned"
  /\ UNCHANGED <<stage, ctxEnded, mails, mailClosed, sweeper, logger, stopping, inClosed, buffered, batch, canceled, accepted, written, failedRows, dropped>>
QueueEnds ==
  /\ writer = "select" /\ inClosed /\ buffered = 0
  /\ writer' = "last"
  /\ UNCHANGED <<stage, ctxEnded, mails, mailClosed, sweeper, logger, stopping, inClosed, buffered, batch, canceled, accepted, written, failedRows, dropped>>

(* A batch is written, or dropped and counted; nothing says when, unless   *)
(* its context was canceled.                                               *)
Flushed(ok) ==
  /\ writer \in {"flush", "last"}
  /\ IF ok THEN written' = written + batch /\ UNCHANGED failedRows ELSE failedRows' = failedRows + batch /\ UNCHANGED written
  /\ batch' = 0
  /\ writer' = IF writer = "last" THEN "returned" ELSE "select"
  /\ UNCHANGED <<stage, ctxEnded, mails, mailClosed, sweeper, logger, stopping, inClosed, buffered, canceled, accepted, dropped>>

WriterCanceled ==
  /\ writer = "select" /\ canceled
  /\ writer' = "returned"
  /\ UNCHANGED <<stage, ctxEnded, mails, mailClosed, sweeper, logger, stopping, inClosed, buffered, batch, canceled, accepted, written, failedRows, dropped>>

(* The sweeper, where records expire: a purge deletes batch after batch    *)
(* and looks at the context before each; a delete may take for ever unless *)
(* it was canceled.                                                        *)
sweep ==
  /\ sweeper = "waits" /\ sweeper' = "purges"
  /\ UNCHANGED <<stage, ctxEnded, mails, mailClosed, logger, stopping, inClosed, buffered, batch, writer, canceled, accepted, written, failedRows, dropped>>

purge ==
  /\ sweeper = "purges" /\ sweeper' = "waits"
  /\ UNCHANGED <<stage, ctxEnded, mails, mailClosed, logger, stopping, inClosed, buffered, batch, writer, canceled, accepted, written, failedRows, dropped>>

SweeperCanceled ==
  /\ sweeper = "waits" /\ canceled
  /\ sweeper' = "returned"
  /\ UNCHANGED <<stage, ctxEnded, mails, mailClosed, logger, stopping, inClosed, buffered, batch, writer, canceled, accepted, written, failedRows, dropped>>

-----------------------------------------------------------------------------
(* Close.                                                                  *)

waitForMail ==
  /\ \/ stage = "open" /\ stage' = "mail" /\ mailClosed' = TRUE
     \/ stage = "mail" /\ (mails = 0 \/ ctxEnded) /\ stage' = "background" /\ UNCHANGED mailClosed
  /\ UNCHANGED <<ctxEnded, mails>> /\ UNCHANGED auditVars

(* stopSweep, the limiter's Close and the OAuth store's: each waits for a  *)
(* goroutine whose context it has canceled, or a critical section.         *)
StopBackground ==
  /\ stage = "background" /\ stage' = "audit"
  /\ UNCHANGED ctxEnded /\ UNCHANGED mailVars /\ UNCHANGED auditVars

AuditStops_AfterLock ==
  /\ stage = "audit" /\ stage' = "lock"
  /\ UNCHANGED ctxEnded /\ UNCHANGED mailVars /\ UNCHANGED auditVars
AuditStops ==
  /\ stage = "audit" /\ stage' = "lock"
  /\ stopping' = TRUE
  /\ UNCHANGED <<ctxEnded, mails, mailClosed, sweeper, logger, inClosed, buffered, batch, writer, canceled, accepted, written, failedRows, dropped>>

AuditLocks ==
  /\ stage = "lock" /\ Readers = {}
  /\ stage' = "wait" /\ inClosed' = TRUE
  /\ UNCHANGED <<ctxEnded, mails, mailClosed, sweeper, logger, stopping, buffered, batch, writer, canceled, accepted, written, failedRows, dropped>>

AuditCloses ==
  /\ \/ stage = "wait" /\ writer = "returned" /\ stage' = "sweeper" /\ canceled' = TRUE
     \/ stage = "wait" /\ ctxEnded /\ stage' = "cancel" /\ canceled' = TRUE
     \/ stage = "cancel" /\ writer = "returned" /\ stage' = "cut sweeper" /\ UNCHANGED canceled
     \/ stage = "sweeper" /\ sweeper = "returned" /\ stage' = "closed" /\ UNCHANGED canceled
     \/ stage = "cut sweeper" /\ sweeper = "returned" /\ stage' = "cut" /\ UNCHANGED canceled
  /\ UNCHANGED <<ctxEnded, mails, mailClosed, sweeper, logger, stopping, inClosed, buffered, batch, writer, accepted, written, failedRows, dropped>>

CloseCtxEnds ==
  /\ stage # "open" /\ ~ ctxEnded
  /\ ctxEnded' = TRUE
  /\ UNCHANGED stage /\ UNCHANGED mailVars /\ UNCHANGED auditVars

CloseSteps == waitForMail \/ StopBackground \/ AuditStops \/ AuditLocks \/ AuditCloses
WriterEnds == QueueEnds \/ WriterCanceled \/ (canceled /\ Flushed(FALSE))

CloseNext ==
  \/ sendMail \/ MailEnds
  \/ \E l \in Loggers : LogEnters(l) \/ LogChecks(l) \/ LogSends(l) \/ LogDrops(l) \/ LogGivesUp(l)
  \/ Receive \/ FlushTimer \/ QueueEnds \/ WriterCanceled \/ Flushed(TRUE) \/ Flushed(FALSE)
  \/ sweep \/ purge \/ SweeperCanceled
  \/ CloseSteps \/ CloseCtxEnds

CloseSpec == CloseInit /\ [][CloseNext]_closeVars

(* Close and the callers take the steps they can; the writer and the       *)
(* sweeper take the ones that wait for nothing but a canceled context, of  *)
(* which the sweeper's select, between its hourly tick and the context,    *)
(* takes the context in the end; Close's context has a deadline.  Nothing  *)
(* is assumed of the database or of the Sender.                            *)
CloseFairness ==
  /\ WF_closeVars(waitForMail /\ stage = "mail") /\ WF_closeVars(StopBackground) /\ WF_closeVars(AuditStops)
  /\ WF_closeVars(AuditLocks) /\ WF_closeVars(AuditCloses)
  /\ WF_closeVars(CloseCtxEnds)
  /\ \A l \in Loggers : WF_closeVars(LogChecks(l)) /\ WF_closeVars(LogSends(l) \/ LogDrops(l))
  /\ WF_closeVars(WriterEnds) /\ SF_closeVars(SweeperCanceled) /\ WF_closeVars(canceled /\ purge)

-----------------------------------------------------------------------------
(* No caller sends on the channel close has closed: Log holds the read     *)
(* lock from its look at closed to the end of its send.                    *)
NoSendOnClosed == inClosed => \A l \in Loggers : logger[l] # "sending"

(* Close without an error wrote every event Log accepted, or counted it as *)
(* failed; none is left in the queue or in the writer's batch.             *)
ClosedIsWritten == stage = "closed" => accepted = written + failedRows

(* Close ends once its context does, whatever the database, the Sender and *)
(* callers waiting for room in the queue do: stopping is closed before the *)
(* lock is taken.                                                          *)
CloseEnds == (stage # "open") ~> (stage \in {"closed", "cut"})

(* Closing loses no event that was accepted and panics no one who logs.    *)
AuditIsWhole == ClosedIsWritten /\ NoSendOnClosed
=============================================================================
