------------------------------ MODULE ChatStream ------------------------------
(***************************************************************************)
(* The chat service for one user and one conversation: generations read    *)
(* what the language model streams, save the reply, publish events to a    *)
(* Redis stream, and a browser that reconnects reads them from there.      *)
(* Text is the number of its chunks; an event is known by its number in    *)
(* the order of the stream, which is what its id in Redis is for.          *)
(***************************************************************************)
EXTENDS Integers, Sequences, FiniteSets

CONSTANTS Gens,         \* the calls of SendMessage
          MaxEvents,    \* bound: with so many events no more text or tools come
          MaxRounds     \* maxToolRounds

ASSUME ChatAssumption ==
    IsFiniteSet(Gens) /\ MaxEvents \in Nat /\ MaxRounds \in Nat

VARIABLES gen,          \* per call: where its goroutine is and what it has read
          reply,        \* per call: the assistant message in the database
          lateCtx,      \* the contexts that are done: cancelled or out of time
          cancelSlot,   \* the call, if any, whose cancel function is registered
          generating,   \* the flag of the conversation
          events,       \* the calls that the events of the stream belong to
          dropped,      \* how many of the oldest events Redis has dropped
          ttl,          \* the stream has a time to live
          tab,          \* the browser: where pollStream is; the events that have
                        \* arrived; whether lastId is "$", the newest event when
                        \* XREAD runs, and which that was; history: the events
                        \* that connections from "$" skipped until one came
          mishap        \* history: calls that overlapped, or whose last write failed

chatService == <<gen, reply, lateCtx, cancelSlot, generating>>
chatRedis == <<events, dropped, ttl>>
chatVars == <<chatService, chatRedis, tab, mishap>>

NoReply == -1           \* no message in the database
Running == {"started", "reading", "calling", "failed", "done", "clear", "leaving"}

ChatTypeOK ==
    /\ \A g \in Gens :
          /\ gen[g].at \in Running \union {"new", "ended"}
          /\ gen[g].text \in 0 .. MaxEvents /\ gen[g].round \in 0 .. MaxRounds
          /\ reply[g] \in NoReply .. gen[g].text
    /\ lateCtx \subseteq Gens /\ cancelSlot \subseteq Gens
    /\ generating \in BOOLEAN /\ ttl \in BOOLEAN
    /\ events \in Seq(Gens) /\ dropped \in 0 .. Len(events)
    /\ tab.at \in {"away", "read", "waiting", "check", "closed"}
    /\ tab.got \in Seq(1 .. Len(events)) /\ tab.skipped \subseteq 1 .. Len(events)
    /\ tab.newest \in BOOLEAN /\ tab.from \in 0 .. Len(events)
    /\ mishap \subseteq Gens

ChatInit ==
    /\ gen = [g \in Gens |-> [at |-> "new", text |-> 0, round |-> 0]]
    /\ reply = [g \in Gens |-> NoReply]
    /\ lateCtx = {} /\ cancelSlot = {} /\ generating = FALSE
    /\ events = <<>> /\ dropped = 0 /\ ttl = FALSE
    /\ tab = [at |-> "away", got |-> <<>>, newest |-> FALSE, from |-> 0,
              skipped |-> {}]
    /\ mishap = {}

-----------------------------------------------------------------------------
(* SendMessage, StopGeneration and the timeout of two minutes.             *)

Step(g, from, to) == gen[g].at = from /\ gen' = [gen EXCEPT ![g].at = to]

\* The cancel function replaces that of an earlier call; the goroutine starts
\* after the first answer of the model.
SendMessage(g) ==
    /\ Step(g, "new", "started")
    /\ cancelSlot' = {g}
    /\ mishap' = LET others == {h \in Gens \ {g} : gen[h].at \in Running}
                 IN  IF others = {} THEN mishap ELSE mishap \union others \union {g}
    /\ UNCHANGED <<reply, lateCtx, generating, chatRedis, tab>>

\* The first call of the model fails: the registered function goes, whosever.
SendFails(g) ==
    /\ Step(g, "new", "ended")
    /\ cancelSlot' = {}
    /\ UNCHANGED <<reply, lateCtx, generating, chatRedis, tab, mishap>>

StopGeneration ==
    /\ cancelSlot # {}
    /\ lateCtx' = lateCtx \union cancelSlot /\ cancelSlot' = {}
    /\ UNCHANGED <<gen, reply, generating, chatRedis, tab, mishap>>

Timeout(g) ==
    /\ gen[g].at \in Running /\ g \notin lateCtx
    /\ lateCtx' = lateCtx \union {g}
    /\ UNCHANGED <<gen, reply, cancelSlot, generating, chatRedis, tab, mishap>>

-----------------------------------------------------------------------------
(* runStream.                                                              *)

\* The flag, then the placeholder; if its insert fails nothing of this reply is
\* saved.
Open(g) ==
    /\ Step(g, "started", "reading")
    /\ generating' = TRUE
    /\ \/ reply' = [reply EXCEPT ![g] = 0] /\ UNCHANGED mishap
       \/ mishap' = mishap \union {g} /\ UNCHANGED reply
    /\ UNCHANGED <<lateCtx, cancelSlot, chatRedis, tab>>

Publish(g) == events' = Append(events, g) /\ UNCHANGED <<dropped, ttl>>

\* A chunk of text, now and then flushed to the database.
Text(g) ==
    /\ gen[g].at = "reading" /\ Len(events) < MaxEvents
    /\ gen' = [gen EXCEPT ![g].text = @ + 1]
    /\ reply' \in {reply, [reply EXCEPT ![g] = IF @ = NoReply THEN @ ELSE gen[g].text + 1]}
    /\ Publish(g)
    /\ UNCHANGED <<lateCtx, cancelSlot, generating, tab, mishap>>

\* finalizeReply and savePartialReply: the whole text, or no message where there
\* is none to show; a failure is logged.
Save(g, empty) ==
    \/ /\ reply' = [reply EXCEPT ![g] = IF @ = NoReply \/ empty THEN NoReply ELSE gen[g].text]
       /\ UNCHANGED mishap
    \/ mishap' = mishap \union {g} /\ UNCHANGED reply

CtxDone(g) ==
    /\ Step(g, "reading", "leaving") /\ g \in lateCtx
    /\ Save(g, gen[g].text = 0)
    /\ UNCHANGED <<lateCtx, cancelSlot, generating, chatRedis, tab>>

\* Mutant: a channel that is closed without a word is not an end of the reply.
ClosedUnsaved(g) ==
    /\ Step(g, "reading", "leaving")
    /\ UNCHANGED <<reply, mishap, lateCtx, cancelSlot, generating, chatRedis, tab>>

Closed(g) ==
    /\ Step(g, "reading", "leaving")
    /\ Save(g, gen[g].text = 0)
    /\ UNCHANGED <<lateCtx, cancelSlot, generating, chatRedis, tab>>

\* An error from the model, or when it is asked again after a round of tools:
\* the event goes out first, ...
ModelFails(g) ==
    /\ \E from \in {"reading", "calling"} : Step(g, from, "failed")
    /\ Publish(g)
    /\ UNCHANGED <<reply, lateCtx, cancelSlot, generating, tab, mishap>>

\* ... then what there is of the reply is saved.
SaveFailed(g) ==
    /\ Step(g, "failed", "leaving")
    /\ Save(g, gen[g].text = 0)
    /\ UNCHANGED <<lateCtx, cancelSlot, generating, chatRedis, tab>>

\* executeTools: its events, taken as one, whether or not anybody listens ...
RunTools(g) ==
    /\ gen[g].at = "reading" /\ gen[g].round < MaxRounds /\ Len(events) < MaxEvents
    /\ gen' = [gen EXCEPT ![g].at = "calling", ![g].round = @ + 1]
    /\ Publish(g)
    /\ UNCHANGED <<reply, lateCtx, cancelSlot, generating, tab, mishap>>

\* ... and the model is asked again.
AskAgain(g) ==
    /\ Step(g, "calling", "reading")
    /\ UNCHANGED <<reply, lateCtx, cancelSlot, generating, chatRedis, tab, mishap>>

\* The end of the reply, or a call of tools too many.
Finalize(g) ==
    /\ Step(g, "reading", "done")
    /\ Save(g, gen[g].text = 0 /\ gen[g].round = 0)
    /\ UNCHANGED <<lateCtx, cancelSlot, generating, chatRedis, tab>>

SendDone(g) ==
    /\ Step(g, "done", "clear")
    /\ Publish(g)
    /\ UNCHANGED <<reply, lateCtx, cancelSlot, generating, tab, mishap>>

\* clearGen: the other ways out leave the flag, and the stream without a TTL.
ClearGen(g) ==
    /\ Step(g, "clear", "leaving")
    /\ generating' = FALSE
    /\ ttl' = (dropped < Len(events))
    /\ UNCHANGED <<reply, lateCtx, cancelSlot, events, dropped, tab, mishap>>

\* The deferred calls: whichever cancel function is registered is deleted.
Leave(g) ==
    /\ Step(g, "leaving", "ended")
    /\ cancelSlot' = {} /\ lateCtx' = lateCtx \ {g}
    /\ UNCHANGED <<reply, generating, chatRedis, tab, mishap>>

-----------------------------------------------------------------------------
(* The stream expires five minutes after the last ClearGen.                *)

ExpireStream ==
    /\ ttl
    /\ ttl' = FALSE /\ dropped' = Len(events)
    /\ UNCHANGED <<chatService, events, tab, mishap>>

-----------------------------------------------------------------------------
(* ResumeStream and pollStream.                                            *)

LastGot == IF tab.got = <<>> THEN 0 ELSE tab.got[Len(tab.got)]

\* A browser sends the id of the last event that has arrived, or "0"; or "$", as
\* the page of the front end does: then nothing is read of what is there already.
Connect ==
    /\ tab.at \in {"away", "closed"}
    /\ \E newest \in BOOLEAN :
          tab' = [tab EXCEPT !.at = IF newest THEN "check" ELSE "read", !.newest = newest]
    /\ UNCHANGED <<chatService, chatRedis, mishap>>

\* XREAD from "$" waits for what comes after the newest event; so does the next
\* one when this one has timed out.
WaitForNewer ==
    /\ tab.at = "read" /\ tab.newest
    /\ tab' = [tab EXCEPT !.at = "waiting", !.from = Len(events)]
    /\ UNCHANGED <<chatService, chatRedis, mishap>>

\* Mutant: XRANGE includes the event it starts from.
AfterInclusive(last) ==
    LET from == IF last > dropped THEN last - 1 ELSE dropped
    IN  [i \in 1 .. Len(events) - from |-> from + i]

\* The events after one: XREAD, or XRANGE with its first event skipped.
EventsAfter(last) ==
    LET from == IF last > dropped THEN last ELSE dropped
    IN  [i \in 1 .. Len(events) - from |-> from + i]

\* ReadStream at first, then BlockReadStream, which may time out: what is there
\* is on its way to the browser and arrives, or the connection breaks before.
\* The first event gives lastId a number.
ReadEvents ==
    LET batch == EventsAfter(IF tab.at = "waiting" THEN tab.from ELSE LastGot)
    IN  /\ \/ tab.at = "waiting"
           \/ tab.at = "read" /\ ~ tab.newest
        /\ \E n \in 0 .. Len(batch) :
              tab' = [at |-> IF n = Len(batch) THEN "check" ELSE "away",
                      got |-> tab.got \o SubSeq(batch, 1, n),
                      newest |-> tab.newest /\ batch = <<>>,
                      from |-> 0,
                      skipped |-> IF tab.newest /\ n > 0
                                  THEN tab.skipped \union (LastGot + 1 .. tab.from)
                                  ELSE tab.skipped]
        /\ UNCHANGED <<chatService, chatRedis, mishap>>

CheckGenerating ==
    /\ tab.at = "check"
    /\ tab' = IF generating THEN [tab EXCEPT !.at = "read"]
               ELSE [tab EXCEPT !.at = "closed", !.newest = FALSE]
    /\ UNCHANGED <<chatService, chatRedis, mishap>>

Disconnect ==
    /\ tab.at \in {"read", "waiting", "check"}
    /\ tab' = [tab EXCEPT !.at = "away", !.newest = FALSE, !.from = 0]
    /\ UNCHANGED <<chatService, chatRedis, mishap>>

ChatNext ==
    \/ \E g \in Gens :
          \/ SendMessage(g) \/ SendFails(g) \/ Timeout(g)
          \/ Open(g) \/ Text(g) \/ CtxDone(g) \/ Closed(g)
          \/ ModelFails(g) \/ SaveFailed(g) \/ RunTools(g) \/ AskAgain(g) \/ Finalize(g)
          \/ SendDone(g) \/ ClearGen(g) \/ Leave(g)
    \/ StopGeneration \/ ExpireStream
    \/ Connect \/ WaitForNewer \/ ReadEvents \/ CheckGenerating \/ Disconnect

ChatSpec == ChatInit /\ [][ChatNext]_chatVars

-----------------------------------------------------------------------------
(* Properties.                                                             *)

\* The message in the database is all that has been read of the reply, and no
\* empty message is left, unless it shows what tools have found.
Saved(g) ==
    \/ reply[g] = IF gen[g].text = 0 THEN NoReply ELSE gen[g].text
    \/ gen[g].round > 0 /\ reply[g] = gen[g].text

\* Whatever way a generation ends (done, too many tools, stopped, out of time,
\* an error, a silent model), its reply is saved as far as it came when the
\* goroutine leaves, and before the event "done"; an empty message would spoil
\* the next prompt.  (The event "error" goes out before.)
RepliesSaved ==
    \A g \in Gens \ mishap : gen[g].at \in {"clear", "leaving", "ended"} => Saved(g)

\* However often a browser breaks off and resumes, and whatever it asks for, no
\* event comes twice or out of order; and until the stream expires it has every
\* event up to the last one, except those that a connection from "$" skipped:
\* they were in the stream before the XREAD that brought its first event.
ResumeInOrder ==
    /\ \A i, j \in DOMAIN tab.got : i < j => tab.got[i] < tab.got[j]
    /\ dropped = 0 => 1 .. LastGot \subseteq tab.skipped \union {tab.got[i] : i \in DOMAIN tab.got}

\* stream_end says that the replies the browser has seen events of are in the
\* database, from where it loads them next.  (Not if calls overlapped: they
\* share the flag.)
EndMeansSaved ==
    tab.at = "closed" =>
        \A i \in DOMAIN tab.got : events[tab.got[i]] \in mishap \/ Saved(events[tab.got[i]])

\* Both: what a generation has written is saved before it says that it is done,
\* and before a browser is told that nothing is generated any more.
SavedBeforeTold == RepliesSaved /\ EndMeansSaved
=============================================================================
