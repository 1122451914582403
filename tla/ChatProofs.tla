----------------------------- MODULE ChatProofs -----------------------------
(***************************************************************************)
(* Proofs about ChatStream for any calls and any bounds: a browser that    *)
(* resumes has the events in order, and what a generation has written is   *)
(* saved before it says that it is done.                                   *)
(***************************************************************************)
EXTENDS ChatStream, TLAPS

Places == Running \union {"new", "ended"}

GenStates == [at : Places, text : 0 .. MaxEvents, round : 0 .. MaxRounds]

GensOK ==
    /\ gen \in [Gens -> GenStates] /\ reply \in [Gens -> Int]
    /\ \A g \in Gens : reply[g] \in NoReply .. gen[g].text /\ gen[g].text <= Len(events)
    /\ lateCtx \subseteq Gens /\ cancelSlot \subseteq Gens
    /\ generating \in BOOLEAN /\ mishap \subseteq Gens

StreamOK == events \in Seq(Gens) /\ dropped \in 0 .. Len(events) /\ ttl \in BOOLEAN

TabPlaces == {"away", "read", "waiting", "check", "closed"}

TabStates == [at : TabPlaces, got : Seq(Nat), newest : BOOLEAN, from : Nat, skipped : SUBSET Nat]

TabOK ==
    /\ tab \in TabStates /\ tab.from <= Len(events) /\ tab.skipped \subseteq 1 .. Len(events)
    /\ \A i \in 1 .. Len(tab.got) : tab.got[i] \in 1 .. Len(events)

\* Every chunk of text is an event, which is what bounds it.
ChatShape == GensOK /\ StreamOK /\ TabOK

LEMMA ShapeHasTypes == ChatShape => ChatTypeOK
<1> SUFFICES ASSUME ChatShape PROVE ChatTypeOK
  OBVIOUS
<1>1. ASSUME NEW g \in Gens
      PROVE  /\ gen[g].at \in Running \union {"new", "ended"}
             /\ gen[g].text \in 0 .. MaxEvents /\ gen[g].round \in 0 .. MaxRounds
             /\ reply[g] \in NoReply .. gen[g].text
  BY DEF ChatShape, GensOK, GenStates, Places
<1>2. /\ tab.at \in {"away", "read", "waiting", "check", "closed"}
      /\ tab.got \in Seq(1 .. Len(events)) /\ tab.skipped \subseteq 1 .. Len(events)
      /\ tab.newest \in BOOLEAN
  BY DEF ChatShape, TabOK, TabStates, TabPlaces
<1>3. tab.from \in 0 .. Len(events)
  BY DEF ChatShape, TabOK, TabStates, StreamOK
<1> QED
  BY <1>1, <1>2, <1>3 DEF ChatTypeOK, ChatShape, GensOK, StreamOK

LEMMA ShapeInit == ChatInit => ChatShape
<1> SUFFICES ASSUME ChatInit PROVE ChatShape
  OBVIOUS
<1>1. events = <<>> /\ Len(events) = 0 /\ events \in Seq(Gens)
  BY DEF ChatInit
<1>2. [at |-> "new", text |-> 0, round |-> 0] \in GenStates
  BY ChatAssumption DEF ChatAssumption, GenStates, Places
<1>3. GensOK
  <2>1. \A g \in Gens : gen[g].text = 0 /\ reply[g] = NoReply
    BY DEF ChatInit
  <2>2. \A g \in Gens : reply[g] \in NoReply .. gen[g].text /\ gen[g].text <= Len(events)
    BY <1>1, <2>1 DEF NoReply
  <2>3. gen \in [Gens -> GenStates]
    BY <1>2 DEF ChatInit
  <2>4. NoReply \in Int
    BY DEF NoReply
  <2>5. reply \in [Gens -> Int]
    BY <2>4 DEF ChatInit
  <2>6. lateCtx = {} /\ cancelSlot = {} /\ generating = FALSE /\ mishap = {}
    BY DEF ChatInit
  <2> QED
    BY <2>2, <2>3, <2>5, <2>6 DEF GensOK
<1>4. StreamOK
  <2>1. dropped \in 0 .. Len(events)
    BY <1>1 DEF ChatInit
  <2>2. ttl \in BOOLEAN
    BY DEF ChatInit
  <2> QED
    BY <1>1, <2>1, <2>2 DEF StreamOK
<1>5. TabOK
  <2>1. tab.got = <<>> /\ Len(tab.got) = 0 /\ tab.got \in Seq(Nat)
    BY DEF ChatInit
  <2>2. PICK nothing \in Nat : nothing = 0
    OBVIOUS
  <2>3. tab = [at |-> "away", got |-> <<>>, newest |-> FALSE, from |-> nothing,
               skipped |-> {}]
    BY <2>2 DEF ChatInit
  <2>4. tab \in TabStates /\ tab.from = 0 /\ tab.skipped = {}
    BY <2>1, <2>2, <2>3 DEF TabStates, TabPlaces
  <2> QED
    BY <1>1, <2>1, <2>4 DEF TabOK
<1> QED
  BY <1>3, <1>4, <1>5 DEF ChatShape

LEMMA StepMoves ==
    ASSUME GensOK, NEW g \in Gens, NEW from, NEW to \in Places, Step(g, from, to)
    PROVE  /\ gen[g].at = from /\ gen'[g].at = to
           /\ gen'[g].text = gen[g].text /\ gen'[g].round = gen[g].round
           /\ \A h \in Gens \ {g} : gen'[h] = gen[h]
           /\ gen' \in [Gens -> GenStates]
<1>1. gen[g] \in GenStates
  BY DEF GensOK
<1>2. gen[g].at = from /\ gen' = [gen EXCEPT ![g] = [gen[g] EXCEPT !.at = to]]
  BY DEF Step
<1>3. /\ [gen[g] EXCEPT !.at = to] \in GenStates
      /\ [gen[g] EXCEPT !.at = to].at = to
      /\ [gen[g] EXCEPT !.at = to].text = gen[g].text
      /\ [gen[g] EXCEPT !.at = to].round = gen[g].round
  BY <1>1 DEF GenStates
<1> QED
  BY <1>2, <1>3 DEF GensOK

\* The steps by which a call goes from place to place without an answer saved.
Moving(g) ==
    \/ SendMessage(g) \/ SendFails(g) \/ Open(g) \/ AskAgain(g) \/ SendDone(g)
    \/ ClearGen(g) \/ Leave(g) \/ ModelFails(g)

\* The last writes.
Ending(g) == CtxDone(g) \/ Closed(g) \/ SaveFailed(g) \/ Finalize(g)

From(g, places) == gen[g].at \in places

LEMMA MovingSteps ==
    ASSUME GensOK, NEW g \in Gens, Moving(g)
    PROVE  /\ gen'[g].text = gen[g].text /\ gen'[g].round = gen[g].round
           /\ \A h \in Gens \ {g} : gen'[h] = gen[h]
           /\ gen' \in [Gens -> GenStates]
           /\ \/ SendMessage(g) /\ gen[g].at = "new" /\ gen'[g].at = "started"
              \/ SendFails(g) /\ gen[g].at = "new" /\ gen'[g].at = "ended"
              \/ Open(g) /\ gen[g].at = "started" /\ gen'[g].at = "reading"
              \/ AskAgain(g) /\ gen[g].at = "calling" /\ gen'[g].at = "reading"
              \/ SendDone(g) /\ gen[g].at = "done" /\ gen'[g].at = "clear"
              \/ ClearGen(g) /\ gen[g].at = "clear" /\ gen'[g].at = "leaving"
              \/ Leave(g) /\ gen[g].at = "leaving" /\ gen'[g].at = "ended"
              \/ ModelFails(g) /\ gen[g].at \in {"reading", "calling"} /\ gen'[g].at = "failed"
<1>1. {"new", "ended", "started", "reading", "calling", "failed", "done", "clear", "leaving"}
         = Places
  BY DEF Places, Running
<1>2. CASE ModelFails(g)
  <2>1. PICK from \in {"reading", "calling"} : Step(g, from, "failed")
    BY <1>2 DEF ModelFails
  <2> QED
    BY <1>1, <1>2, <2>1, StepMoves
<1>3. CASE ~ ModelFails(g)
  BY <1>1, <1>3, StepMoves
     DEF Moving, SendMessage, SendFails, Open, AskAgain, SendDone, ClearGen, Leave
<1> QED
  BY <1>2, <1>3

LEMMA EndingSteps ==
    ASSUME GensOK, NEW g \in Gens, Ending(g)
    PROVE  /\ gen'[g].text = gen[g].text /\ gen'[g].round = gen[g].round
           /\ \A h \in Gens \ {g} : gen'[h] = gen[h]
           /\ gen' \in [Gens -> GenStates]
           /\ From(g, {"reading", "failed"}) /\ gen'[g].at \in {"leaving", "done"}
           /\ UNCHANGED <<lateCtx, cancelSlot, generating, tab, dropped, ttl, events>>
           /\ \E empty \in BOOLEAN :
                 /\ Save(g, empty) /\ (empty => gen[g].text = 0)
                 /\ gen[g].text = 0 => empty \/ gen[g].round # 0
<1>1. {"leaving", "done"} \subseteq Places
  BY DEF Places, Running
<1>2. CASE CtxDone(g) \/ Closed(g) \/ SaveFailed(g)
  <2>1. Step(g, "reading", "leaving") \/ Step(g, "failed", "leaving")
    BY <1>2 DEF CtxDone, Closed, SaveFailed
  <2>0. Save(g, gen[g].text = 0) /\ UNCHANGED <<lateCtx, cancelSlot, generating, chatRedis, tab>>
    BY <1>2 DEF CtxDone, Closed, SaveFailed
  <2>2. (gen[g].text = 0) \in BOOLEAN
    OBVIOUS
  <2> QED
    BY <1>1, <2>0, <2>1, <2>2, StepMoves DEF From, chatRedis
<1>3. CASE Finalize(g)
  <2>1. Step(g, "reading", "done") /\ Save(g, gen[g].text = 0 /\ gen[g].round = 0)
        /\ UNCHANGED <<lateCtx, cancelSlot, generating, chatRedis, tab>>
    BY <1>3 DEF Finalize
  <2>2. (gen[g].text = 0 /\ gen[g].round = 0) \in BOOLEAN
    OBVIOUS
  <2> QED
    BY <1>1, <2>1, <2>2, StepMoves DEF From, chatRedis
<1> QED
  BY <1>2, <1>3 DEF Ending

\* The two steps that are neither: a chunk of text, a round of tools.
LEMMA WordSteps ==
    ASSUME GensOK, NEW g \in Gens, Text(g) \/ RunTools(g)
    PROVE  /\ gen[g].at = "reading" /\ Publish(g)
           /\ \A h \in Gens \ {g} : gen'[h] = gen[h]
           /\ Text(g) => /\ gen'[g].at = "reading" /\ gen'[g].round = gen[g].round
                         /\ gen'[g].text = gen[g].text + 1 /\ Len(events) < MaxEvents
           /\ RunTools(g) => /\ gen'[g].at = "calling" /\ gen'[g].text = gen[g].text
                             /\ gen'[g].round = gen[g].round + 1 /\ gen[g].round < MaxRounds
<1>1. gen[g] \in GenStates
  BY DEF GensOK
<1>2. ASSUME Text(g)
      PROVE  /\ gen'[g].at = "reading" /\ gen'[g].round = gen[g].round
             /\ gen'[g].text = gen[g].text + 1 /\ Len(events) < MaxEvents
  <2>1. gen' = [gen EXCEPT ![g] = [gen[g] EXCEPT !.text = gen[g].text + 1]]
    BY <1>2 DEF Text
  <2>2. /\ [gen[g] EXCEPT !.text = gen[g].text + 1].at = gen[g].at
        /\ [gen[g] EXCEPT !.text = gen[g].text + 1].round = gen[g].round
        /\ [gen[g] EXCEPT !.text = gen[g].text + 1].text = gen[g].text + 1
    BY <1>1 DEF GenStates
  <2> QED
    BY <1>2, <2>1, <2>2 DEF GensOK, Text
<1>3. ASSUME RunTools(g)
      PROVE  /\ gen'[g].at = "calling" /\ gen'[g].text = gen[g].text
             /\ gen'[g].round = gen[g].round + 1 /\ gen[g].round < MaxRounds
  <2>1. gen' = [gen EXCEPT ![g] = [gen[g] EXCEPT !.at = "calling", !.round = gen[g].round + 1]]
    BY <1>3 DEF RunTools
  <2>2. /\ [gen[g] EXCEPT !.at = "calling", !.round = gen[g].round + 1].at = "calling"
        /\ [gen[g] EXCEPT !.at = "calling", !.round = gen[g].round + 1].text = gen[g].text
        /\ [gen[g] EXCEPT !.at = "calling", !.round = gen[g].round + 1].round = gen[g].round + 1
    BY <1>1 DEF GenStates
  <2> QED
    BY <1>3, <2>1, <2>2 DEF GensOK, RunTools
<1>4. gen[g].at = "reading" /\ Publish(g) /\ \A h \in Gens \ {g} : gen'[h] = gen[h]
  BY DEF Text, RunTools, GensOK
<1> QED
  BY <1>2, <1>3, <1>4

LEMMA PublishKeeps ==
    ASSUME StreamOK, TabOK, NEW g \in Gens, Publish(g)
    PROVE  /\ StreamOK' /\ Len(events') = Len(events) + 1 /\ Len(events) \in Nat
           /\ \A i \in 1 .. Len(events) : events'[i] = events[i]
           /\ events'[Len(events) + 1] = g
           /\ UNCHANGED tab => TabOK'
<1>1. /\ events' = Append(events, g) /\ events \in Seq(Gens) /\ dropped \in 0 .. Len(events)
      /\ UNCHANGED <<dropped, ttl>> /\ ttl \in BOOLEAN
  BY DEF StreamOK, Publish
<1>2. /\ Len(events') = Len(events) + 1 /\ Len(events) \in Nat /\ events' \in Seq(Gens)
      /\ \A i \in 1 .. Len(events) : events'[i] = events[i]
      /\ events'[Len(events) + 1] = g
  BY <1>1
<1>3. StreamOK'
  BY <1>1, <1>2 DEF StreamOK
<1>4. UNCHANGED tab => TabOK'
  <2> SUFFICES ASSUME UNCHANGED tab PROVE TabOK'
    OBVIOUS
  <2>1. tab.from \in Nat
    BY DEF TabOK, TabStates
  <2>2. tab.from <= Len(events') /\ tab.skipped \subseteq 1 .. Len(events')
    BY <1>2, <2>1 DEF TabOK
  <2>3. \A i \in 1 .. Len(tab.got) : tab.got[i] \in 1 .. Len(events')
    BY <1>2 DEF TabOK
  <2> QED
    BY <2>2, <2>3 DEF TabOK
<1> QED
  BY <1>2, <1>3, <1>4

\* A reply that is saved is no longer than what has been read.
LEMMA SaveKeeps ==
    ASSUME GensOK, NEW g \in Gens, NEW empty \in BOOLEAN, Save(g, empty)
    PROVE  /\ reply' \in [Gens -> Int] /\ reply'[g] \in NoReply .. gen[g].text
           /\ \A h \in Gens \ {g} : reply'[h] = reply[h]
           /\ mishap \subseteq mishap' /\ mishap' \subseteq mishap \union {g}
<1>1. gen[g].text \in Nat
  BY DEF GensOK, GenStates
<1> QED
  BY <1>1 DEF Save, GensOK, NoReply

LEMMA Prefix ==
    ASSUME NEW seq \in Seq(Nat), NEW n \in 0 .. Len(seq)
    PROVE  /\ SubSeq(seq, 1, n) \in Seq(Nat) /\ Len(SubSeq(seq, 1, n)) = n
           /\ \A i \in 1 .. n : SubSeq(seq, 1, n)[i] = seq[i]
  OBVIOUS

LEMMA Joined ==
    ASSUME NEW front \in Seq(Nat), NEW back \in Seq(Nat)
    PROVE  /\ front \o back \in Seq(Nat) /\ Len(front \o back) = Len(front) + Len(back)
           /\ \A i \in 1 .. Len(front) : (front \o back)[i] = front[i]
           /\ \A i \in 1 .. Len(back) : (front \o back)[Len(front) + i] = back[i]
  OBVIOUS

\* The event after which the next one is read.
After == IF tab.at = "waiting" THEN tab.from ELSE LastGot
ReadFrom == IF After > dropped THEN After ELSE dropped

\* What arrives of the stream: the events after one, in order.
LEMMA ReadArrives ==
    ASSUME StreamOK, TabOK, ReadEvents
    PROVE  /\ ReadFrom \in Nat /\ After \in Nat /\ After <= ReadFrom /\ LastGot \in Nat
           /\ tab'.from = 0 /\ (tab'.newest => tab.newest)
           /\ \E n \in Nat :
              /\ ReadFrom + n <= Len(events)
              /\ tab' \in [at : {"check", "away"}, got : Seq(Nat), newest : BOOLEAN, from : Nat,
                            skipped : SUBSET (1 .. Len(events))]
              /\ tab'.skipped = IF tab.newest /\ n > 0
                                THEN tab.skipped \union (LastGot + 1 .. tab.from)
                                ELSE tab.skipped
              /\ Len(tab'.got) = Len(tab.got) + n
              /\ \A i \in 1 .. Len(tab.got) : tab'.got[i] = tab.got[i]
              /\ \A i \in 1 .. n : tab'.got[Len(tab.got) + i] = ReadFrom + i
<1>1. tab.got \in Seq(Nat) /\ Len(tab.got) \in Nat
      /\ \A i \in 1 .. Len(tab.got) : tab.got[i] \in 1 .. Len(events)
  BY DEF TabOK, TabStates
<1>2. dropped \in 0 .. Len(events) /\ Len(events) \in Nat
  BY DEF StreamOK
<1>0. tab.from \in 0 .. Len(events) /\ tab.newest \in BOOLEAN
  BY <1>2 DEF TabOK, TabStates
<1>3. LastGot \in 0 .. Len(events) /\ After \in 0 .. Len(events)
  BY <1>0, <1>1, <1>2 DEF LastGot, After
<1>4. ReadFrom \in 0 .. Len(events) /\ After <= ReadFrom
      /\ EventsAfter(After) = [i \in 1 .. Len(events) - ReadFrom |-> ReadFrom + i]
  BY <1>2, <1>3 DEF EventsAfter, ReadFrom
<1>5. /\ EventsAfter(After) \in Seq(Nat)
      /\ Len(EventsAfter(After)) = Len(events) - ReadFrom
      /\ \A i \in 1 .. Len(EventsAfter(After)) : EventsAfter(After)[i] = ReadFrom + i
  BY <1>2, <1>4
<1>19. PICK batch : batch = EventsAfter(After)
  OBVIOUS
<1>6. PICK n \in 0 .. Len(batch) :
            tab' = [at |-> IF n = Len(batch) THEN "check" ELSE "away",
                    got |-> tab.got \o SubSeq(batch, 1, n),
                    newest |-> tab.newest /\ batch = <<>>,
                    from |-> 0,
                    skipped |-> IF tab.newest /\ n > 0
                                THEN tab.skipped \union (LastGot + 1 .. tab.from)
                                ELSE tab.skipped]
  BY <1>19 DEF ReadEvents, After
<1>7. PICK new, got : new = SubSeq(batch, 1, n) /\ got = tab.got
  OBVIOUS
<1>8. batch \in Seq(Nat) /\ n \in 0 .. Len(batch) /\ Len(batch) = Len(events) - ReadFrom
      /\ \A i \in 1 .. Len(batch) : batch[i] = ReadFrom + i
  BY <1>5, <1>6, <1>19
<1>9. new \in Seq(Nat) /\ Len(new) = n /\ \A i \in 1 .. n : new[i] = batch[i]
  BY <1>7, <1>8, Prefix
<1>10. /\ got \o new \in Seq(Nat) /\ Len(got \o new) = Len(got) + n
       /\ \A i \in 1 .. Len(got) : (got \o new)[i] = got[i]
       /\ \A i \in 1 .. n : (got \o new)[Len(got) + i] = new[i]
  <2>1. got \in Seq(Nat)
    BY <1>1, <1>7
  <2>2. new \in Seq(Nat) /\ Len(new) = n
    BY <1>9
  <2>3. /\ got \o new \in Seq(Nat) /\ Len(got \o new) = Len(got) + Len(new)
        /\ \A i \in 1 .. Len(got) : (got \o new)[i] = got[i]
        /\ \A i \in 1 .. Len(new) : (got \o new)[Len(got) + i] = new[i]
    BY <2>1, <2>2, Joined
  <2> QED
    BY <2>2, <2>3, Zenon
<1>11. PICK skipped : skipped = IF tab.newest /\ n > 0
                               THEN tab.skipped \union (LastGot + 1 .. tab.from)
                               ELSE tab.skipped
  OBVIOUS
<1>20. PICK nothing \in Nat : nothing = 0
  OBVIOUS
<1>21. PICK newest \in BOOLEAN : newest = (tab.newest /\ batch = <<>>)
  OBVIOUS
<1>22. PICK at \in {"check", "away"} : at = IF n = Len(batch) THEN "check" ELSE "away"
  OBVIOUS
<1>12. tab' = [at |-> at, got |-> got \o new, newest |-> newest, from |-> nothing,
              skipped |-> skipped]
  BY <1>6, <1>7, <1>11, <1>20, <1>21, <1>22
<1>23. /\ tab'.got = got \o new /\ tab'.skipped = skipped /\ tab'.from = 0
       /\ tab'.newest = newest
  BY <1>12, <1>20
<1>13. skipped \in SUBSET (1 .. Len(events))
  BY <1>0, <1>1, <1>2, <1>3, <1>11 DEF TabOK
<1>14. tab' \in [at : {"check", "away"}, got : Seq(Nat), newest : BOOLEAN, from : Nat,
                 skipped : SUBSET (1 .. Len(events))]
  BY <1>10, <1>12, <1>13
<1>15. ReadFrom \in Nat /\ n \in Nat /\ ReadFrom + n <= Len(events) /\ n <= Len(batch)
  BY <1>2, <1>4, <1>8
<1>16. \A i \in 1 .. n : (got \o new)[Len(got) + i] = ReadFrom + i
  <2>1. \A i \in 1 .. n : i \in 1 .. Len(batch)
    BY <1>8, <1>15
  <2> QED
    BY <1>8, <1>9, <1>10, <2>1, Zenon
<1>17. /\ Len(tab'.got) = Len(tab.got) + n
       /\ \A i \in 1 .. Len(tab.got) : tab'.got[i] = tab.got[i]
       /\ \A i \in 1 .. n : tab'.got[Len(tab.got) + i] = ReadFrom + i
  BY <1>7, <1>10, <1>16, <1>23
<1>18. After \in Nat /\ After <= ReadFrom /\ LastGot \in Nat
  BY <1>2, <1>3, <1>4
<1>24. newest => tab.newest
  BY <1>21
<1>25. tab'.newest => tab.newest
  BY <1>23, <1>24
<1> QED
  BY <1>11, <1>14, <1>15, <1>17, <1>18, <1>23, <1>25

LEMMA ReadShape ==
    ASSUME StreamOK, TabOK, ReadEvents
    PROVE  TabOK'
<1>1. PICK n \in Nat :
              /\ ReadFrom + n <= Len(events) /\ ReadFrom \in Nat
              /\ tab' \in [at : {"check", "away"}, got : Seq(Nat), newest : BOOLEAN, from : Nat,
                            skipped : SUBSET (1 .. Len(events))]
              /\ Len(tab'.got) = Len(tab.got) + n
              /\ \A i \in 1 .. Len(tab.got) : tab'.got[i] = tab.got[i]
              /\ \A i \in 1 .. n : tab'.got[Len(tab.got) + i] = ReadFrom + i
  BY ReadArrives
<1>2. Len(tab.got) \in Nat /\ Len(events) \in Nat /\ events' = events
  BY DEF TabOK, TabStates, StreamOK, ReadEvents, chatRedis
<1>6. \A i \in 1 .. Len(tab.got) : tab.got[i] \in 1 .. Len(events)
  BY DEF TabOK
<1>3. ASSUME NEW i \in 1 .. Len(tab'.got)
      PROVE  tab'.got[i] \in 1 .. Len(events)
  <2>1. CASE i <= Len(tab.got)
    <3>1. i \in 1 .. Len(tab.got)
      BY <1>1, <1>2, <2>1
    <3> QED
      BY <1>1, <1>6, <3>1
  <2>2. CASE i > Len(tab.got)
    <3>0. i \in 1 .. Len(tab.got) + n
      BY <1>1
    <3>1. PICK k \in 1 .. n : i = Len(tab.got) + k
      <4>1. i - Len(tab.got) \in 1 .. n
        BY <1>2, <2>2, <3>0
      <4>2. i = Len(tab.got) + (i - Len(tab.got))
        BY <1>2, <3>0
      <4> QED
        BY <4>1, <4>2
    <3>2. tab'.got[i] = ReadFrom + k
      BY <1>1, <3>1
    <3> QED
      BY <1>1, <1>2, <3>1, <3>2
  <2> QED
    BY <1>2, <2>1, <2>2
<1>4. tab' \in TabStates /\ tab'.skipped \subseteq 1 .. Len(events)
  BY <1>1, <1>2 DEF TabStates, TabPlaces
<1>5. tab'.from <= Len(events)
  BY <1>2, ReadArrives
<1> QED
  BY <1>2, <1>3, <1>4, <1>5 DEF TabOK

\* The other steps of the browser bring nothing.
TabMoves ==
    /\ tab' \in TabStates /\ tab'.from <= Len(events)
    /\ tab'.got = tab.got /\ tab'.skipped = tab.skipped

LEMMA TabSteps ==
    ASSUME StreamOK, TabOK, Connect \/ WaitForNewer \/ CheckGenerating \/ Disconnect
    PROVE  TabMoves
<1>1. tab \in TabStates /\ Len(events) \in Nat /\ tab.from <= Len(events)
  BY DEF TabOK, StreamOK
<1> DEFINE Put(at, newest, from) ==
             [tab EXCEPT !.at = at, !.newest = newest, !.from = from]
<1>3. /\ {"away", "read", "waiting", "check", "closed"} = TabPlaces /\ tab.from \in Nat
      /\ tab.newest \in BOOLEAN
  BY <1>1 DEF TabPlaces, TabStates
<1>4. PICK nothing \in Nat : nothing = 0 /\ nothing <= Len(events)
  BY <1>1
<1>2. PICK at \in TabPlaces, newest \in BOOLEAN, from \in Nat :
         tab' = Put(at, newest, from) /\ from <= Len(events)
  <2>1. CASE Connect
    <3>1. PICK newest \in BOOLEAN :
             tab' = [tab EXCEPT !.at = IF newest THEN "check" ELSE "read", !.newest = newest]
      BY <2>1 DEF Connect
    <3>2. tab' = Put(IF newest THEN "check" ELSE "read", newest, tab.from)
      BY <1>1, <3>1 DEF TabStates
    <3>3. (IF newest THEN "check" ELSE "read") \in TabPlaces
      BY <1>3
    <3> HIDE DEF Put
    <3> QED
      BY <1>1, <1>3, <3>2, <3>3, Zenon
  <2>2. CASE WaitForNewer
    <3>1. tab' = Put("waiting", tab.newest, Len(events))
      BY <1>1, <2>2 DEF WaitForNewer, TabStates
    <3>2. "waiting" \in TabPlaces /\ Len(events) <= Len(events)
      BY <1>1, <1>3
    <3> HIDE DEF Put
    <3> QED
      BY <1>1, <1>3, <3>1, <3>2, Zenon
  <2>3. CASE CheckGenerating
    <3>1. \/ tab' = Put("read", tab.newest, tab.from)
          \/ tab' = Put("closed", FALSE, tab.from)
      BY <1>1, <2>3 DEF CheckGenerating, TabStates
    <3>2. {"read", "closed"} \subseteq TabPlaces /\ FALSE \in BOOLEAN
      BY <1>3
    <3> HIDE DEF Put
    <3> QED
      BY <1>1, <1>3, <3>1, <3>2, Zenon
  <2>4. CASE Disconnect
    <3>1. tab' = Put("away", FALSE, nothing)
      BY <1>1, <1>4, <2>4 DEF Disconnect, TabStates
    <3>2. "away" \in TabPlaces /\ FALSE \in BOOLEAN
      BY <1>3
    <3> HIDE DEF Put
    <3> QED
      BY <1>4, <3>1, <3>2, Zenon
  <2> QED
    BY <2>1, <2>2, <2>3, <2>4
<1> QED
  BY <1>1, <1>2 DEF TabStates, TabMoves

LEMMA ChatShapeStep == ChatShape /\ [ChatNext]_chatVars => ChatShape'
<1> SUFFICES ASSUME ChatShape, [ChatNext]_chatVars PROVE ChatShape'
  OBVIOUS
<1> USE DEF ChatShape
<1>0. Len(events) \in Nat
  BY DEF StreamOK
<1>1. ASSUME NEW g \in Gens, Moving(g)
      PROVE  ChatShape'
  <2>1. /\ gen'[g].text = gen[g].text /\ \A h \in Gens \ {g} : gen'[h] = gen[h]
        /\ gen' \in [Gens -> GenStates]
    BY <1>1, MovingSteps
  <2>2. /\ reply' \in [Gens -> Int] /\ reply'[g] \in NoReply .. gen[g].text
        /\ \A h \in Gens \ {g} : reply'[h] = reply[h]
    <3>1. CASE UNCHANGED reply
      BY <3>1 DEF GensOK
    <3>2. CASE Open(g) /\ reply' = [reply EXCEPT ![g] = 0]
      <4>1. gen[g].text \in Nat
        BY DEF GensOK, GenStates
      <4> QED
        BY <3>2, <4>1 DEF GensOK, NoReply
    <3> QED
      BY <1>1, <3>1, <3>2
         DEF Moving, SendMessage, SendFails, Open, AskAgain, SendDone, ClearGen, Leave,
             ModelFails
  <2>3. /\ lateCtx' \subseteq Gens /\ cancelSlot' \subseteq Gens
        /\ generating' \in BOOLEAN /\ mishap' \subseteq Gens
    BY <1>1
       DEF GensOK, Moving, SendMessage, SendFails, Open, AskAgain, SendDone, ClearGen, Leave,
           ModelFails
  <2>4. StreamOK' /\ TabOK' /\ Len(events') \in Nat /\ Len(events) <= Len(events')
    <3>1. CASE UNCHANGED <<events, dropped, ttl, tab>>
      BY <1>0, <3>1 DEF StreamOK, TabOK
    <3>2. CASE SendDone(g) \/ ModelFails(g)
      BY <3>2, PublishKeeps DEF SendDone, ModelFails
    <3>3. CASE ClearGen(g)
      BY <1>0, <3>3 DEF ClearGen, StreamOK, TabOK
    <3> QED
      BY <1>1, <3>1, <3>2, <3>3
         DEF Moving, SendMessage, SendFails, Open, AskAgain, Leave, chatRedis
  <2>5. \A h \in Gens : reply'[h] \in NoReply .. gen'[h].text /\ gen'[h].text <= Len(events')
    <3>0. \A h \in Gens : gen[h].text \in Nat
      BY DEF GensOK, GenStates
    <3>1. \A h \in Gens : gen'[h].text = gen[h].text /\ gen[h].text \in Nat
      BY <2>1, <3>0
    <3>2. \A h \in Gens : reply'[h] \in NoReply .. gen[h].text
      BY <2>2 DEF GensOK
    <3> QED
      BY <1>0, <2>4, <3>1, <3>2 DEF GensOK
  <2> QED
    BY <2>1, <2>2, <2>3, <2>4, <2>5 DEF GensOK
<1>2. ASSUME NEW g \in Gens, Ending(g)
      PROVE  ChatShape'
  <2>1. /\ gen'[g].text = gen[g].text /\ \A h \in Gens \ {g} : gen'[h] = gen[h]
        /\ gen' \in [Gens -> GenStates]
        /\ UNCHANGED <<lateCtx, cancelSlot, generating, tab, dropped, ttl, events>>
    BY <1>2, EndingSteps
  <2>2. PICK empty \in BOOLEAN : Save(g, empty)
    BY <1>2, EndingSteps
  <2>3. StreamOK' /\ TabOK' /\ Len(events') \in Nat /\ Len(events) <= Len(events')
    BY <1>0, <2>1 DEF StreamOK, TabOK
  <2>4. \A h \in Gens : reply'[h] \in NoReply .. gen'[h].text /\ gen'[h].text <= Len(events')
    <3>0. \A h \in Gens : gen[h].text \in Nat
      BY DEF GensOK, GenStates
    <3>1. \A h \in Gens : gen'[h].text = gen[h].text /\ gen[h].text \in Nat
      BY <2>1, <3>0
    <3>2. \A h \in Gens : reply'[h] \in NoReply .. gen[h].text
      BY <2>2, SaveKeeps DEF GensOK
    <3> QED
      BY <1>0, <2>3, <3>1, <3>2 DEF GensOK
  <2> QED
    BY <2>1, <2>2, <2>3, <2>4, SaveKeeps DEF GensOK
<1>3. ASSUME NEW g \in Gens, Text(g) \/ RunTools(g)
      PROVE  ChatShape'
  <2>0. gen[g] \in GenStates /\ gen[g].text \in Nat /\ gen[g].round \in Nat
        /\ gen[g].text <= Len(events)
    BY DEF GensOK, GenStates
  <2>1. StreamOK' /\ TabOK' /\ Len(events') = Len(events) + 1
    BY <1>3, WordSteps, PublishKeeps DEF Text, RunTools
  <2>2. gen' \in [Gens -> GenStates]
    <3>1. CASE Text(g)
      <4>1. gen' = [gen EXCEPT ![g] = [gen[g] EXCEPT !.text = gen[g].text + 1]]
        BY <3>1 DEF Text
      <4>2. gen[g].text + 1 \in 0 .. MaxEvents
        BY <1>0, <2>0, <3>1, ChatAssumption DEF Text, ChatAssumption
      <4>3. [gen[g] EXCEPT !.text = gen[g].text + 1] \in GenStates
        BY <2>0, <4>2 DEF GenStates
      <4> QED
        BY <4>1, <4>3 DEF GensOK
    <3>2. CASE RunTools(g)
      <4>1. gen' = [gen EXCEPT ![g] = [gen[g] EXCEPT !.at = "calling", !.round = gen[g].round + 1]]
        BY <3>2 DEF RunTools
      <4>2. gen[g].round + 1 \in 0 .. MaxRounds /\ "calling" \in Places
        BY <2>0, <3>2, ChatAssumption DEF RunTools, ChatAssumption, Places, Running
      <4>3. [gen[g] EXCEPT !.at = "calling", !.round = gen[g].round + 1] \in GenStates
        BY <2>0, <4>2 DEF GenStates
      <4> QED
        BY <4>1, <4>3 DEF GensOK
    <3> QED
      BY <1>3, <3>1, <3>2
  <2>3. reply' \in [Gens -> Int] /\ \A h \in Gens \ {g} : reply'[h] = reply[h]
    BY <1>3, <2>0 DEF Text, RunTools, GensOK, NoReply
  <2>4. reply'[g] \in NoReply .. gen'[g].text /\ gen'[g].text <= Len(events')
    <3>0. NoReply \in Int /\ NoReply < 0 /\ reply[g] \in NoReply .. gen[g].text
      BY DEF GensOK, NoReply
    <3>1. CASE Text(g)
      <4>1. gen'[g].text = gen[g].text + 1
        BY <1>3, <3>1, WordSteps
      <4>2. reply'[g] \in {reply[g], NoReply, gen[g].text + 1}
        BY <3>1 DEF Text, GensOK
      <4> QED
        BY <1>0, <2>0, <2>1, <3>0, <4>1, <4>2
    <3>2. CASE RunTools(g)
      <4>1. gen'[g].text = gen[g].text
        BY <1>3, <3>2, WordSteps
      <4>2. reply'[g] = reply[g]
        BY <3>2 DEF RunTools
      <4> QED
        BY <1>0, <2>0, <2>1, <3>0, <4>1, <4>2
    <3> QED
      BY <1>3, <3>1, <3>2
  <2>5. \A h \in Gens \ {g} : reply'[h] \in NoReply .. gen'[h].text /\ gen'[h].text <= Len(events')
    <3>1. \A h \in Gens \ {g} : gen'[h] = gen[h] /\ gen[h].text \in Nat
      BY <1>3, WordSteps DEF GensOK, GenStates
    <3> QED
      BY <1>0, <2>1, <2>3, <3>1 DEF GensOK
  <2> QED
    BY <1>3, <2>1, <2>2, <2>3, <2>4, <2>5 DEF GensOK, Text, RunTools
<1>4. CASE StopGeneration \/ ExpireStream \/ \E g \in Gens : Timeout(g)
  <2>1. UNCHANGED <<gen, reply, generating, events, tab, mishap>>
    BY <1>4 DEF StopGeneration, ExpireStream, Timeout, chatRedis, chatService
  <2>2. lateCtx' \subseteq Gens /\ cancelSlot' \subseteq Gens
    BY <1>4 DEF StopGeneration, ExpireStream, Timeout, chatService, GensOK
  <2>3. dropped' \in 0 .. Len(events) /\ ttl' \in BOOLEAN
    <3>1. CASE ExpireStream
      <4>1. dropped' = Len(events) /\ ttl' = FALSE
        BY <3>1 DEF ExpireStream
      <4>2. dropped' \in 0 .. Len(events)
        BY <1>0, <4>1
      <4>3. ttl' \in BOOLEAN
        BY <4>1
      <4> QED
        BY <4>2, <4>3
    <3>2. CASE UNCHANGED <<dropped, ttl>>
      BY <3>2 DEF StreamOK
    <3> QED
      BY <1>4, <3>1, <3>2 DEF StopGeneration, Timeout, chatRedis
  <2> QED
    BY <2>1, <2>2, <2>3 DEF GensOK, StreamOK, TabOK
<1>5. CASE Connect \/ WaitForNewer \/ CheckGenerating \/ Disconnect
  <2>1. UNCHANGED <<gen, reply, lateCtx, cancelSlot, generating, events, dropped, ttl, mishap>>
        /\ TabMoves
    BY <1>5, TabSteps DEF Connect, WaitForNewer, CheckGenerating, Disconnect, chatRedis, chatService
  <2> QED
    BY <2>1 DEF GensOK, StreamOK, TabOK, TabMoves
<1>6. CASE ReadEvents
  BY <1>6, ReadShape DEF ReadEvents, chatRedis, chatService, GensOK, StreamOK
<1>7. CASE UNCHANGED chatVars
  BY <1>7 DEF chatVars, chatService, chatRedis, GensOK, StreamOK, TabOK
<1> QED
  BY <1>1, <1>2, <1>3, <1>4, <1>5, <1>6, <1>7 DEF ChatNext, Moving, Ending

\* The calls, the stream and the browser stay well formed.
THEOREM ChatTypeCorrect == ChatSpec => []ChatTypeOK
  BY ShapeInit, ChatShapeStep, ShapeHasTypes, PTL DEF ChatSpec

-----------------------------------------------------------------------------
(* What the browser has.                                                   *)

Rising == \A i, j \in 1 .. Len(tab.got) : i < j => tab.got[i] < tab.got[j]

\* A read from "$" goes on where the stream ended, after what has arrived.
Asks == tab.at = "waiting" => LastGot <= tab.from /\ tab.newest

Known(e) == e \in tab.skipped \/ \E i \in 1 .. Len(tab.got) : tab.got[i] = e

InOrder == Rising /\ Asks /\ (dropped = 0 => \A e \in 1 .. LastGot : Known(e))

LEMMA OrderResumes == ChatShape /\ InOrder => ResumeInOrder
<1> SUFFICES ASSUME ChatShape, InOrder PROVE ResumeInOrder
  OBVIOUS
<1>1. tab.got \in Seq(Nat) /\ DOMAIN tab.got = 1 .. Len(tab.got)
  BY DEF ChatShape, TabOK, TabStates
<1> QED
  BY <1>1 DEF InOrder, Rising, Known, ResumeInOrder

LEMMA LastIsLargest ==
    ASSUME TabOK, Rising
    PROVE  /\ LastGot \in Nat /\ \A i \in 1 .. Len(tab.got) : tab.got[i] <= LastGot
           /\ Len(tab.got) > 0 => LastGot = tab.got[Len(tab.got)]
<1>1. tab.got \in Seq(Nat) /\ Len(tab.got) \in Nat
  BY DEF TabOK, TabStates
<1>2. CASE tab.got = <<>>
  BY <1>1, <1>2 DEF LastGot
<1>3. CASE tab.got # <<>>
  <2>1. Len(tab.got) \in 1 .. Len(tab.got) /\ LastGot = tab.got[Len(tab.got)]
    BY <1>1, <1>3 DEF LastGot
  <2>2. \A i \in 1 .. Len(tab.got) : tab.got[i] \in Nat
    BY <1>1
  <2> QED
    BY <1>1, <2>1, <2>2 DEF Rising
<1> QED
  BY <1>2, <1>3

\* Apart from ReadEvents nothing arrives, and events are dropped only all at once.
LEMMA OthersArrive ==
    ASSUME ChatShape, [ChatNext]_chatVars, ~ ReadEvents
    PROVE  /\ UNCHANGED tab \/ Connect \/ WaitForNewer \/ CheckGenerating \/ Disconnect
           /\ tab'.got = tab.got /\ tab'.skipped = tab.skipped /\ (dropped' = 0 => dropped = 0)
<1>1. dropped \in 0 .. Len(events)
  BY DEF ChatShape, StreamOK
<1>2. CASE UNCHANGED <<tab, dropped>>
  BY <1>2
<1>3. CASE ExpireStream
  BY <1>1, <1>3 DEF ExpireStream
<1>4. CASE Connect \/ WaitForNewer \/ CheckGenerating \/ Disconnect
  BY <1>4, TabSteps
     DEF Connect, WaitForNewer, CheckGenerating, Disconnect, chatRedis, ChatShape, TabMoves
<1>5. ASSUME NEW g \in Gens, Ending(g) \/ Text(g) \/ RunTools(g)
      PROVE  UNCHANGED <<tab, dropped>>
  BY <1>5, EndingSteps DEF ChatShape, Text, RunTools, Publish
<1> QED
  BY <1>2, <1>3, <1>4, <1>5
     DEF ChatNext, Ending, ModelFails, SendMessage, SendFails, Timeout, Open, AskAgain, SendDone, ClearGen,
         Leave, StopGeneration, Publish, chatRedis, chatVars

LEMMA Later ==
    ASSUME NEW from \in Nat, NEW length \in Nat, NEW i \in Nat, NEW j \in Nat, i < j
    PROVE  /\ from + (i - length) < from + (j - length)
           /\ j > length => from < from + (j - length)
  OBVIOUS

LEMMA OrderStep == ChatShape /\ InOrder /\ [ChatNext]_chatVars => InOrder'
<1> SUFFICES ASSUME ChatShape, InOrder, [ChatNext]_chatVars PROVE InOrder'
  OBVIOUS
<1>0. /\ tab \in TabStates /\ Len(tab.got) \in Nat /\ TabOK /\ StreamOK
      /\ \A i \in 1 .. Len(tab.got) : tab.got[i] \in Nat
  BY DEF ChatShape, TabOK, TabStates
<1>1. CASE ~ ReadEvents
  <2>1. /\ UNCHANGED tab \/ Connect \/ WaitForNewer \/ CheckGenerating \/ Disconnect
        /\ tab'.got = tab.got /\ tab'.skipped = tab.skipped /\ (dropped' = 0 => dropped = 0)
    BY <1>1, OthersArrive
  <2>2. LastGot' = LastGot
    BY <2>1 DEF LastGot
  <2>3. Asks'
    <3>1. CASE UNCHANGED tab
      BY <3>1 DEF InOrder, Asks, LastGot
    <3>2. CASE WaitForNewer
      <4>1. tab'.at = "waiting" /\ tab'.from = Len(events) /\ tab'.newest
        BY <1>0, <3>2 DEF WaitForNewer, TabStates
      <4>2. LastGot <= Len(events)
        BY <1>0 DEF LastGot, TabOK, StreamOK
      <4> QED
        BY <2>2, <4>1, <4>2 DEF InOrder, Asks
    <3>3. CASE Connect \/ CheckGenerating \/ Disconnect
      <4>1. tab'.at # "waiting"
        BY <1>0, <3>3 DEF Connect, CheckGenerating, Disconnect, TabStates
      <4> QED
        BY <4>1 DEF Asks
    <3> QED
      BY <2>1, <3>1, <3>2, <3>3
  <2> QED
    BY <2>1, <2>2, <2>3 DEF InOrder, Rising, Known
<1>2. CASE ReadEvents
  <2>1. dropped' = dropped /\ dropped \in 0 .. Len(events)
    BY <1>0, <1>2 DEF ReadEvents, chatRedis, StreamOK
  <2>2. /\ ReadFrom \in Nat /\ After \in Nat /\ After <= ReadFrom /\ LastGot \in Nat
    BY <1>0, <1>2, ReadArrives
  <2>3. PICK n \in Nat :
           /\ tab'.at \in {"check", "away"}
           /\ tab'.skipped = IF tab.newest /\ n > 0
                             THEN tab.skipped \union (LastGot + 1 .. tab.from)
                             ELSE tab.skipped
           /\ Len(tab'.got) = Len(tab.got) + n
           /\ \A i \in 1 .. Len(tab.got) : tab'.got[i] = tab.got[i]
           /\ \A i \in 1 .. n : tab'.got[Len(tab.got) + i] = ReadFrom + i
    <3>1. \E n \in Nat :
              /\ ReadFrom + n <= Len(events)
              /\ tab' \in [at : {"check", "away"}, got : Seq(Nat), newest : BOOLEAN, from : Nat,
                            skipped : SUBSET (1 .. Len(events))]
              /\ tab'.skipped = IF tab.newest /\ n > 0
                                THEN tab.skipped \union (LastGot + 1 .. tab.from)
                                ELSE tab.skipped
              /\ Len(tab'.got) = Len(tab.got) + n
              /\ \A i \in 1 .. Len(tab.got) : tab'.got[i] = tab.got[i]
              /\ \A i \in 1 .. n : tab'.got[Len(tab.got) + i] = ReadFrom + i
      BY <1>0, <1>2, ReadArrives
    <3>2. ASSUME tab' \in [at : {"check", "away"}, got : Seq(Nat), newest : BOOLEAN, from : Nat,
                            skipped : SUBSET (1 .. Len(events))]
          PROVE  tab'.at \in {"check", "away"}
      BY <3>2
    <3> QED
      BY <3>1, <3>2, Zenon
  <2>4. LastGot <= After /\ (tab.at = "waiting" => After = tab.from /\ tab.newest)
        /\ (tab.at # "waiting" => After = LastGot)
    BY <2>2 DEF InOrder, Asks, After
  <2>5. \A i \in 1 .. Len(tab.got) : tab.got[i] <= LastGot
    BY <1>0, LastIsLargest DEF InOrder
  <2>6. \A i \in 1 .. Len(tab.got) + n :
           \/ i \in 1 .. Len(tab.got)
           \/ i - Len(tab.got) \in 1 .. n /\ i = Len(tab.got) + (i - Len(tab.got))
    BY <1>0
  <2>7. \A i \in 1 .. Len(tab.got) + n :
           \/ i \in 1 .. Len(tab.got) /\ tab'.got[i] = tab.got[i]
           \/ i > Len(tab.got) /\ tab'.got[i] = ReadFrom + (i - Len(tab.got))
    <3> SUFFICES ASSUME NEW i \in 1 .. Len(tab.got) + n, i \notin 1 .. Len(tab.got)
                 PROVE  i > Len(tab.got) /\ tab'.got[i] = ReadFrom + (i - Len(tab.got))
      BY <2>3
    <3>1. PICK k \in 1 .. n : i = Len(tab.got) + k /\ k = i - Len(tab.got)
      BY <2>6
    <3>2. tab'.got[i] = ReadFrom + k
      BY <2>3, <3>1
    <3> QED
      BY <1>0, <3>1, <3>2
  <2>11. \A i \in 1 .. Len(tab.got) + n : tab'.got[i] \in Nat
    <3>1. tab'.got \in Seq(Nat)
      BY <1>0, <1>2, ReadShape DEF TabOK, TabStates
    <3> QED
      BY <2>3, <3>1
  <2>8. Rising'
    <3> SUFFICES ASSUME NEW i \in 1 .. Len(tab.got) + n, NEW j \in 1 .. Len(tab.got) + n, i < j
                 PROVE  tab'.got[i] < tab'.got[j]
      BY <2>3 DEF Rising
    <3>1. CASE j \in 1 .. Len(tab.got)
      <4>1. i \in 1 .. Len(tab.got)
        BY <1>0, <3>1
      <4> QED
        BY <2>3, <3>1, <4>1 DEF InOrder, Rising
    <3>2. CASE j \notin 1 .. Len(tab.got)
      <4>1. j > Len(tab.got) /\ tab'.got[j] = ReadFrom + (j - Len(tab.got))
        BY <2>7, <3>2
      <4>0. i \in Nat /\ j \in Nat
        BY <1>0
      <4>4. PICK length \in Nat, from \in Nat, there \in Nat :
               length = Len(tab.got) /\ from = ReadFrom /\ there = tab'.got[j]
        BY <1>0, <2>2, <2>11
      <4>5. there = from + (j - length) /\ j > length
        BY <4>1, <4>4
      <4>2. CASE i \in 1 .. Len(tab.got)
        <5>1. tab'.got[i] = tab.got[i] /\ tab.got[i] <= LastGot /\ tab.got[i] \in Nat
          BY <1>0, <2>3, <2>5, <4>2
        <5>2. tab'.got[i] \in Nat /\ tab'.got[i] <= from
          BY <2>2, <2>4, <4>4, <5>1
        <5>3. there > from
          <6>1. from < from + (j - length)
            BY <4>0, <4>5, Later
          <6> QED
            BY <4>5, <6>1
        <5> QED
          BY <4>4, <5>2, <5>3
      <4>3. CASE i \notin 1 .. Len(tab.got)
        <5>1. tab'.got[i] = ReadFrom + (i - Len(tab.got))
          BY <2>7, <4>3
        <5>2. PICK here \in Nat : here = tab'.got[i]
          BY <2>11
        <5>3. here = from + (i - length)
          BY <4>4, <5>1, <5>2
        <5>4. here < there
          <6>1. from + (i - length) < from + (j - length)
            BY <4>0, Later
          <6> QED
            BY <4>5, <5>3, <6>1
        <5> QED
          BY <4>4, <5>2, <5>4
      <4> QED
        BY <4>2, <4>3
    <3> QED
      BY <3>1, <3>2
  <2>9. Asks'
    BY <2>2, <2>3 DEF InOrder, Asks
  <2>10. ASSUME dropped' = 0
         PROVE  \A e \in 1 .. LastGot' : Known(e)'
    <3>1. \A e \in 1 .. LastGot : Known(e)
      BY <2>1, <2>10 DEF InOrder
    <3>2. \A e \in 1 .. LastGot : Known(e)'
      <4> SUFFICES ASSUME NEW e \in 1 .. LastGot PROVE Known(e)'
        OBVIOUS
      <4>1. CASE e \in tab.skipped
        BY <2>3, <4>1 DEF Known
      <4>2. CASE e \notin tab.skipped
        <5>1. PICK i \in 1 .. Len(tab.got) : tab.got[i] = e
          BY <3>1, <4>2 DEF Known
        <5>2. tab'.got[i] = e /\ i \in 1 .. Len(tab'.got)
          BY <1>0, <2>3, <5>1
        <5> QED
          BY <5>2 DEF Known
      <4> QED
        BY <4>1, <4>2
    <3>3. CASE n = 0
      <4>1. Len(tab'.got) = Len(tab.got) /\ TabOK' /\ Len(tab'.got) \in Nat
        BY <1>0, <1>2, <2>3, <3>3, ReadShape
      <4>2. LastGot' = LastGot
        <5>1. tab'.got \in Seq(Nat) /\ tab.got \in Seq(Nat)
          BY <1>0, <4>1 DEF TabOK, TabStates
        <5>2. CASE Len(tab.got) = 0
          BY <4>1, <5>1, <5>2 DEF LastGot
        <5>3. CASE Len(tab.got) # 0
          BY <1>0, <2>3, <4>1, <5>1, <5>3 DEF LastGot
        <5> QED
          BY <5>2, <5>3
      <4> QED
        BY <3>2, <4>2
    <3>4. CASE n # 0
      <4>1. ReadFrom = After
        BY <2>1, <2>2, <2>10 DEF ReadFrom
      <4>2. LastGot' = After + n
        <5>1. TabOK' /\ Len(tab'.got) > 0 /\ n \in 1 .. n
          BY <1>0, <1>2, <2>3, <3>4, ReadShape
        <5>2. LastGot' = tab'.got[Len(tab.got) + n]
          BY <1>0, <2>3, <5>1 DEF LastGot
        <5> QED
          BY <2>3, <4>1, <5>1, <5>2
      <4> SUFFICES ASSUME NEW e \in 1 .. After + n PROVE Known(e)'
        BY <4>2
      <4>3. CASE e \in 1 .. LastGot
        BY <3>2, <4>3
      <4>4. CASE e \notin 1 .. LastGot /\ e <= After
        <5>1. tab.at = "waiting" /\ After = tab.from /\ tab.newest /\ n > 0
          BY <2>2, <2>4, <3>4, <4>4
        <5>2. e \in LastGot + 1 .. tab.from
          BY <2>2, <4>4, <5>1
        <5>3. tab'.skipped = tab.skipped \union (LastGot + 1 .. tab.from)
          BY <2>3, <5>1
        <5> QED
          BY <5>2, <5>3 DEF Known
      <4>5. CASE e > After
        <5>1. PICK k \in 1 .. n : e = After + k
          <6>1. e - After \in 1 .. n /\ e = After + (e - After)
            BY <2>2, <4>5
          <6> QED
            BY <6>1
        <5>2. tab'.got[Len(tab.got) + k] = e /\ Len(tab.got) + k \in 1 .. Len(tab'.got)
          BY <1>0, <2>3, <4>1, <5>1
        <5> QED
          BY <5>2 DEF Known
      <4> QED
        BY <2>2, <4>3, <4>4, <4>5
    <3> QED
      BY <3>3, <3>4
  <2> QED
    BY <2>8, <2>9, <2>10 DEF InOrder
<1> QED
  BY <1>1, <1>2

\* Disconnects and resumptions in any number bring nothing twice and nothing out
\* of order, and leave no gap in what the browser has until the stream expires,
\* apart from what connections from "$" skip before their first event.
THEOREM ResumesInOrder == ChatSpec => []ResumeInOrder
<1>1. ChatInit => InOrder
  <2> SUFFICES ASSUME ChatInit PROVE InOrder
    OBVIOUS
  <2>1. tab.got = <<>> /\ Len(tab.got) = 0 /\ tab.at = "away" /\ tab.newest = FALSE
    BY DEF ChatInit
  <2>2. LastGot = 0
    BY <2>1 DEF LastGot
  <2> QED
    BY <2>1, <2>2 DEF InOrder, Rising, Asks
<1> QED
  BY <1>1, ShapeInit, ChatShapeStep, OrderStep, OrderResumes, PTL DEF ChatSpec

-----------------------------------------------------------------------------
(* What is saved, and who is told.                                         *)

Busy == {"reading", "calling", "failed", "done", "clear"}
Over == {"leaving", "ended"}

\* The flag is up while a call that shares it with nobody is at work.
FlagUp == \A g \in Gens \ mishap : gen[g].at \in Busy => generating

\* Calls that run at the same time are known to overlap.
OverlapsKnown ==
    \A g, h \in Gens :
        g # h /\ gen[g].at \in Running /\ gen[h].at \in Running => g \in mishap /\ h \in mishap

\* A call that has yet to begin has nothing, one that reads has its message.
Placeholders ==
    /\ \A g \in Gens : gen[g].at \in {"new", "started"} => gen[g].text = 0 /\ reply[g] = NoReply
    /\ \A g \in Gens \ mishap :
          gen[g].at \in {"reading", "calling", "failed"} => reply[g] # NoReply

\* From its last write on, what a call has read is saved.
KeptSaved == \A g \in Gens \ mishap : gen[g].at \in {"done", "clear"} \union Over => Saved(g)

\* Events are of calls that have begun.
Owners == \A i \in 1 .. Len(events) : gen[events[i]].at \notin {"new", "started"}

ToldEnded ==
    tab.at = "closed" =>
        \A i \in 1 .. Len(tab.got) :
            LET g == events[tab.got[i]] IN g \in mishap \/ gen[g].at \in Over

SavedInv == FlagUp /\ OverlapsKnown /\ Placeholders /\ KeptSaved /\ Owners /\ ToldEnded

LEMMA SavedInvHolds == ChatShape /\ SavedInv => SavedBeforeTold
<1> SUFFICES ASSUME ChatShape, SavedInv PROVE RepliesSaved /\ EndMeansSaved
  BY DEF SavedBeforeTold
<1>1. RepliesSaved
  BY DEF RepliesSaved, SavedInv, KeptSaved, Over
<1>2. EndMeansSaved
  <2>1. events \in Seq(Gens) /\ DOMAIN tab.got = 1 .. Len(tab.got)
        /\ \A i \in 1 .. Len(tab.got) : tab.got[i] \in 1 .. Len(events)
    BY DEF ChatShape, StreamOK, TabOK
  <2>2. \A i \in 1 .. Len(tab.got) : events[tab.got[i]] \in Gens
    BY <2>1
  <2> QED
    BY <2>1, <2>2 DEF EndMeansSaved, SavedInv, ToldEnded, KeptSaved
<1> QED
  BY <1>1, <1>2

\* Calls stay begun and ended, and what the browser was told stays true.
LEMMA ToldStays ==
    ASSUME ChatShape, Owners, ToldEnded, ChatShape', mishap \subseteq mishap',
           tab' = tab, NEW g \in Gens, events' = events \/ Publish(g),
           events' # events => gen'[g].at \notin {"new", "started"},
           \A h \in Gens \ {g} : gen'[h] = gen[h],
           gen'[g].at \in {"new", "started"} => gen[g].at \in {"new", "started"},
           gen[g].at \in Over => gen'[g].at \in Over
    PROVE  Owners' /\ ToldEnded'
<1>1. /\ Len(events) \in Nat /\ \A i \in 1 .. Len(events) : events[i] \in Gens
      /\ \A i \in 1 .. Len(tab.got) : tab.got[i] \in 1 .. Len(events)
  BY DEF ChatShape, StreamOK, TabOK
<1>2. /\ \A i \in 1 .. Len(events) : events'[i] = events[i]
      /\ \/ events' = events
         \/ Len(events') = Len(events) + 1 /\ events'[Len(events) + 1] = g
  BY PublishKeeps DEF ChatShape
<1>3. Owners'
  <2> SUFFICES ASSUME NEW i \in 1 .. Len(events')
               PROVE  gen'[events'[i]].at \notin {"new", "started"}
    BY DEF Owners
  <2>1. CASE i \in 1 .. Len(events)
    BY <1>1, <1>2, <2>1 DEF Owners
  <2>2. CASE i \notin 1 .. Len(events)
    <3>1. events' # events
      BY <2>2
    <3>2. i = Len(events) + 1
      BY <1>1, <1>2, <2>2, <3>1
    <3> QED
      BY <1>2, <3>1, <3>2
  <2> QED
    BY <2>1, <2>2
<1>4. ToldEnded'
  <2> SUFFICES ASSUME tab.at = "closed", NEW i \in 1 .. Len(tab.got)
               PROVE  \/ events'[tab.got[i]] \in mishap'
                      \/ gen'[events'[tab.got[i]]].at \in Over
    BY DEF ToldEnded
  <2>1. events'[tab.got[i]] = events[tab.got[i]] /\ events[tab.got[i]] \in Gens
    BY <1>1, <1>2
  <2> QED
    BY <2>1 DEF ToldEnded
<1> QED
  BY <1>3, <1>4

\* What a step of one call must see to.
LEMMA OneCallMoves ==
    ASSUME ChatShape, SavedInv, ChatShape', NEW g \in Gens,
           mishap \subseteq mishap', tab' = tab,
           \A h \in Gens \ {g} : gen'[h] = gen[h] /\ reply'[h] = reply[h],
           \/ generating'
           \/ generating' = generating /\ (gen'[g].at \in Busy => gen[g].at \in Busy)
           \/ gen[g].at \in Running /\ gen'[g].at \notin Busy,
           \/ gen'[g].at \notin Running \/ gen[g].at \in Running
           \/ \A h \in Gens \ {g} : gen[h].at \in Running => {g, h} \subseteq mishap',
           gen'[g].at \in {"new", "started"} =>
               /\ gen[g].at \in {"new", "started"}
               /\ gen'[g].text = 0 /\ reply'[g] = NoReply,
           g \notin mishap' /\ gen'[g].at \in {"reading", "calling", "failed"} => reply'[g] # NoReply,
           g \notin mishap' /\ gen'[g].at \in {"done", "clear"} \union Over => Saved(g)',
           events' = events \/ (Publish(g) /\ gen'[g].at \notin {"new", "started"}),
           gen[g].at \in Over => gen'[g].at \in Over
    PROVE  SavedInv'
<1> USE DEF SavedInv
<1>1. Owners' /\ ToldEnded'
  BY ToldStays
<1>2. ASSUME NEW h \in Gens \ mishap', gen'[h].at \in Busy
      PROVE  generating'
  <2>1. h \notin mishap
    OBVIOUS
  <2>2. CASE h = g
    BY <1>2, <2>1, <2>2 DEF FlagUp
  <2>3. CASE h # g
    <3>1. gen[h].at \in Busy /\ generating /\ gen[h].at \in Running
      BY <1>2, <2>1, <2>3 DEF FlagUp, Busy, Running
    <3>2. ~ (gen[g].at \in Running)
      BY <2>1, <2>3, <3>1 DEF OverlapsKnown
    <3> QED
      BY <3>1, <3>2
  <2> QED
    BY <2>2, <2>3
<1>3. ASSUME NEW h \in Gens, NEW k \in Gens, h # k,
             gen'[h].at \in Running, gen'[k].at \in Running
      PROVE  h \in mishap' /\ k \in mishap'
  BY <1>3 DEF OverlapsKnown
<1>4. Placeholders'
  <2>1. ASSUME NEW h \in Gens, gen'[h].at \in {"new", "started"}
        PROVE  gen'[h].text = 0 /\ reply'[h] = NoReply
    BY <2>1 DEF Placeholders
  <2>2. ASSUME NEW h \in Gens \ mishap', gen'[h].at \in {"reading", "calling", "failed"}
        PROVE  reply'[h] # NoReply
    BY <2>2 DEF Placeholders
  <2> QED
    BY <2>1, <2>2 DEF Placeholders, NoReply
<1>5. ASSUME NEW h \in Gens \ mishap', gen'[h].at \in {"done", "clear"} \union Over
      PROVE  Saved(h)'
  <2>1. CASE h = g
    BY <1>5, <2>1
  <2>2. CASE h # g
    <3>1. gen'[h] = gen[h] /\ reply'[h] = reply[h] /\ h \notin mishap
      BY <2>2
    <3>2. Saved(h)
      BY <1>5, <3>1 DEF KeptSaved
    <3> QED
      BY <3>1, <3>2 DEF Saved, NoReply
  <2> QED
    BY <2>1, <2>2
<1>6. FlagUp' /\ OverlapsKnown' /\ KeptSaved'
  BY <1>2, <1>3, <1>5 DEF FlagUp, OverlapsKnown, KeptSaved, Busy, Over, Running
<1> QED
  BY <1>1, <1>4, <1>6

LEMMA MovingKeepsSaved ==
    ASSUME ChatShape, SavedInv, ChatShape', NEW g \in Gens, Moving(g)
    PROVE  SavedInv'
<1>1. /\ gen'[g].text = gen[g].text /\ gen'[g].round = gen[g].round
      /\ \A h \in Gens \ {g} : gen'[h] = gen[h]
      /\ \/ SendMessage(g) /\ gen[g].at = "new" /\ gen'[g].at = "started"
         \/ SendFails(g) /\ gen[g].at = "new" /\ gen'[g].at = "ended"
         \/ Open(g) /\ gen[g].at = "started" /\ gen'[g].at = "reading"
         \/ AskAgain(g) /\ gen[g].at = "calling" /\ gen'[g].at = "reading"
         \/ SendDone(g) /\ gen[g].at = "done" /\ gen'[g].at = "clear"
         \/ ClearGen(g) /\ gen[g].at = "clear" /\ gen'[g].at = "leaving"
         \/ Leave(g) /\ gen[g].at = "leaving" /\ gen'[g].at = "ended"
         \/ ModelFails(g) /\ gen[g].at \in {"reading", "calling"} /\ gen'[g].at = "failed"
  BY MovingSteps DEF ChatShape
<1>2. /\ mishap \subseteq mishap' /\ tab' = tab
      /\ \A h \in Gens \ {g} : reply'[h] = reply[h]
  BY DEF Moving, SendMessage, SendFails, Open, AskAgain, SendDone, ClearGen, Leave, ModelFails,
         ChatShape, GensOK
<1>3. CASE SendMessage(g) /\ gen[g].at = "new" /\ gen'[g].at = "started"
  <2>1. \A h \in Gens \ {g} : gen[h].at \in Running => {g, h} \subseteq mishap'
    BY <1>3 DEF SendMessage
  <2>2. gen'[g].text = 0 /\ reply'[g] = NoReply /\ UNCHANGED <<generating, events>>
    BY <1>1, <1>3 DEF SendMessage, chatRedis, SavedInv, Placeholders
  <2> QED
    BY <1>1, <1>2, <1>3, <2>1, <2>2, OneCallMoves DEF Busy, Over
<1>4. CASE SendFails(g) /\ gen[g].at = "new" /\ gen'[g].at = "ended"
  <2>1. gen'[g].text = 0 /\ reply'[g] = NoReply /\ UNCHANGED <<generating, events>>
    BY <1>1, <1>4 DEF SendFails, chatRedis, SavedInv, Placeholders
  <2>2. Saved(g)'
    BY <2>1 DEF Saved, NoReply
  <2> QED
    BY <1>1, <1>2, <1>4, <2>1, <2>2, OneCallMoves DEF Busy, Over, Running
<1>5. CASE Open(g) /\ gen[g].at = "started" /\ gen'[g].at = "reading"
  <2>1. g \notin mishap' => reply'[g] # NoReply
    BY <1>5 DEF Open, ChatShape, GensOK, NoReply
  <2>2. generating' /\ events' = events
    BY <1>5 DEF Open, chatRedis
  <2> QED
    BY <1>1, <1>2, <1>5, <2>1, <2>2, OneCallMoves DEF Over, Running
<1>6. CASE AskAgain(g) /\ gen[g].at = "calling" /\ gen'[g].at = "reading"
  <2>1. UNCHANGED <<reply, generating, events, mishap>>
    BY <1>6 DEF AskAgain, chatRedis
  <2>2. g \notin mishap' => reply'[g] # NoReply
    BY <1>6, <2>1 DEF SavedInv, Placeholders
  <2> QED
    BY <1>1, <1>2, <1>6, <2>1, <2>2, OneCallMoves DEF Busy, Over, Running
<1>7. CASE \/ SendDone(g) /\ gen[g].at = "done" /\ gen'[g].at = "clear"
           \/ ClearGen(g) /\ gen[g].at = "clear" /\ gen'[g].at = "leaving"
           \/ Leave(g) /\ gen[g].at = "leaving" /\ gen'[g].at = "ended"
  <2>1. UNCHANGED <<reply, mishap>>
    BY <1>7 DEF SendDone, ClearGen, Leave
  <2>2. g \notin mishap' => Saved(g)'
    <3>1. g \notin mishap => Saved(g)
      BY <1>7 DEF SavedInv, KeptSaved, Over
    <3> QED
      BY <1>1, <2>1, <3>1 DEF Saved, NoReply
  <2>3. \/ generating' = generating /\ (gen'[g].at \in Busy => gen[g].at \in Busy)
        \/ gen[g].at \in Running /\ gen'[g].at \notin Busy
    BY <1>7 DEF SendDone, Leave, Busy, Running
  <2>4. events' = events \/ (Publish(g) /\ gen'[g].at \notin {"new", "started"})
    BY <1>7 DEF SendDone, ClearGen, Leave, chatRedis
  <2>5. gen'[g].at \in {"clear", "leaving", "ended"} /\ gen[g].at \in Running
    BY <1>7 DEF Running
  <2>6. gen[g].at \in Over => gen'[g].at \in Over
    BY <1>7 DEF Over
  <2> QED
    BY <1>1, <1>2, <2>2, <2>3, <2>4, <2>5, <2>6, OneCallMoves
<1>8. CASE ModelFails(g) /\ gen[g].at \in {"reading", "calling"} /\ gen'[g].at = "failed"
  <2>1. UNCHANGED <<reply, generating, mishap>> /\ Publish(g)
    BY <1>8 DEF ModelFails
  <2>2. g \notin mishap' => reply'[g] # NoReply
    BY <1>8, <2>1 DEF SavedInv, Placeholders
  <2>3. gen[g].at \in Busy /\ gen[g].at \in Running /\ gen[g].at \notin Over
    BY <1>8 DEF Busy, Over, Running
  <2>4. gen'[g].at \notin {"done", "clear"} \union Over /\ gen'[g].at \notin {"new", "started"}
    BY <1>8 DEF Over
  <2> QED
    BY <1>1, <1>2, <2>1, <2>2, <2>3, <2>4, OneCallMoves
<1> QED
  BY <1>1, <1>3, <1>4, <1>5, <1>6, <1>7, <1>8

\* The last writes save what has been read.
LEMMA EndingKeepsSaved ==
    ASSUME ChatShape, SavedInv, ChatShape', NEW g \in Gens, Ending(g)
    PROVE  SavedInv'
<1>1. /\ gen'[g].text = gen[g].text /\ gen'[g].round = gen[g].round
      /\ \A h \in Gens \ {g} : gen'[h] = gen[h]
      /\ gen[g].at \in {"reading", "failed"} /\ gen'[g].at \in {"leaving", "done"}
      /\ UNCHANGED <<generating, tab, events>>
  BY EndingSteps DEF ChatShape, From
<1>2. PICK empty \in BOOLEAN :
         /\ Save(g, empty) /\ (empty => gen[g].text = 0)
         /\ gen[g].text = 0 => empty \/ gen[g].round # 0
  BY EndingSteps DEF ChatShape
<1>3. /\ mishap \subseteq mishap' /\ \A h \in Gens \ {g} : reply'[h] = reply[h]
  BY <1>2, SaveKeeps DEF ChatShape
<1>4. g \notin mishap' => Saved(g)'
  <2> SUFFICES ASSUME g \notin mishap' PROVE Saved(g)'
    OBVIOUS
  <2>1. reply[g] # NoReply
    BY <1>1, <1>3 DEF SavedInv, Placeholders
  <2>2. reply'[g] = IF empty THEN NoReply ELSE gen[g].text
    BY <1>2, <2>1 DEF Save, ChatShape, GensOK
  <2>3. gen[g].round \in Nat
    BY DEF ChatShape, GensOK, GenStates
  <2>4. CASE gen[g].text = 0
    BY <1>1, <1>2, <2>2, <2>3, <2>4 DEF Saved, NoReply
  <2>5. CASE gen[g].text # 0
    BY <1>1, <1>2, <2>2, <2>5 DEF Saved, NoReply
  <2> QED
    BY <2>4, <2>5
<1>5. gen'[g].at \in Busy => gen[g].at \in Busy
  BY <1>1 DEF Busy
<1>6. gen[g].at \in Running /\ gen[g].at \notin Over
  BY <1>1 DEF Running, Over
<1> QED
  BY <1>1, <1>3, <1>4, <1>5, <1>6, OneCallMoves

LEMMA WordKeepsSaved ==
    ASSUME ChatShape, SavedInv, ChatShape', NEW g \in Gens, Text(g) \/ RunTools(g)
    PROVE  SavedInv'
<1>1. /\ gen[g].at = "reading" /\ gen'[g].at \in {"reading", "calling"} /\ Publish(g)
      /\ \A h \in Gens \ {g} : gen'[h] = gen[h]
  BY WordSteps DEF ChatShape
<1>2. UNCHANGED <<generating, tab, mishap>>
  BY DEF Text, RunTools
<1>3. \A h \in Gens \ {g} : reply'[h] = reply[h]
  BY DEF Text, RunTools, ChatShape, GensOK
<1>4. g \notin mishap' => reply'[g] # NoReply
  <2>1. g \notin mishap => reply[g] # NoReply
    BY <1>1 DEF SavedInv, Placeholders
  <2>2. gen[g].text \in Nat /\ NoReply \notin Nat
    BY DEF ChatShape, GensOK, GenStates, NoReply
  <2>3. \/ reply'[g] = reply[g]
        \/ reply'[g] = IF reply[g] = NoReply THEN reply[g] ELSE gen[g].text + 1
    <3>1. g \in DOMAIN reply
      BY DEF ChatShape, GensOK
    <3> QED
      BY <3>1 DEF Text, RunTools
  <2> QED
    BY <1>2, <2>1, <2>2, <2>3
<1>5. gen[g].at \in Busy /\ gen[g].at \in Running /\ gen[g].at \notin Over
  BY <1>1 DEF Busy, Running, Over
<1>6. gen'[g].at \notin {"done", "clear"} \union Over
  BY <1>1 DEF Over
<1> QED
  BY <1>1, <1>2, <1>3, <1>4, <1>5, <1>6, OneCallMoves

\* The browser hears that generations have ended when the flag is down.
LEMMA TabKeepsSaved ==
    ASSUME ChatShape, SavedInv, Connect \/ WaitForNewer \/ ReadEvents \/ CheckGenerating \/ Disconnect
    PROVE  SavedInv'
<1>1. UNCHANGED <<gen, reply, generating, events, mishap>>
  BY DEF Connect, WaitForNewer, ReadEvents, CheckGenerating, Disconnect, chatRedis, chatService
<1>2. FlagUp' /\ OverlapsKnown' /\ Placeholders' /\ Owners'
  BY <1>1 DEF SavedInv, FlagUp, OverlapsKnown, Placeholders, Owners
<1>3. KeptSaved'
  BY <1>1 DEF SavedInv, KeptSaved, Saved
<1>4. ToldEnded'
  <2>1. CASE tab'.at # "closed"
    BY <2>1 DEF ToldEnded
  <2>2. CASE tab'.at = "closed"
    <3>1. /\ tab \in TabStates /\ \A i \in 1 .. Len(tab.got) : tab.got[i] \in 1 .. Len(events)
      BY DEF ChatShape, TabOK
    <3>2. ~ generating /\ tab'.got = tab.got
      <4>1. CASE CheckGenerating
        BY <2>2, <3>1, <4>1 DEF CheckGenerating, TabStates
      <4>2. CASE ReadEvents
        <5>1. \E n \in Nat :
                 tab' \in [at : {"check", "away"}, got : Seq(Nat), newest : BOOLEAN, from : Nat,
                          skipped : SUBSET (1 .. Len(events))]
          BY <4>2, ReadArrives DEF ChatShape
        <5> QED
          BY <2>2, <5>1
      <4>3. CASE Connect
        <5>1. PICK newest \in BOOLEAN :
                 tab' = [tab EXCEPT !.at = IF newest THEN "check" ELSE "read", !.newest = newest]
          BY <4>3 DEF Connect
        <5>2. tab'.at = IF newest THEN "check" ELSE "read"
          BY <3>1, <5>1 DEF TabStates
        <5> QED
          BY <2>2, <5>2
      <4>4. CASE WaitForNewer
        BY <2>2, <3>1, <4>4 DEF WaitForNewer, TabStates
      <4>5. CASE Disconnect
        <5>1. tab'.at = "away"
          BY <3>1, <4>5 DEF Disconnect, TabStates
        <5> QED
          BY <2>2, <5>1
      <4> QED
        BY <4>1, <4>2, <4>3, <4>4, <4>5
    <3> SUFFICES ASSUME NEW i \in 1 .. Len(tab.got)
                 PROVE  events[tab.got[i]] \in mishap \/ gen[events[tab.got[i]]].at \in Over
      BY <1>1, <3>2 DEF ToldEnded
    <3>3. events[tab.got[i]] \in Gens /\ gen[events[tab.got[i]]].at \notin {"new", "started"}
      BY <3>1 DEF SavedInv, Owners, ChatShape, StreamOK
    <3>4. events[tab.got[i]] \notin mishap => gen[events[tab.got[i]]].at \notin Busy
      BY <3>2, <3>3 DEF SavedInv, FlagUp
    <3>5. gen[events[tab.got[i]]].at \in Places
      BY <3>3 DEF ChatShape, GensOK, GenStates
    <3> QED
      BY <3>3, <3>4, <3>5 DEF Places, Running, Busy, Over
  <2> QED
    BY <2>1, <2>2
<1> QED
  BY <1>2, <1>3, <1>4 DEF SavedInv

LEMMA SavedInvStep == ChatShape /\ SavedInv /\ [ChatNext]_chatVars => SavedInv'
<1> SUFFICES ASSUME ChatShape, SavedInv, [ChatNext]_chatVars PROVE SavedInv'
  OBVIOUS
<1>1. ChatShape'
  BY ChatShapeStep
<1>2. ASSUME UNCHANGED <<gen, reply, generating, events, tab, mishap>>
      PROVE  SavedInv'
  BY <1>2 DEF SavedInv, FlagUp, OverlapsKnown, Placeholders, KeptSaved, Saved, Owners, ToldEnded
<1>3. CASE \/ StopGeneration \/ ExpireStream \/ UNCHANGED chatVars
           \/ \E g \in Gens : Timeout(g)
  BY <1>2, <1>3
     DEF StopGeneration, ExpireStream, Timeout, chatVars, chatService, chatRedis
<1> QED
  BY <1>1, <1>3, MovingKeepsSaved, EndingKeepsSaved, WordKeepsSaved, TabKeepsSaved
     DEF ChatNext, Moving, Ending

\* What a generation has written is saved when it says that it is done and when
\* it leaves, whichever way it ends, and before a browser hears stream_end, unless
\* calls overlapped or the write failed.
THEOREM SavedBeforeToldAlways == ChatSpec => []SavedBeforeTold
<1>1. ChatInit => SavedInv
  <2> SUFFICES ASSUME ChatInit PROVE SavedInv
    OBVIOUS
  <2>1. \A g \in Gens : gen[g].at = "new" /\ gen[g].text = 0 /\ reply[g] = NoReply
    BY DEF ChatInit
  <2>2. events = <<>> /\ Len(events) = 0 /\ tab.at = "away"
    BY DEF ChatInit
  <2>3. FlagUp /\ OverlapsKnown /\ KeptSaved
    BY <2>1 DEF FlagUp, OverlapsKnown, KeptSaved, Busy, Over, Running
  <2>4. Placeholders
    BY <2>1 DEF Placeholders
  <2>5. Owners /\ ToldEnded
    BY <2>2 DEF Owners, ToldEnded
  <2> QED
    BY <2>3, <2>4, <2>5 DEF SavedInv
<1> QED
  BY <1>1, ShapeInit, ChatShapeStep, SavedInvStep, SavedInvHolds, PTL DEF ChatSpec
=============================================================================
