---------------------------- MODULE PresenceProofs ----------------------------
(***************************************************************************)
(* What holds of the instance as a person meets it for any number of       *)
(* sessions, notifications, presses and troubles: no button outlives its   *)
(* question, and a press about a question that is held is missed only      *)
(* between the service's having shown it and its number's being recorded.  *)
(***************************************************************************)
EXTENDS Presence, TLAPS

Backs == {"turn", "stay", "settling", "answers"}

(***************************************************************************)
(* Signals in a row.                                                       *)
(***************************************************************************)
\* Two signals at the end, one at the end, and one from the front.
LEMMA TwoMore ==
    ASSUME NEW q \in Seq(Signal), NEW a \in Signal, NEW b \in Signal, NEW r, r = q \o <<a, b>>
    PROVE  /\ r \in Seq(Signal)
           /\ DOMAIN q = 1 .. Len(q) /\ DOMAIN r = 1 .. Len(q) + 2 /\ Len(q) \in Nat
           /\ \A i \in DOMAIN q : r[i] = q[i]
           /\ r[Len(q) + 1] = a /\ r[Len(q) + 2] = b
  OBVIOUS

LEMMA OneMore ==
    ASSUME NEW q \in Seq(Signal), NEW a \in Signal, NEW r, r = Append(q, a)
    PROVE  /\ r \in Seq(Signal)
           /\ DOMAIN q = 1 .. Len(q) /\ DOMAIN r = 1 .. Len(q) + 1 /\ Len(q) \in Nat
           /\ \A i \in DOMAIN q : r[i] = q[i]
           /\ r[Len(q) + 1] = a
  OBVIOUS

LEMMA OneFewer ==
    ASSUME NEW q \in Seq(Signal), q # <<>>, NEW r, r = Tail(q)
    PROVE  /\ r \in Seq(Signal)
           /\ 1 \in DOMAIN q /\ Head(q) = q[1] /\ Head(q) \in Signal
           /\ \A i \in DOMAIN r : i \in Nat /\ i > 0 /\ i + 1 \in DOMAIN q /\ r[i] = q[i + 1]
  OBVIOUS

\* What a signal and a notification are made of.
LEMMA Parts == /\ \A q \in Seq(Signal) : \A i \in DOMAIN q : q[i] \in Signal
               /\ \A x \in Signal : x.of \in Notification /\ x.choice \in Keys \cup {"closed"}
               /\ \A n \in Notification : n.about \in Sessions
               /\ "closed" \notin Keys
  <1>1. \A q \in Seq(Signal) : \A i \in DOMAIN q : q[i] \in Signal
    OBVIOUS
  <1> QED
    BY <1>1 DEF Signal, Notification, Keys

(***************************************************************************)
(* What each thing the channel can do keeps, with what the loop does then. *)
(***************************************************************************)
\* Nothing happens to the notifications, and no question is put down.
LEMMA Steady ==
    ASSUME OnScreen,
           UNCHANGED <<channel, screen, putting, recorded, bus>>,
           answers' \in Seq(Answer), boxes' \in Nat, stuck' \subseteq Sessions,
           owed' \subseteq owed, held \subseteq held',
           pc # "asking" \/ pc' = pc,
           pc' \in {"seeing", "gone"} => held' = {},
           back' \in Backs
    PROVE  OnScreen'
  <1>1. ChannelTypeOK'
    BY DEF OnScreen, ChannelTypeOK
  <1>2. Screened'
    BY DEF OnScreen, Screened, Backs
  <1>3. Signalled'
    BY DEF OnScreen, Signalled
  <1> QED
    BY <1>1, <1>2, <1>3 DEF OnScreen

\* A question is put on the screen: it is of a number nothing refers to.
LEMMA Putting ==
    ASSUME OnScreen, pc # "asking",
           NEW s, Put(s), s \in held',
           owed' \subseteq owed, held \subseteq held',
           pc' = "asking", back' \in Backs
    PROVE  OnScreen'
  <1>1. putting = {}
    BY DEF OnScreen, Screened
  <1>2. CASE HasButtons
    <2> DEFINE n == Given(s)
    <2>1. n \in Unused(s)
      BY <1>2 DEF Put, Given
    <2>2. /\ n \in Notification /\ n.about = s
          /\ n \notin screen \cup recorded \cup putting
          /\ \A i \in DOMAIN bus : bus[i].of # n
      BY <2>1 DEF Unused
    <2>3. /\ putting' = {n} /\ screen' = screen \cup {n}
          /\ UNCHANGED <<channel, recorded, stuck, bus, answers, boxes>>
      BY <1>2 DEF Put
    <2> HIDE DEF n
    <2>4. ChannelTypeOK'
      BY <2>2, <2>3 DEF OnScreen, ChannelTypeOK
    <2>5. Screened'
      BY <1>1, <2>2, <2>3 DEF OnScreen, Screened, Backs
    <2>6. Signalled'
      BY <1>1, <2>2, <2>3 DEF OnScreen, Signalled
    <2> QED
      BY <2>4, <2>5, <2>6 DEF OnScreen
  <1>3. CASE ~HasButtons
    <2>1. /\ putting' = {} /\ screen' = screen
          /\ UNCHANGED <<channel, recorded, stuck, bus, answers, boxes>>
      BY <1>3 DEF Put
    <2> QED
      BY <1>1, <2>1, Steady DEF OnScreen, ChannelTypeOK
  <1> QED
    BY <1>2, <1>3

\* Channel::ask of a session that is held or comes to be, reached or not.
LEMMA AskedAbout ==
    ASSUME OnScreen, pc # "asking",
           NEW s, NEW to \in Backs, Ask(s, to), s \in held',
           owed' \subseteq owed, held \subseteq held'
    PROVE  OnScreen'
  <1>1. pc' = "asking" /\ back' = to
    BY DEF Ask
  <1>2. CASE Put(s)
    BY <1>1, <1>2, Putting
  <1>3. CASE Quiet
    <2>1. /\ UNCHANGED <<channel, screen, putting, recorded, bus>>
          /\ answers' \in Seq(Answer) /\ boxes' \in Nat /\ stuck' \subseteq Sessions
      BY <1>3 DEF Quiet, channelVars, OnScreen, ChannelTypeOK
    <2> QED
      BY <1>1, <2>1, Steady
  <1> QED
    BY <1>2, <1>3 DEF Ask

\* The questions about some sessions are taken back, with what is owed of them.
LEMMA Withdrawing ==
    ASSUME OnScreen, pc # "asking",
           NEW gone, TakeBack(gone), owed' = Owing(gone), held \ gone \subseteq held',
           pc' \in {"seeing", "gone"} => held' = {},
           back' \in Backs
    PROVE  OnScreen'
  <1>1. putting = {} /\ screen \subseteq recorded
    BY DEF OnScreen, Screened
  <1> DEFINE n == Recorded(gone)
  <1>2. /\ screen' = screen \ n /\ recorded' = recorded \ n
        /\ UNCHANGED <<channel, putting, bus, answers, boxes>>
        /\ stuck' \subseteq stuck \cup {m.about : m \in n \cap screen}
    BY DEF TakeBack, Withdraw, Forgets
  <1>3. /\ n \subseteq recorded
        /\ \A m \in recorded : m \notin n <=> m.about \notin gone
    BY DEF Recorded
  <1>4. \A m \in owed' : m \in owed /\ m.about \notin gone
    BY DEF Owing
  <1> HIDE DEF n
  <1>5. ChannelTypeOK'
    BY <1>2, Parts DEF OnScreen, ChannelTypeOK
  <1>6. Screened'
    BY <1>1, <1>2, <1>3 DEF OnScreen, Screened, Backs
  <1>7. Signalled'
    BY <1>1, <1>2, <1>3, <1>4 DEF OnScreen, Signalled
  <1> QED
    BY <1>5, <1>6, <1>7 DEF OnScreen

\* What is on the screen is recorded.
LEMMA Records == OnScreen /\ Asked => OnScreen'
  <1> SUFFICES ASSUME OnScreen, Asked PROVE OnScreen'
    OBVIOUS
  <1>1. /\ recorded' = recorded \cup putting /\ putting' = {}
        /\ UNCHANGED <<channel, screen, stuck, bus, answers, boxes, held, owed>>
        /\ pc' = back /\ back' = "turn"
    BY DEF Asked, Record, Returns, asked
  <1>2. ChannelTypeOK'
    BY <1>1 DEF OnScreen, ChannelTypeOK
  <1>3. Screened'
    BY <1>1 DEF OnScreen, Screened
  <1>4. Signalled'
    BY <1>1 DEF OnScreen, Signalled
  <1> QED
    BY <1>2, <1>3, <1>4 DEF OnScreen

\* A signal is read.  The closing of a notification is the last of it.
LEMMA Heard == OnScreen /\ Hears => OnScreen'
  <1> SUFFICES ASSUME OnScreen, Hears PROVE OnScreen'
    OBVIOUS
  <1> DEFINE signal == Head(bus)
  <1>1. /\ bus # <<>> /\ bus' = Tail(bus)
        /\ recorded' = IF signal.choice = "closed" THEN recorded \ {signal.of} ELSE recorded
        /\ answers' = IF signal.choice \in Keys /\ signal.of \in recorded
                      THEN Append(answers, [about |-> signal.of.about, choice |-> signal.choice])
                      ELSE answers
        /\ UNCHANGED <<channel, screen, putting, stuck, boxes>>
    BY DEF Hears, Listen
  <1>2. UNCHANGED <<pc, back, held>> /\ owed' \subseteq owed
    BY DEF Hears, LoopSame, loop
  <1>3. bus \in Seq(Signal) /\ answers \in Seq(Answer)
    BY DEF OnScreen, ChannelTypeOK
  <1>4. /\ bus' \in Seq(Signal)
        /\ 1 \in DOMAIN bus /\ signal = bus[1] /\ signal \in Signal
        /\ \A i \in DOMAIN bus' : /\ i \in Nat /\ i > 0
                                  /\ i + 1 \in DOMAIN bus /\ bus'[i] = bus[i + 1]
    BY <1>1, <1>3, OneFewer
  <1> HIDE DEF signal
  <1>5. answers' \in Seq(Answer)
    <2>1. CASE signal.choice \in Keys /\ signal.of \in recorded
      <3>1. [about |-> signal.of.about, choice |-> signal.choice] \in Answer
        BY <1>4, <2>1, Parts DEF Answer
      <3> QED
        BY <1>1, <1>3, <2>1, <3>1
    <2> QED
      BY <1>1, <1>3, <2>1
  <1>6. ChannelTypeOK'
    BY <1>1, <1>4, <1>5 DEF OnScreen, ChannelTypeOK
  <1>7. signal.of \notin screen
    BY <1>4 DEF OnScreen, Signalled
  <1>8. Screened'
    BY <1>1, <1>2, <1>7 DEF OnScreen, Screened
  <1>9. ASSUME NEW i \in DOMAIN bus'
        PROVE  /\ bus'[i].of \notin screen'
               /\ bus'[i].choice \in Keys /\ bus'[i].of \in owed' => bus'[i].of \in recorded' \cup putting'
    <2>1. i + 1 \in DOMAIN bus /\ bus'[i] = bus[i + 1] /\ 1 < i + 1
      BY <1>4
    <2>2. bus[i + 1].of = signal.of => bus[i + 1].choice = "closed"
      BY <1>4, <2>1 DEF OnScreen, Signalled
    <2>3. /\ bus[i + 1].of \notin screen
          /\ bus[i + 1].choice \in Keys /\ bus[i + 1].of \in owed
               => bus[i + 1].of \in recorded \cup putting
      BY <2>1 DEF OnScreen, Signalled
    <2> QED
      BY <1>1, <1>2, <2>1, <2>2, <2>3, Parts
  <1>10. ASSUME NEW i \in DOMAIN bus', NEW j \in DOMAIN bus', i < j, bus'[i].of = bus'[j].of
         PROVE  bus'[j].choice = "closed"
    <2>1. /\ i + 1 \in DOMAIN bus /\ j + 1 \in DOMAIN bus /\ i + 1 < j + 1
          /\ bus'[i] = bus[i + 1] /\ bus'[j] = bus[j + 1]
      BY <1>4, <1>10
    <2> QED
      BY <1>10, <2>1 DEF OnScreen, Signalled
  <1>11. Signalled'
    BY <1>9, <1>10 DEF Signalled
  <1> QED
    BY <1>6, <1>8, <1>11 DEF OnScreen

\* One goes from the screen, and what is sent of it is the first that is.
LEMMA ClosesOne == ASSUME NEW n \in screen, OnScreen, Closes(n) PROVE OnScreen'
  <1>1. /\ screen' = screen \ {n}
        /\ bus' = IF channel = "desktop" THEN Append(bus, [of |-> n, choice |-> "closed"]) ELSE bus
        /\ UNCHANGED <<channel, putting, recorded, stuck, answers, boxes, pc, back, held, owed>>
    BY DEF Closes, Dismissed, LoopSame, loop
  <1>2. n \in Notification /\ bus \in Seq(Signal)
    BY DEF OnScreen, ChannelTypeOK
  <1>3. [of |-> n, choice |-> "closed"] \in Signal
    BY <1>2 DEF Signal
  <1>4. Screened'
    BY <1>1 DEF OnScreen, Screened
  <1>5. CASE channel = "desktop"
    <2> DEFINE k == Len(bus) + 1
    <2>1. /\ bus' \in Seq(Signal)
          /\ DOMAIN bus = 1 .. Len(bus) /\ DOMAIN bus' = 1 .. k /\ Len(bus) \in Nat
          /\ \A i \in DOMAIN bus : bus'[i] = bus[i]
          /\ bus'[k] = [of |-> n, choice |-> "closed"]
      BY <1>1, <1>2, <1>3, <1>5, OneMore
    <2>2. \A i \in DOMAIN bus' : i = k \/ i \in DOMAIN bus
      BY <2>1
    <2>3. bus'[k].of = n /\ bus'[k].choice = "closed"
      BY <2>1
    <2>4. \A i \in DOMAIN bus' : ~(k < i)
      BY <2>1
    <2> HIDE DEF k
    <2>5. ChannelTypeOK'
      BY <1>1, <2>1 DEF OnScreen, ChannelTypeOK
    <2>6. Signalled'
      BY <1>1, <2>1, <2>2, <2>3, <2>4, Parts DEF OnScreen, Signalled
    <2> QED
      BY <1>4, <2>5, <2>6 DEF OnScreen
  <1>6. CASE channel # "desktop"
    BY <1>1, <1>4, <1>6 DEF OnScreen, ChannelTypeOK, Signalled
  <1> QED
    BY <1>5, <1>6

LEMMA Pressing == ASSUME NEW n \in screen, OnScreen, Presses(n) PROVE OnScreen'
  <1>1. PICK key \in Keys : Press(n, key)
    BY DEF Presses
  <1> DEFINE press == [of |-> n, choice |-> key]
             close == [of |-> n, choice |-> "closed"]
  <1>2. /\ screen' = screen \ {n}
        /\ channel = "desktop" => bus' = bus \o <<press, close>> /\ answers' = answers
        /\ channel # "desktop" =>
             answers' = Append(answers, [about |-> n.about, choice |-> key]) /\ bus' = bus
        /\ UNCHANGED <<channel, putting, recorded, stuck, boxes>>
    BY <1>1 DEF Press
  <1>3. UNCHANGED <<pc, back, held>> /\ owed' \subseteq owed \cup {n}
    BY DEF Presses, LoopSame, loop, asked
  <1>4. n \in Notification /\ bus \in Seq(Signal) /\ answers \in Seq(Answer)
    BY DEF OnScreen, ChannelTypeOK
  <1>5. press \in Signal /\ close \in Signal
    BY <1>4 DEF Signal
  <1>6. Screened'
    BY <1>2, <1>3 DEF OnScreen, Screened
  <1>7. n \in recorded \cup putting /\ \A i \in DOMAIN bus : bus[i].of # n
    BY DEF OnScreen, Screened, Signalled
  <1>8. CASE channel = "desktop"
    <2> DEFINE k == Len(bus) + 1
               l == Len(bus) + 2
    <2>1. /\ bus' \in Seq(Signal)
          /\ DOMAIN bus = 1 .. Len(bus) /\ DOMAIN bus' = 1 .. l /\ Len(bus) \in Nat
          /\ \A i \in DOMAIN bus : bus'[i] = bus[i]
          /\ bus'[k] = press /\ bus'[l] = close
      <3>1. bus' = bus \o <<press, close>>
        BY <1>2, <1>8
      <3> HIDE DEF press, close
      <3> QED
        BY <1>4, <1>5, <3>1, TwoMore
    <2>2. \A i \in DOMAIN bus' : i = k \/ i = l \/ i \in DOMAIN bus
      BY <2>1
    <2>3. bus'[k].of = n /\ bus'[l].of = n /\ bus'[l].choice = "closed"
      BY <2>1
    <2>4. \A i \in DOMAIN bus' : ~(l < i) /\ (k < i => i = l)
      BY <2>1
    <2>5. \A i \in DOMAIN bus : i < k /\ i < l
      BY <2>1
    <2> HIDE DEF k, l, press, close
    <2>6. ChannelTypeOK'
      BY <1>2, <1>8, <2>1 DEF OnScreen, ChannelTypeOK
    <2>7. ASSUME NEW i \in DOMAIN bus'
          PROVE  /\ bus'[i].of \notin screen'
                 /\ bus'[i].choice \in Keys /\ bus'[i].of \in owed'
                      => bus'[i].of \in recorded' \cup putting'
      BY <1>2, <1>3, <1>7, <2>1, <2>2, <2>3, <2>7 DEF OnScreen, Signalled
    <2>8. ASSUME NEW i \in DOMAIN bus', NEW j \in DOMAIN bus', i < j, bus'[i].of = bus'[j].of
          PROVE  bus'[j].choice = "closed"
      <3>1. CASE j \in DOMAIN bus
        <4>1. i \in DOMAIN bus
          BY <2>1, <2>2, <2>8, <3>1
        <4> QED
          BY <2>1, <2>8, <3>1, <4>1 DEF OnScreen, Signalled
      <3>2. CASE j = l
        BY <2>3, <3>2
      <3>3. CASE j = k
        <4>1. i \in DOMAIN bus
          BY <2>1, <2>2, <2>4, <2>8, <3>3 DEF k, l
        <4> QED
          BY <1>7, <2>1, <2>3, <2>8, <3>3, <4>1
      <3> QED
        BY <2>2, <3>1, <3>2, <3>3
    <2>9. Signalled'
      BY <2>7, <2>8 DEF Signalled
    <2> QED
      BY <1>6, <2>6, <2>9 DEF OnScreen
  <1>9. CASE channel # "desktop"
    <2> DEFINE answer == [about |-> n.about, choice |-> key]
    <2>1. answer \in Answer /\ answers' = Append(answers, answer) /\ bus' = bus
      BY <1>2, <1>4, <1>9, Parts DEF Answer
    <2>2. answers' \in Seq(Answer) /\ bus' = bus
      <3> HIDE DEF answer
      <3> QED
        BY <1>4, <2>1
    <2>3. ChannelTypeOK'
      BY <1>2, <2>2 DEF OnScreen, ChannelTypeOK
    <2>4. Signalled'
      BY <1>2, <1>3, <1>7, <2>2 DEF OnScreen, Signalled
    <2> QED
      BY <1>6, <2>3, <2>4 DEF OnScreen
  <1> QED
    BY <1>8, <1>9

\* A press of one that nobody could take back is an answer more, or nothing.
LEMMA OneStuck ==
    ASSUME NEW s \in Sessions, OnScreen, PressesStuck(s)
    PROVE  /\ UNCHANGED <<channel, screen, putting, recorded, bus, boxes,
                         pc, back, held, excused, owed, batch>>
           /\ stuck' \subseteq Sessions /\ answers' \in Seq(Answer)
           /\ \A i \in DOMAIN answers : i \in DOMAIN answers' /\ answers'[i] = answers[i]
  <1>1. PICK key \in Keys : PressStuck(s, key)
    BY DEF PressesStuck
  <1> DEFINE answer == [about |-> s, choice |-> key]
  <1>2. /\ UNCHANGED <<channel, screen, putting, recorded, bus, boxes>>
        /\ stuck' = stuck \ {s}
        /\ answers' = IF channel = "toast" THEN Append(answers, answer) ELSE answers
    BY <1>1 DEF PressStuck
  <1>3. UNCHANGED <<pc, back, held, excused, owed, batch>>
    BY DEF PressesStuck, LoopSame, loop, asked
  <1>4. answer \in Answer /\ answers \in Seq(Answer) /\ stuck \subseteq Sessions
    BY DEF Answer, OnScreen, ChannelTypeOK
  <1> HIDE DEF answer
  <1>5. /\ answers' \in Seq(Answer)
        /\ \A i \in DOMAIN answers : i \in DOMAIN answers' /\ answers'[i] = answers[i]
    BY <1>2, <1>4
  <1> QED
    BY <1>2, <1>3, <1>4, <1>5

(***************************************************************************)
(* The loop.                                                               *)
(***************************************************************************)
\* What a step of the loop leaves alone, where it does nothing with the channel.
LEMMA Unasked ==
    ASSUME OnScreen, UNCHANGED channelVars, owed' \subseteq owed, held \subseteq held',
           pc # "asking" \/ pc' = pc,
           pc' \in {"seeing", "gone"} => held' = {},
           back' \in Backs
    PROVE  OnScreen'
  <1>1. /\ UNCHANGED <<channel, screen, putting, recorded, bus>>
        /\ answers' \in Seq(Answer) /\ boxes' \in Nat /\ stuck' \subseteq Sessions
    BY DEF OnScreen, ChannelTypeOK, channelVars
  <1> QED
    BY <1>1, Steady

\* Where the loop comes back to.
LEMMA Back == OnScreen => back \in Backs /\ "turn" \in Backs
  BY DEF OnScreen, Screened, Backs

LEMMA RequestsStep == OnScreen /\ Requests => OnScreen'
  <1> SUFFICES ASSUME OnScreen, Requests PROVE OnScreen'
    OBVIOUS
  <1>1. /\ UNCHANGED <<channelVars, owed, held>>
        /\ pc = "request" /\ pc' \in {"turn", "open", "leaving"}
        /\ back' \in {back, "turn", "stay"}
    BY DEF Requests, Tick, Disconnected, Request, Close, Goes, Quiet, asked
  <1> QED
    BY <1>1, Unasked, Back DEF Backs

LEMMA OpeningStep == OnScreen /\ Opening => OnScreen'
  <1> SUFFICES ASSUME OnScreen, Opening PROVE OnScreen'
    OBVIOUS
  <1>1. back \in Backs /\ "turn" \in Backs
    BY Back
  <1>2. CASE NothingToOpen \/ RecoverFails \/ Opens \/ Refuses
    <2>1. /\ UNCHANGED <<channelVars, owed, held>>
          /\ pc = "open" /\ pc' \in {"open", back} /\ back' \in {back, "turn"}
      BY <1>2 DEF NothingToOpen, RecoverFails, Opens, Refuses, Nothings, Returns, Quiet, asked, loop
    <2> QED
      BY <1>1, <2>1, Unasked DEF Backs
  <1>3. CASE Misrepresents
    <2>1. /\ UNCHANGED <<channel, screen, putting, recorded, stuck, bus, answers, owed, held>>
          /\ boxes' \in {boxes, boxes + 1}
          /\ pc = "open" /\ pc' = back /\ back' = "turn"
      BY <1>3 DEF Misrepresents, Nothings, Insist, Returns, asked
    <2>2. answers' \in Seq(Answer) /\ boxes' \in Nat /\ stuck' \subseteq Sessions
      BY <2>1 DEF OnScreen, ChannelTypeOK
    <2> QED
      BY <1>1, <2>1, <2>2, Steady DEF Backs
  <1>4. CASE Stay
    <2>1. /\ UNCHANGED <<channelVars, owed, held, back>> /\ pc = "stay"
          /\ pc' = IF HasAReasonToStay THEN "request" ELSE "seeing"
      BY <1>4 DEF Stay, Quiet, asked
    <2>2. pc' \in {"seeing", "gone"} => held = {}
      BY <2>1 DEF HasAReasonToStay, IsIdle
    <2> QED
      BY <1>1, <2>1, <2>2, Unasked
  <1>5. CASE AsksFirst
    <2>1. /\ pc = "open" /\ of \in left \ held /\ Ask(of, back)
          /\ held' = held \cup {of} /\ owed' = owed
      BY <1>5 DEF AsksFirst
    <2> QED
      BY <1>1, <2>1, AskedAbout
  <1> QED
    BY <1>2, <1>3, <1>4, <1>5 DEF Opening

LEMMA TurnStep == OnScreen /\ Turn => OnScreen'
  <1> SUFFICES ASSUME OnScreen, Turn PROVE OnScreen'
    OBVIOUS
  <1>1. back \in Backs
    BY Back
  <1>2. CASE PumpAll
    <2>1. /\ UNCHANGED <<channelVars, owed, held, back>>
          /\ pc = "turn" /\ pc' = "settling"
      BY <1>2 DEF PumpAll, Goes, Quiet, asked
    <2> QED
      BY <1>1, <2>1, Unasked
  <1>3. ASSUME NEW s \in Sessions, Settled(s) PROVE OnScreen'
    <2>1. pc = "settling" /\ owed' = owed
      BY <1>3 DEF Settled
    <2>2. CASE Goes(pc) /\ Quiet /\ UNCHANGED asked
      <3>1. UNCHANGED <<channelVars, owed, held, back, pc>>
        BY <2>1, <2>2 DEF Goes, Quiet, asked
      <3> QED
        BY <1>1, <2>1, <3>1, Unasked
    <2>3. CASE Ask(s, pc) /\ held' = held \cup {s}
      <3>1. pc \in Backs
        BY <2>1 DEF Backs
      <3> QED
        BY <2>1, <2>3, <3>1, AskedAbout
    <2> QED
      BY <1>3, <2>2, <2>3 DEF Settled
  <1>4. CASE TakeAnswers
    <2>1. /\ UNCHANGED <<channel, screen, putting, recorded, stuck, bus, boxes, owed, held, back>>
          /\ answers' = <<>> /\ pc = "settling" /\ pc' = "answers"
      BY <1>4 DEF TakeAnswers, Drained, Goes, asked
    <2>2. answers' \in Seq(Answer) /\ boxes' \in Nat /\ stuck' \subseteq Sessions
      BY <2>1 DEF OnScreen, ChannelTypeOK
    <2> QED
      BY <1>1, <2>1, <2>2, Steady
  <1>5. CASE DealtWith
    <2>1. /\ UNCHANGED <<channelVars, pc, back, held>> /\ pc = "answers"
          /\ owed' \subseteq owed
      BY <1>5 DEF DealtWith, NextAnswer, Owing, Quiet, asked, loop
    <2> QED
      BY <1>1, <2>1, Unasked
  <1>6. CASE Reveal
    <2>1. /\ pc = "answers" /\ Answered \in held /\ Ask(Answered, "answers")
          /\ held' = held /\ owed' \subseteq owed
      BY <1>6 DEF Reveal, NextAnswer, Owing
    <2> QED
      BY <2>1, AskedAbout DEF Backs
  <1>7. CASE Insists
    <2>1. /\ pc = "answers" /\ UNCHANGED <<pc, back, held>>
          /\ TakeBack({Answered}) /\ owed' = Owing({Answered})
      BY <1>7 DEF Insists, NextAnswer, loop
    <2> QED
      BY <1>1, <2>1, Withdrawing
  <1>8. CASE Settles
    <2>1. /\ pc = "answers" /\ pc' \in {"answers", "open"} /\ back' \in {back, "answers"}
          /\ TakeBack({Answered}) /\ owed' = Owing({Answered})
          /\ held' = held \ {Answered}
      BY <1>8 DEF Settles, StopAsking, NextAnswer, loop
    <2> QED
      BY <1>1, <2>1, Withdrawing DEF Backs
  <1>9. CASE LetGo
    <2>1. PICK gone : StopAsking(gone)
      BY <1>9 DEF LetGo
    <2>2. /\ pc = "answers" /\ pc' = "show" /\ back' = back
          /\ TakeBack(gone) /\ owed' = Owing(gone) /\ held' = held \ gone
      BY <1>9, <2>1 DEF LetGo, StopAsking, Goes
    <2> QED
      BY <1>1, <2>2, Withdrawing
  <1> QED
    BY <1>2, <1>3, <1>4, <1>5, <1>6, <1>7, <1>8, <1>9, Records DEF Turn, Answering

LEMMA StandingStep == OnScreen /\ Standing => OnScreen'
  <1> SUFFICES ASSUME OnScreen, Standing PROVE OnScreen'
    OBVIOUS
  <1>1. back \in Backs
    BY Back
  <1>2. CASE ShowAndTake
    <2>1. /\ UNCHANGED <<channelVars, owed, held, back>>
          /\ pc = "show" /\ pc' \in {"leaving", "request"}
      BY <1>2 DEF ShowAndTake, Goes, Quiet, asked
    <2> QED
      BY <1>1, <2>1, Unasked
  <1>3. CASE StandDown
    <2>1. /\ pc = "leaving" /\ back' = back
          /\ TakeBack(held) /\ owed' = Owing(held) /\ held' = held \ held
      BY <1>3 DEF StandDown, StopAsking, Goes
    <2>2. held \ held = {}
      OBVIOUS
    <2> QED
      BY <1>1, <2>1, <2>2, Withdrawing
  <1>4. CASE SeeOut
    <2>1. /\ UNCHANGED <<channelVars, owed, held, back>>
          /\ pc = "seeing" /\ pc' = "gone"
      BY <1>4 DEF SeeOut, Goes, Quiet, asked
    <2>2. held = {}
      BY <2>1 DEF OnScreen, Screened
    <2> QED
      BY <1>1, <2>1, <2>2, Unasked
  <1> QED
    BY <1>2, <1>3, <1>4 DEF Standing

(***************************************************************************)
(* Everybody else.                                                         *)
(***************************************************************************)
LEMMA OthersStep == OnScreen /\ (Redresses \/ Restarts \/ PulseEnds \/ Person) => OnScreen'
  <1> SUFFICES ASSUME OnScreen, Redresses \/ Restarts \/ PulseEnds \/ Person PROVE OnScreen'
    OBVIOUS
  <1>1. back \in Backs /\ (pc \in {"seeing", "gone"} => held = {})
    BY Back DEF OnScreen, Screened
  <1>2. CASE Redresses \/ Restarts \/ PulseEnds \/ AtTheIcon \/ \E s \in Sessions : Command(s)
    <2>1. UNCHANGED <<channelVars, owed, held, back, pc>>
      BY <1>2 DEF Redresses, Restarts, PulseEnds, AtTheIcon, Command, LoopSame, loop, Quiet, asked
    <2> QED
      BY <1>1, <2>1, Unasked
  <1>3. CASE SeesBox
    <2>1. /\ UNCHANGED <<channel, screen, putting, recorded, stuck, bus, answers, owed, held, back, pc>>
          /\ boxes > 0 /\ boxes' = boxes - 1
      BY <1>3 DEF SeesBox, CloseBox, LoopSame, loop, asked
    <2>2. answers' \in Seq(Answer) /\ boxes' \in Nat /\ stuck' \subseteq Sessions
      BY <2>1 DEF OnScreen, ChannelTypeOK
    <2> QED
      BY <1>1, <2>1, <2>2, Steady
  <1>4. ASSUME NEW s \in Sessions, PressesStuck(s) PROVE OnScreen'
    <2>1. /\ UNCHANGED <<channel, screen, putting, recorded, bus, boxes, owed, held, back, pc>>
          /\ answers' \in Seq(Answer) /\ stuck' \subseteq Sessions
      BY <1>4, OneStuck
    <2>2. boxes' \in Nat
      BY <2>1 DEF OnScreen, ChannelTypeOK
    <2> QED
      BY <1>1, <2>1, <2>2, Steady
  <1> QED
    BY <1>2, <1>3, <1>4, Pressing, ClosesOne DEF Person

(***************************************************************************)
(* What can be pressed, and what has been and is not lost.                 *)
(***************************************************************************)
\* Where a step keeps what there is about a session, it can still be answered.
LEMMA StillAwaited ==
    ASSUME NEW s, Awaits(s), UNCHANGED <<bus, answers>>,
           \A n \in screen : n.about = s => n \in screen',
           \A n \in owed : n.about = s => n \in owed',
           \A i \in DOMAIN batch : batch[i].about = s
             => \E j \in DOMAIN batch' : batch'[j].about = s
    PROVE  Awaits(s)'
  BY DEF Awaits

\* The answers left once the first of them is taken up.
LEMMA RestOf ==
    ASSUME NEW b \in Seq(Answer), b # <<>>
    PROVE  /\ Tail(b) \in Seq(Answer)
           /\ \A s : s # Head(b).about => \A i \in DOMAIN b : b[i].about = s
                => \E j \in DOMAIN Tail(b) : Tail(b)[j].about = s
  <1> DEFINE r == Tail(b)
  <1>1. /\ r \in Seq(Answer) /\ Head(b) = b[1]
        /\ \A i \in DOMAIN b : i # 1 => i - 1 \in DOMAIN r /\ r[i - 1] = b[i]
    OBVIOUS
  <1> QED
    BY <1>1

\* One answer more.
LEMMA OneMoreAnswer ==
    ASSUME NEW q \in Seq(Answer), NEW a \in Answer, NEW r, r = Append(q, a)
    PROVE  /\ \A i \in DOMAIN q : i \in DOMAIN r /\ r[i] = q[i]
           /\ \E i \in DOMAIN r : r[i] = a
  <1>1. /\ \A i \in DOMAIN q : i \in DOMAIN r /\ r[i] = q[i]
        /\ Len(q) + 1 \in DOMAIN r /\ r[Len(q) + 1] = a
    OBVIOUS
  <1> QED
    BY <1>1

\* A step that leaves alone what there is to press and what has been pressed.
LEMMA Unmoved ==
    ASSUME InHand, Awaited,
           UNCHANGED <<channel, screen, bus, answers, batch, owed, held, excused>>,
           batch # <<>> => pc' = "answers" \/ (pc' \in {"asking", "open"} /\ back' = "answers")
    PROVE  InHand' /\ Awaited'
  BY DEF InHand, Awaited, Awaits, HasButtons

\* A question that is put can be pressed, or it is known that it could not be put.
LEMMA AskedAwaited ==
    ASSUME OnScreen, InHand, Awaited, NEW s, NEW to, Ask(s, to),
           held' \subseteq held \cup {s},
           \A n \in owed : n.about # s => n \in owed',
           batch' \in Seq(Answer), batch' # <<>> => to = "answers",
           \A t : t # s => \A i \in DOMAIN batch : batch[i].about = t
             => \E j \in DOMAIN batch' : batch'[j].about = t
    PROVE  InHand' /\ Awaited'
  <1>1. pc' = "asking" /\ back' = to
    BY DEF Ask
  <1>2. InHand'
    BY <1>1 DEF InHand
  <1>3. /\ UNCHANGED <<channel, bus, answers>> /\ screen \subseteq screen'
        /\ excused \subseteq excused'
        /\ HasButtons => s \in excused' \/ \E n \in screen' : n.about = s
    <2>1. CASE Put(s) /\ UNCHANGED excused
      <3>1. /\ UNCHANGED <<channel, bus, answers>> /\ screen \subseteq screen'
        BY <2>1 DEF Put
      <3>2. HasButtons => Given(s) \in screen' /\ Given(s).about = s
        <4>1. HasButtons => Given(s) \in Unused(s)
          BY <2>1 DEF Put, Given
        <4> QED
          BY <2>1, <4>1 DEF Put, Unused
      <3> QED
        BY <2>1, <3>1, <3>2
    <2>2. CASE Quiet /\ excused' = excused \cup {s}
      BY <2>2 DEF Quiet, channelVars
    <2> QED
      BY <2>1, <2>2 DEF Ask
  <1>4. ASSUME HasButtons', NEW t \in held' \ excused' PROVE Awaits(t)'
    <2>1. HasButtons
      BY <1>3, <1>4 DEF HasButtons
    <2>2. CASE t = s
      BY <1>3, <1>4, <2>1, <2>2 DEF Awaits
    <2>3. CASE t # s
      <3>1. t \in held \ excused
        BY <1>3, <1>4, <2>3
      <3>2. Awaits(t)
        BY <2>1, <3>1 DEF Awaited
      <3> QED
        BY <1>3, <2>3, <3>2, StillAwaited
    <2> QED
      BY <2>2, <2>3
  <1>5. Awaited'
    BY <1>4 DEF Awaited
  <1> QED
    BY <1>2, <1>5

\* Some questions are put down, and nothing else is.
LEMMA WithdrawnAwaited ==
    ASSUME OnScreen, InHand, Awaited, NEW gone, TakeBack(gone), owed' = Owing(gone),
           held' \ excused' \subseteq (held \ excused) \ gone,
           batch' \in Seq(Answer),
           batch' # <<>> => pc' = "answers" \/ (pc' \in {"asking", "open"} /\ back' = "answers"),
           \A t : t \notin gone => \A i \in DOMAIN batch : batch[i].about = t
             => \E j \in DOMAIN batch' : batch'[j].about = t
    PROVE  InHand' /\ Awaited'
  <1>1. InHand'
    BY DEF InHand
  <1>2. /\ UNCHANGED <<channel, bus, answers>>
        /\ \A n \in screen : n.about \notin gone => n \in screen'
        /\ \A n \in owed : n.about \notin gone => n \in owed'
    BY DEF TakeBack, Withdraw, Forgets, Recorded, Owing
  <1>3. ASSUME HasButtons', NEW t \in held' \ excused' PROVE Awaits(t)'
    <2>1. t \in held \ excused /\ t \notin gone
      BY <1>3
    <2>2. Awaits(t)
      BY <1>2, <1>3, <2>1 DEF Awaited, HasButtons
    <2> QED
      BY <1>2, <2>1, <2>2, StillAwaited
  <1>4. Awaited'
    BY <1>3 DEF Awaited
  <1> QED
    BY <1>1, <1>4

\* A signal that is read: a press is put down as an answer, or the window had it.
LEMMA HeardAwaited == OnScreen /\ InHand /\ Awaited /\ Hears => InHand' /\ Awaited'
  <1> SUFFICES ASSUME OnScreen, InHand, Awaited, Hears PROVE InHand' /\ Awaited'
    OBVIOUS
  <1> DEFINE signal == Head(bus)
             answer == [about |-> signal.of.about, choice |-> signal.choice]
             missed == Unheard /\ signal.of \in owed
  <1>1. /\ bus # <<>> /\ bus' = Tail(bus)
        /\ answers' = IF signal.choice \in Keys /\ signal.of \in recorded
                      THEN Append(answers, answer) ELSE answers
        /\ UNCHANGED <<channel, screen>>
    BY DEF Hears, Listen
  <1>2. /\ UNCHANGED <<pc, back, held, batch>>
        /\ missed => owed' = owed \ {signal.of} /\ excused' = excused \cup {signal.of.about}
        /\ ~missed => UNCHANGED <<owed, excused>>
    BY DEF Hears, LoopSame, loop
  <1>3. bus \in Seq(Signal) /\ answers \in Seq(Answer)
    BY DEF OnScreen, ChannelTypeOK
  <1>4. signal = bus[1] /\ signal \in Signal
    BY <1>1, <1>3, OneFewer
  <1>5. \A i \in DOMAIN bus : i # 1 => i - 1 \in DOMAIN bus' /\ bus'[i - 1] = bus[i]
    BY <1>1, <1>3
  <1>6. signal.choice \in Keys => answer \in Answer
    BY <1>4, Parts DEF Answer
  <1>7. missed <=> signal.choice \in Keys /\ signal.of \notin recorded /\ signal.of \in owed
    BY <1>1 DEF Unheard
  <1> HIDE DEF signal, missed
  <1>8. answer.about = signal.of.about
    OBVIOUS
  <1> HIDE DEF answer
  <1>9. InHand'
    BY <1>2 DEF InHand
  <1>10. ASSUME HasButtons', NEW t \in held' \ excused' PROVE Awaits(t)'
    <2>1. t \in held \ excused /\ HasButtons
      BY <1>1, <1>2, <1>10 DEF HasButtons
    <2>2. Awaits(t)
      BY <2>1 DEF Awaited
    <2>3. CASE \E n \in screen : n.about = t
      BY <1>1, <2>3 DEF Awaits
    <2>4. CASE \E i \in DOMAIN answers : answers[i].about = t
      <3>1. \E i \in DOMAIN answers' : answers'[i].about = t
        <4>1. CASE signal.choice \in Keys /\ signal.of \in recorded
          BY <1>1, <1>3, <1>6, <2>4, <4>1, OneMoreAnswer
        <4> QED
          BY <1>1, <2>4, <4>1
      <3> QED
        BY <3>1 DEF Awaits
    <2>5. CASE \E i \in DOMAIN batch : batch[i].about = t
      BY <1>2, <2>5 DEF Awaits
    <2>6. ASSUME NEW i \in DOMAIN bus, bus[i].choice \in Keys, bus[i].of \in owed, bus[i].of.about = t
          PROVE  Awaits(t)'
      <3>1. CASE i = 1
        <4>1. ~missed
          BY <1>2, <1>4, <1>10, <2>6, <3>1
        <4>2. signal.choice \in Keys /\ signal.of \in recorded
          BY <1>4, <1>7, <2>6, <3>1, <4>1
        <4>3. answers' = Append(answers, answer) /\ answer.about = t
          BY <1>1, <1>4, <1>8, <2>6, <3>1, <4>2
        <4>4. \E j \in DOMAIN answers' : answers'[j].about = t
          BY <1>3, <1>6, <4>2, <4>3, OneMoreAnswer
        <4> QED
          BY <4>4 DEF Awaits
      <3>2. CASE i # 1
        <4>1. bus[i].of \in owed'
          <5>1. CASE missed
            BY <1>2, <1>10, <2>6, <5>1
          <5> QED
            BY <1>2, <2>6, <5>1
        <4> QED
          BY <1>5, <2>6, <3>2, <4>1 DEF Awaits
      <3> QED
        BY <3>1, <3>2
    <2> QED
      BY <2>2, <2>3, <2>4, <2>5, <2>6 DEF Awaits
  <1>11. Awaited'
    BY <1>10 DEF Awaited
  <1> QED
    BY <1>9, <1>11

\* What a person closes unanswered is known of, if anything was held about it.
LEMMA ClosedAwaited == ASSUME NEW n \in screen, OnScreen, InHand, Awaited, Closes(n)
                       PROVE InHand' /\ Awaited'
  <1>1. /\ screen' = screen \ {n}
        /\ bus' = IF channel = "desktop" THEN Append(bus, [of |-> n, choice |-> "closed"]) ELSE bus
        /\ excused' = IF n.about \in held THEN excused \cup {n.about} ELSE excused
        /\ UNCHANGED <<channel, answers, pc, back, held, batch, owed>>
    BY DEF Closes, Dismissed, LoopSame, loop
  <1>2. n \in Notification /\ bus \in Seq(Signal)
    BY DEF OnScreen, ChannelTypeOK
  <1>3. \A i \in DOMAIN bus : i \in DOMAIN bus' /\ bus'[i] = bus[i]
    <2> DEFINE a == [of |-> n, choice |-> "closed"]
    <2>1. a \in Signal
      BY <1>2 DEF Signal
    <2> HIDE DEF a
    <2>2. CASE channel = "desktop"
      BY <1>1, <1>2, <2>1, <2>2, OneMore DEF a
    <2> QED
      BY <1>1, <2>2
  <1>4. ASSUME HasButtons', NEW t \in held' \ excused' PROVE Awaits(t)'
    <2>1. t \in held \ excused /\ t # n.about /\ HasButtons
      BY <1>1, <1>4 DEF HasButtons
    <2>2. Awaits(t)
      BY <2>1 DEF Awaited
    <2> QED
      BY <1>1, <1>3, <2>1, <2>2 DEF Awaits
  <1> QED
    BY <1>1, <1>4 DEF InHand, Awaited

\* What a person presses is owed an answer, or is one.
LEMMA PressedAwaited == ASSUME NEW n \in screen, OnScreen, InHand, Awaited, Presses(n)
                        PROVE InHand' /\ Awaited'
  <1>1. PICK key \in Keys : Press(n, key)
    BY DEF Presses
  <1> DEFINE press == [of |-> n, choice |-> key]
             close == [of |-> n, choice |-> "closed"]
             answer == [about |-> n.about, choice |-> key]
  <1>2. /\ screen' = screen \ {n}
        /\ channel = "desktop" => bus' = bus \o <<press, close>> /\ answers' = answers
        /\ channel # "desktop" => answers' = Append(answers, answer) /\ bus' = bus
        /\ UNCHANGED channel
    BY <1>1 DEF Press
  <1>3. /\ UNCHANGED <<pc, back, held, excused, batch>> /\ owed \subseteq owed'
        /\ n.about \in held => n \in owed'
    BY DEF Presses, LoopSame, loop, asked
  <1>4. n \in Notification /\ bus \in Seq(Signal) /\ answers \in Seq(Answer)
    BY DEF OnScreen, ChannelTypeOK
  <1>5. press \in Signal /\ close \in Signal /\ answer \in Answer
    BY <1>4, Parts DEF Signal, Answer
  <1>6. press.of = n /\ press.choice = key /\ answer.about = n.about
    OBVIOUS
  <1> HIDE DEF press, close, answer
  <1>7. CASE channel = "desktop"
    <2>1. /\ \A i \in DOMAIN bus : i \in DOMAIN bus' /\ bus'[i] = bus[i]
          /\ \E i \in DOMAIN bus' : bus'[i] = press
      <3>1. /\ DOMAIN bus = 1 .. Len(bus) /\ DOMAIN bus' = 1 .. Len(bus) + 2 /\ Len(bus) \in Nat
            /\ \A i \in DOMAIN bus : bus'[i] = bus[i]
            /\ bus'[Len(bus) + 1] = press
        <4>1. bus' = bus \o <<press, close>>
          BY <1>2, <1>7
        <4> QED
          BY <1>4, <1>5, <4>1, TwoMore
      <3>2. Len(bus) + 1 \in DOMAIN bus' /\ \A i \in DOMAIN bus : i \in DOMAIN bus'
        BY <3>1
      <3> QED
        BY <3>1, <3>2
    <2>2. ASSUME HasButtons', NEW t \in held' \ excused' PROVE Awaits(t)'
      <3>1. t \in held \ excused /\ HasButtons
        BY <1>2, <1>3, <2>2 DEF HasButtons
      <3>2. Awaits(t)
        BY <3>1 DEF Awaited
      <3>3. CASE t = n.about
        BY <1>3, <1>6, <2>1, <3>1, <3>3 DEF Awaits
      <3>4. CASE t # n.about
        BY <1>2, <1>3, <1>7, <2>1, <3>2, <3>4 DEF Awaits
      <3> QED
        BY <3>3, <3>4
    <2> QED
      BY <1>3, <2>2 DEF InHand, Awaited
  <1>8. CASE channel # "desktop"
    <2>1. /\ \A i \in DOMAIN answers : i \in DOMAIN answers' /\ answers'[i] = answers[i]
          /\ \E i \in DOMAIN answers' : answers'[i] = answer
      BY <1>2, <1>4, <1>5, <1>8, OneMoreAnswer
    <2>2. ASSUME HasButtons', NEW t \in held' \ excused' PROVE Awaits(t)'
      <3>1. t \in held \ excused /\ HasButtons
        BY <1>2, <1>3, <2>2 DEF HasButtons
      <3>2. Awaits(t)
        BY <3>1 DEF Awaited
      <3>3. CASE t = n.about
        BY <1>6, <2>1, <3>3 DEF Awaits
      <3>4. CASE t # n.about
        BY <1>2, <1>3, <1>8, <2>1, <3>2, <3>4 DEF Awaits
      <3> QED
        BY <3>3, <3>4
    <2> QED
      BY <1>3, <2>2 DEF InHand, Awaited
  <1> QED
    BY <1>7, <1>8

\* One case for each action again, for what can be pressed.
LEMMA OpeningAwaited == OnScreen /\ InHand /\ Awaited /\ (Requests \/ Opening) => InHand' /\ Awaited'
  <1> SUFFICES ASSUME OnScreen, InHand, Awaited, Requests \/ Opening PROVE InHand' /\ Awaited'
    OBVIOUS
  <1>1. batch # <<>> => pc = "answers" \/ (pc \in {"asking", "open"} /\ back = "answers")
    BY DEF InHand
  <1>2. CASE Requests
    <2>1. /\ UNCHANGED <<channelVars, batch, owed, held, excused>>
          /\ pc = "request"
      BY <1>2 DEF Requests, Tick, Disconnected, Request, Close, Quiet, asked
    <2> QED
      BY <1>1, <2>1, Unmoved DEF channelVars
  <1>3. CASE NothingToOpen \/ RecoverFails \/ Opens \/ Refuses \/ Misrepresents
    <2>1. /\ UNCHANGED <<channel, screen, bus, answers, batch, owed, held, excused>>
          /\ pc = "open" /\ (pc' = back \/ (pc' = "open" /\ back' = back))
      BY <1>3 DEF NothingToOpen, RecoverFails, Opens, Refuses, Misrepresents, Nothings, Insist,
                  Returns, Quiet, channelVars, asked, loop
    <2> QED
      BY <1>1, <2>1, Unmoved
  <1>4. CASE Stay
    <2>1. /\ UNCHANGED <<channel, screen, bus, answers, batch, owed, held, excused>>
          /\ pc = "stay"
      BY <1>4 DEF Stay, Quiet, channelVars, asked
    <2> QED
      BY <1>1, <2>1, Unmoved
  <1>5. CASE AsksFirst
    <2>1. /\ pc = "open" /\ Ask(of, back)
          /\ held' = held \cup {of} /\ owed' = owed /\ batch' = batch
      BY <1>5 DEF AsksFirst
    <2>2. batch' \in Seq(Answer) /\ (batch' # <<>> => back = "answers")
      BY <1>1, <2>1 DEF InHand
    <2> QED
      BY <2>1, <2>2, AskedAwaited
  <1> QED
    BY <1>2, <1>3, <1>4, <1>5 DEF Opening

LEMMA TurnAwaited == OnScreen /\ InHand /\ Awaited /\ Turn => InHand' /\ Awaited'
  <1> SUFFICES ASSUME OnScreen, InHand, Awaited, Turn PROVE InHand' /\ Awaited'
    OBVIOUS
  <1>1. /\ batch # <<>> => pc = "answers" \/ (pc \in {"asking", "open"} /\ back = "answers")
        /\ batch \in Seq(Answer)
    BY DEF InHand
  <1>2. CASE Asked
    <2>1. /\ UNCHANGED <<channel, screen, bus, answers, batch, owed, held, excused>>
          /\ pc = "asking" /\ pc' = back
      BY <1>2 DEF Asked, Record, Returns, asked
    <2> QED
      BY <1>1, <2>1, Unmoved
  <1>3. CASE PumpAll
    <2>1. /\ UNCHANGED <<channel, screen, bus, answers, batch, owed, held, excused>>
          /\ pc = "turn"
      BY <1>3 DEF PumpAll, Quiet, channelVars, asked
    <2> QED
      BY <1>1, <2>1, Unmoved
  <1>4. ASSUME NEW s \in Sessions, Settled(s) PROVE InHand' /\ Awaited'
    <2>1. pc = "settling" /\ owed' = owed /\ batch' = batch /\ batch = <<>>
      BY <1>1, <1>4 DEF Settled
    <2>2. CASE Quiet /\ UNCHANGED asked
      <3>1. UNCHANGED <<channel, screen, bus, answers, held, excused>>
        BY <2>2 DEF Quiet, channelVars, asked
      <3> QED
        BY <2>1, <3>1, Unmoved
    <2>3. CASE Ask(s, pc) /\ held' = held \cup {s}
      BY <1>1, <2>1, <2>3, AskedAwaited
    <2> QED
      BY <1>4, <2>2, <2>3 DEF Settled
  <1>5. CASE TakeAnswers
    <2>1. /\ UNCHANGED <<channel, screen, bus, owed, held, excused>>
          /\ batch' = answers /\ pc = "settling" /\ pc' = "answers"
      BY <1>5 DEF TakeAnswers, Drained, Goes, asked
    <2>2. batch = <<>> /\ batch' \in Seq(Answer)
      BY <1>1, <2>1 DEF OnScreen, ChannelTypeOK
    <2>3. InHand'
      BY <2>1, <2>2 DEF InHand
    <2>4. ASSUME NEW t, Awaits(t) PROVE Awaits(t)'
      BY <2>1, <2>2, <2>4 DEF Awaits
    <2> QED
      BY <2>1, <2>3, <2>4 DEF Awaited, HasButtons
  <1>6. CASE NextAnswer /\ (DealtWith \/ Reveal \/ Insists \/ Settles)
    <2>1. /\ pc = "answers" /\ batch' \in Seq(Answer)
          /\ \A t : t # Answered => \A i \in DOMAIN batch : batch[i].about = t
               => \E j \in DOMAIN batch' : batch'[j].about = t
      <3>1. pc = "answers" /\ batch # <<>> /\ batch' = Tail(batch)
        BY <1>6 DEF NextAnswer
      <3>2. Answered = Head(batch).about
        BY DEF Answered
      <3>3. /\ Tail(batch) \in Seq(Answer)
            /\ \A t : t # Head(batch).about => \A i \in DOMAIN batch : batch[i].about = t
                 => \E j \in DOMAIN Tail(batch) : Tail(batch)[j].about = t
        <4>1. batch \in Seq(Answer) /\ batch # <<>>
          BY <1>1, <3>1
        <4> QED
          BY <4>1, RestOf
      <3> QED
        BY <3>1, <3>2, <3>3
    <2>2. \A n \in owed : n.about # Answered => n \in Owing({Answered})
      BY DEF Owing
    <2> HIDE DEF Answered
    <2>3. CASE DealtWith
      <3>1. /\ UNCHANGED <<pc, channel, screen, bus, answers, held, excused>>
            /\ owed' = Owing({Answered}) /\ Answered \notin held
        BY <2>3 DEF DealtWith, Quiet, channelVars, asked, loop
      <3>2. InHand'
        BY <2>1, <3>1 DEF InHand
      <3>3. ASSUME NEW t \in held \ excused, Awaits(t) PROVE Awaits(t)'
        BY <2>1, <2>2, <3>1, <3>3, StillAwaited
      <3> QED
        BY <3>1, <3>2, <3>3 DEF Awaited, HasButtons
    <2>4. CASE Reveal
      <3>1. Ask(Answered, "answers") /\ held' = held /\ owed' = Owing({Answered})
        BY <2>4 DEF Reveal
      <3> QED
        BY <2>1, <2>2, <3>1, AskedAwaited
    <2>5. CASE Insists
      <3>1. /\ pc' = pc /\ TakeBack({Answered}) /\ owed' = Owing({Answered})
            /\ held' = held /\ excused' = excused \cup {Answered}
        BY <2>5 DEF Insists, loop
      <3> QED
        BY <2>1, <3>1, WithdrawnAwaited
    <2>6. CASE Settles
      <3>1. /\ pc' = pc \/ (pc' = "open" /\ back' = "answers")
            /\ TakeBack({Answered}) /\ owed' = Owing({Answered})
            /\ held' = held \ {Answered} /\ excused' = excused \ {Answered}
        BY <2>6 DEF Settles, StopAsking, loop
      <3> QED
        BY <2>1, <3>1, WithdrawnAwaited
    <2> QED
      BY <1>6, <2>3, <2>4, <2>5, <2>6
  <1>7. CASE LetGo
    <2>1. PICK gone : StopAsking(gone)
      BY <1>7 DEF LetGo
    <2>2. /\ batch = <<>> /\ batch' = batch
          /\ TakeBack(gone) /\ owed' = Owing(gone)
          /\ held' = held \ gone /\ excused' = excused \ gone
      BY <1>7, <2>1 DEF LetGo, StopAsking
    <2> QED
      BY <1>1, <2>2, WithdrawnAwaited
  <1> QED
    BY <1>2, <1>3, <1>4, <1>5, <1>6, <1>7
    DEF Turn, Answering, DealtWith, Reveal, Insists, Settles

LEMMA StandingAwaited == OnScreen /\ InHand /\ Awaited /\ Standing => InHand' /\ Awaited'
  <1> SUFFICES ASSUME OnScreen, InHand, Awaited, Standing PROVE InHand' /\ Awaited'
    OBVIOUS
  <1>1. /\ batch # <<>> => pc = "answers" \/ (pc \in {"asking", "open"} /\ back = "answers")
        /\ batch \in Seq(Answer)
    BY DEF InHand
  <1>2. CASE ShowAndTake \/ SeeOut
    <2>1. /\ UNCHANGED <<channel, screen, bus, answers, batch, owed, held, excused>>
          /\ pc \in {"show", "seeing"}
      BY <1>2 DEF ShowAndTake, SeeOut, Quiet, channelVars, asked
    <2> QED
      BY <1>1, <2>1, Unmoved
  <1>3. CASE StandDown
    <2>1. /\ batch' = batch /\ pc = "leaving"
          /\ TakeBack(held) /\ owed' = Owing(held)
          /\ held' = held \ held /\ excused' = excused \ held
      BY <1>3 DEF StandDown, StopAsking
    <2> QED
      BY <1>1, <2>1, WithdrawnAwaited
  <1> QED
    BY <1>2, <1>3 DEF Standing

LEMMA OthersAwaited ==
    OnScreen /\ InHand /\ Awaited /\ (Redresses \/ Restarts \/ PulseEnds \/ Person \/ UNCHANGED vars)
      => InHand' /\ Awaited'
  <1> SUFFICES ASSUME OnScreen, InHand, Awaited, Redresses \/ Restarts \/ PulseEnds \/ Person \/ UNCHANGED vars
               PROVE  InHand' /\ Awaited'
    OBVIOUS
  <1>1. CASE \/ Redresses \/ Restarts \/ PulseEnds \/ AtTheIcon \/ SeesBox
             \/ (\E s \in Sessions : Command(s)) \/ UNCHANGED vars
    <2>1. UNCHANGED <<channel, screen, bus, answers, batch, owed, held, excused, pc, back>>
      BY <1>1 DEF Redresses, Restarts, PulseEnds, AtTheIcon, SeesBox, CloseBox, Command, LoopSame, loop,
                  Quiet, channelVars, asked, vars
    <2> QED
      BY <2>1, Unmoved DEF InHand
  <1>2. ASSUME NEW s \in Sessions, PressesStuck(s) PROVE InHand' /\ Awaited'
    <2>1. /\ UNCHANGED <<channel, screen, bus, batch, owed, held, excused, pc, back>>
          /\ \A i \in DOMAIN answers : i \in DOMAIN answers' /\ answers'[i] = answers[i]
      BY <1>2, OneStuck
    <2>2. ASSUME NEW t, Awaits(t) PROVE Awaits(t)'
      BY <2>1, <2>2 DEF Awaits
    <2> QED
      BY <2>1, <2>2 DEF InHand, Awaited, HasButtons
  <1> QED
    BY <1>1, <1>2, PressedAwaited, ClosedAwaited DEF Person

(***************************************************************************)
(* What is owed an answer, and where its press is by now.                  *)
(***************************************************************************)
\* Nothing is read, and what is still owed is not put down.
LEMMA Carried ==
    ASSUME OwedIsOnItsWay, UNCHANGED <<bus, answers>>, owed' \subseteq owed,
           \A n \in owed' : \A i \in DOMAIN batch : batch[i].about = n.about
             => \E j \in DOMAIN batch' : batch'[j].about = n.about
    PROVE  OwedIsOnItsWay'
  BY DEF OwedIsOnItsWay, OnItsWay

\* More signals, and nothing taken from anywhere.
LEMMA FurtherSignals ==
    ASSUME NEW n, OnItsWay(n), UNCHANGED <<answers, batch>>,
           \A i \in DOMAIN bus : i \in DOMAIN bus' /\ bus'[i] = bus[i]
    PROVE  OnItsWay(n)'
  BY DEF OnItsWay

LEMMA LoopCarries == OnScreen /\ InHand /\ OwedIsOnItsWay /\ Loop => OwedIsOnItsWay'
  <1> SUFFICES ASSUME OnScreen, InHand, OwedIsOnItsWay, Loop PROVE OwedIsOnItsWay'
    OBVIOUS
  <1>1. CASE Requests \/ Opening
    <2>1. UNCHANGED <<batch, owed>>
      BY <1>1 DEF Requests, Tick, Disconnected, Request, Close, Opening, NothingToOpen, AsksFirst, RecoverFails,
                  Opens, Refuses, Misrepresents, Stay
    <2>2. UNCHANGED <<bus, answers>>
      BY <1>1 DEF Requests, Tick, Disconnected, Request, Close, Opening, NothingToOpen, AsksFirst, RecoverFails,
                  Opens, Refuses, Misrepresents, Stay, Ask, Put, Insist, Quiet, channelVars
    <2> QED
      BY <2>1, <2>2, Carried
  <1>2. CASE Standing
    <2>1. batch' = batch /\ owed' \subseteq owed
      BY <1>2 DEF Standing, ShowAndTake, StandDown, SeeOut, StopAsking, Owing
    <2>2. UNCHANGED <<bus, answers>>
      BY <1>2 DEF Standing, ShowAndTake, StandDown, SeeOut, StopAsking, TakeBack, Withdraw, Forgets, Quiet, channelVars
    <2> QED
      BY <2>1, <2>2, Carried
  <1>3. CASE Asked \/ PumpAll \/ (\E s \in Sessions : Settled(s)) \/ LetGo
    <2>1. batch' = batch /\ owed' \subseteq owed
      BY <1>3 DEF Asked, PumpAll, Settled, LetGo, StopAsking, Owing
    <2>2. UNCHANGED <<bus, answers>>
      BY <1>3 DEF Asked, Record, PumpAll, Settled, LetGo, StopAsking, TakeBack, Withdraw, Forgets, Ask, Put, Quiet,
                  channelVars
    <2> QED
      BY <2>1, <2>2, Carried
  <1>4. CASE TakeAnswers
    <2>1. pc = "settling" /\ batch' = answers /\ UNCHANGED <<bus, owed>>
      BY <1>4 DEF TakeAnswers, Drained
    <2>2. batch = <<>>
      BY <2>1 DEF InHand
    <2> QED
      BY <2>1, <2>2 DEF OwedIsOnItsWay, OnItsWay
  <1>5. CASE NextAnswer /\ (DealtWith \/ Reveal \/ Insists \/ Settles)
    <2>1. batch \in Seq(Answer) /\ batch # <<>> /\ batch' = Tail(batch)
      BY <1>5 DEF InHand, NextAnswer
    <2>2. owed' = Owing({Answered})
      BY <1>5 DEF DealtWith, Reveal, Insists, Settles, StopAsking
    <2>3. UNCHANGED <<bus, answers>>
      BY <1>5 DEF DealtWith, Reveal, Insists, Settles, StopAsking, TakeBack, Withdraw, Forgets,
                  Ask, Put, Quiet, channelVars
    <2>4. \A n \in owed' : n \in owed /\ n.about # Head(batch).about
      BY <2>2 DEF Owing, Answered
    <2>5. \A t : t # Head(batch).about => \A i \in DOMAIN batch : batch[i].about = t
            => \E j \in DOMAIN batch' : batch'[j].about = t
      BY <2>1, RestOf
    <2> QED
      BY <2>3, <2>4, <2>5, Carried
  <1> QED
    BY <1>1, <1>2, <1>3, <1>4, <1>5
    DEF Loop, Turn, Answering, DealtWith, Reveal, Insists, Settles

\* A signal that is read becomes an answer, or is owed no more.
LEMMA HearsCarries == OnScreen /\ OwedIsOnItsWay /\ Hears => OwedIsOnItsWay'
  <1> SUFFICES ASSUME OnScreen, OwedIsOnItsWay, Hears, NEW n \in owed' PROVE OnItsWay(n)'
    BY DEF OwedIsOnItsWay
  <1> DEFINE signal == Head(bus)
             answer == [about |-> signal.of.about, choice |-> signal.choice]
             missed == Unheard /\ signal.of \in owed
  <1>1. /\ bus # <<>> /\ bus' = Tail(bus)
        /\ answers' = IF signal.choice \in Keys /\ signal.of \in recorded
                      THEN Append(answers, answer) ELSE answers
        /\ batch' = batch
    BY DEF Hears, Listen, LoopSame
  <1>2. n \in owed /\ ~(missed /\ n = signal.of)
    BY DEF Hears
  <1>3. bus \in Seq(Signal) /\ answers \in Seq(Answer)
    BY DEF OnScreen, ChannelTypeOK
  <1>4. signal = bus[1] /\ signal \in Signal
    BY <1>1, <1>3, OneFewer
  <1>5. \A i \in DOMAIN bus : i # 1 => i - 1 \in DOMAIN bus' /\ bus'[i - 1] = bus[i]
    BY <1>1, <1>3
  <1>6. signal.choice \in Keys => answer \in Answer
    BY <1>4, Parts DEF Answer
  <1>7. missed <=> signal.choice \in Keys /\ signal.of \notin recorded /\ signal.of \in owed
    BY <1>1 DEF Unheard
  <1> HIDE DEF signal, missed
  <1>8. answer.about = signal.of.about
    OBVIOUS
  <1> HIDE DEF answer
  <1>9. OnItsWay(n)
    BY <1>2 DEF OwedIsOnItsWay
  <1>10. CASE \E i \in DOMAIN answers : answers[i].about = n.about
    <2>1. \E i \in DOMAIN answers' : answers'[i].about = n.about
      <3>1. CASE signal.choice \in Keys /\ signal.of \in recorded
        <4>1. \A i \in DOMAIN answers : i \in DOMAIN answers' /\ answers'[i] = answers[i]
          BY <1>1, <1>3, <1>6, <3>1, OneMoreAnswer
        <4> QED
          BY <1>10, <4>1
      <3> QED
        BY <1>1, <1>10, <3>1
    <2> QED
      BY <2>1 DEF OnItsWay
  <1>11. CASE \E i \in DOMAIN batch : batch[i].about = n.about
    BY <1>1, <1>11 DEF OnItsWay
  <1>12. ASSUME NEW i \in DOMAIN bus, bus[i].choice \in Keys, bus[i].of = n
         PROVE  OnItsWay(n)'
    <2>1. CASE i # 1
      BY <1>5, <1>12, <2>1 DEF OnItsWay
    <2>2. CASE i = 1
      <3>1. signal.choice \in Keys /\ signal.of = n /\ signal.of \in recorded
        BY <1>2, <1>4, <1>7, <1>12, <2>2
      <3>2. answers' = Append(answers, answer) /\ answer.about = n.about
        BY <1>1, <1>8, <3>1
      <3>3. \E j \in DOMAIN answers' : answers'[j].about = n.about
        BY <1>3, <1>6, <3>1, <3>2, OneMoreAnswer
      <3> QED
        BY <3>3 DEF OnItsWay
    <2> QED
      BY <2>1, <2>2
  <1> QED
    BY <1>9, <1>10, <1>11, <1>12 DEF OnItsWay

LEMMA ClosesCarries ==
    ASSUME NEW n \in screen, OnScreen, OwedIsOnItsWay, Closes(n) PROVE OwedIsOnItsWay'
  <1> DEFINE a == [of |-> n, choice |-> "closed"]
  <1>1. /\ bus' = IF channel = "desktop" THEN Append(bus, a) ELSE bus
        /\ UNCHANGED <<answers, batch, owed>>
    BY DEF Closes, Dismissed, LoopSame
  <1>2. a \in Signal /\ bus \in Seq(Signal)
    BY DEF OnScreen, ChannelTypeOK, Signal
  <1> HIDE DEF a
  <1>3. \A i \in DOMAIN bus : i \in DOMAIN bus' /\ bus'[i] = bus[i]
    <2>1. CASE channel = "desktop"
      BY <1>1, <1>2, <2>1, OneMore
    <2> QED
      BY <1>1, <2>1
  <1> QED
    BY <1>1, <1>3, FurtherSignals DEF OwedIsOnItsWay

\* A press is on the bus, or is an answer already.
LEMMA PressesCarries ==
    ASSUME NEW n \in screen, OnScreen, OwedIsOnItsWay, Presses(n) PROVE OwedIsOnItsWay'
  <1>1. PICK key \in Keys : Press(n, key)
    BY DEF Presses
  <1> DEFINE press == [of |-> n, choice |-> key]
             close == [of |-> n, choice |-> "closed"]
             answer == [about |-> n.about, choice |-> key]
  <1>2. /\ channel = "desktop" => bus' = bus \o <<press, close>> /\ answers' = answers
        /\ channel # "desktop" => answers' = Append(answers, answer) /\ bus' = bus
    BY <1>1 DEF Press
  <1>3. batch' = batch /\ owed' \subseteq owed \cup {n}
    BY DEF Presses, LoopSame
  <1>4. n \in Notification /\ bus \in Seq(Signal) /\ answers \in Seq(Answer)
    BY DEF OnScreen, ChannelTypeOK
  <1>5. press \in Signal /\ close \in Signal /\ answer \in Answer
    BY <1>4, Parts DEF Signal, Answer
  <1>6. press.of = n /\ press.choice = key /\ answer.about = n.about
    OBVIOUS
  <1> HIDE DEF press, close, answer
  <1>7. CASE channel = "desktop"
    <2>1. /\ \A i \in DOMAIN bus : i \in DOMAIN bus' /\ bus'[i] = bus[i]
          /\ \E i \in DOMAIN bus' : bus'[i] = press
      <3>1. /\ DOMAIN bus = 1 .. Len(bus) /\ DOMAIN bus' = 1 .. Len(bus) + 2 /\ Len(bus) \in Nat
            /\ \A i \in DOMAIN bus : bus'[i] = bus[i]
            /\ bus'[Len(bus) + 1] = press
        <4>1. bus' = bus \o <<press, close>>
          BY <1>2, <1>7
        <4> QED
          BY <1>4, <1>5, <4>1, TwoMore
      <3>2. Len(bus) + 1 \in DOMAIN bus' /\ \A i \in DOMAIN bus : i \in DOMAIN bus'
        BY <3>1
      <3> QED
        BY <3>1, <3>2
    <2>2. OnItsWay(n)'
      BY <1>6, <2>1 DEF OnItsWay
    <2>3. \A m \in owed : OnItsWay(m)'
      BY <1>2, <1>3, <1>7, <2>1, FurtherSignals DEF OwedIsOnItsWay
    <2> QED
      BY <1>3, <2>2, <2>3 DEF OwedIsOnItsWay
  <1>8. CASE channel # "desktop"
    <2>1. /\ \A i \in DOMAIN answers : i \in DOMAIN answers' /\ answers'[i] = answers[i]
          /\ \E i \in DOMAIN answers' : answers'[i] = answer
      BY <1>2, <1>4, <1>5, <1>8, OneMoreAnswer
    <2>2. OnItsWay(n)'
      BY <1>6, <2>1 DEF OnItsWay
    <2>3. \A m \in owed : OnItsWay(m)'
      BY <1>2, <1>3, <1>8, <2>1 DEF OwedIsOnItsWay, OnItsWay
    <2> QED
      BY <1>3, <2>2, <2>3 DEF OwedIsOnItsWay
  <1> QED
    BY <1>7, <1>8

LEMMA OthersCarry ==
    OnScreen /\ OwedIsOnItsWay /\ (Redresses \/ Restarts \/ PulseEnds \/ Person \/ UNCHANGED vars)
      => OwedIsOnItsWay'
  <1> SUFFICES ASSUME OnScreen, OwedIsOnItsWay, Redresses \/ Restarts \/ PulseEnds \/ Person \/ UNCHANGED vars
               PROVE  OwedIsOnItsWay'
    OBVIOUS
  <1>1. CASE \/ Redresses \/ Restarts \/ PulseEnds \/ AtTheIcon \/ SeesBox
             \/ (\E s \in Sessions : Command(s)) \/ UNCHANGED vars
    <2>1. UNCHANGED <<bus, answers, batch, owed>>
      BY <1>1 DEF Redresses, Restarts, PulseEnds, AtTheIcon, SeesBox, CloseBox, Command, LoopSame, Quiet,
                  channelVars, vars
    <2> QED
      BY <2>1, Carried
  <1>2. ASSUME NEW s \in Sessions, PressesStuck(s) PROVE OwedIsOnItsWay'
    <2>1. /\ UNCHANGED <<bus, batch, owed>>
          /\ \A i \in DOMAIN answers : i \in DOMAIN answers' /\ answers'[i] = answers[i]
      BY <1>2, OneStuck
    <2> QED
      BY <2>1 DEF OwedIsOnItsWay, OnItsWay
  <1> QED
    BY <1>1, <1>2, PressesCarries, ClosesCarries DEF Person

(***************************************************************************)
(* What a person has to see.                                               *)
(***************************************************************************)
\* A step that is not of the loop's leaving.
LEMMA Staying ==
    ASSUME Warned, UNCHANGED <<chosen, quit, lost, prompt>>,
           pc' \notin {"leaving", "seeing", "gone"}
    PROVE  Warned'
  BY DEF Warned

LEMMA LoopWarned == OnScreen /\ Warned /\ Loop => Warned'
  <1> SUFFICES ASSUME OnScreen, Warned, Loop PROVE Warned'
    OBVIOUS
  <1>1. back \notin {"leaving", "seeing", "gone"}
    BY Back DEF Backs
  <1>2. CASE (Requests /\ ~Disconnected) \/ Turn \/ (Opening /\ ~Stay)
    <2>1. UNCHANGED <<chosen, quit, lost, prompt>>
      BY <1>2 DEF Requests, Tick, Request, Close, Opening, NothingToOpen, AsksFirst, RecoverFails,
                  Opens, Refuses, Misrepresents, Turn, Asked, PumpAll, Settled, Answering,
                  TakeAnswers, DealtWith, Reveal, Insists, Settles, LetGo, SamePeople, trayVars
    <2>2. CASE Requests /\ ~Disconnected
      BY <2>1, <2>2, Staying DEF Requests, Tick, Request, Close, Goes
    <2>3. CASE Opening /\ ~Stay
      <3>1. pc' \in {"open", "asking", back}
        BY <2>3 DEF Opening, NothingToOpen, AsksFirst, RecoverFails, Opens, Refuses, Misrepresents,
                    Nothings, Ask, Returns, loop
      <3> QED
        BY <1>1, <2>1, <3>1, Staying
    <2>4. CASE Turn
      <3>1. pc' \in {"settling", "answers", "asking", "open", "show", back}
        BY <2>4 DEF Turn, Asked, PumpAll, Settled, Answering, TakeAnswers, DealtWith, Reveal,
                    Insists, Settles, LetGo, NextAnswer, Ask, Returns, Goes, loop
      <3> QED
        BY <1>1, <2>1, <3>1, Staying
    <2> QED
      BY <1>2, <2>2, <2>3, <2>4
  <1>3. CASE Stay
    <2>1. /\ UNCHANGED <<chosen, quit, lost, prompt, standing, troubles>>
          /\ pc' = IF HasAReasonToStay THEN "request" ELSE "seeing"
      BY <1>3 DEF Stay, SamePeople, trayVars, shows
    <2> QED
      BY <2>1 DEF Warned, HasAReasonToStay
  <1>4. CASE ShowAndTake
    <2>1. /\ chosen' = <<>> /\ UNCHANGED <<quit, lost, prompt, standing>>
          /\ pc' = IF Quit \in Chosen \/ (IsIdle /\ ~standing) THEN "leaving" ELSE "request"
      BY <1>4 DEF ShowAndTake, Taken, Goes, SamePeople
    <2>2. Quit \in Chosen => quit
      BY DEF Warned, Chosen, AllOf
    <2> QED
      BY <2>1, <2>2 DEF Warned
  <1>5. CASE StandDown
    <2>1. /\ UNCHANGED <<chosen, quit, lost, prompt, standing, troubles>>
          /\ pc = "leaving" /\ pc' = "seeing"
      BY <1>5 DEF StandDown, StopAsking, Goes, SamePeople, trayVars, shows
    <2> QED
      BY <2>1 DEF Warned
  <1>6. CASE SeeOut
    <2>1. /\ UNCHANGED <<chosen, quit, lost, prompt, standing, troubles, boxes>>
          /\ pc = "seeing" /\ (prompt \/ boxes = 0)
      BY <1>6 DEF SeeOut, Quiet, SamePeople, trayVars, shows, channelVars
    <2> QED
      BY <2>1 DEF Warned
  <1>7. CASE Disconnected
    <2>1. /\ UNCHANGED <<chosen, quit, prompt, standing, troubles, boxes>>
          /\ lost' = TRUE /\ pc' = "leaving"
      BY <1>7 DEF Disconnected, Goes, Quiet, trayVars, shows, channelVars
    <2> QED
      BY <2>1 DEF Warned
  <1> QED
    BY <1>2, <1>3, <1>4, <1>5, <1>6, <1>7 DEF Loop, Standing

\* A step of anybody else's, of which only the person's at the icon is seen here.
LEMMA OthersWarned ==
    Warned /\ (Hears \/ Redresses \/ Restarts \/ PulseEnds \/ Person \/ UNCHANGED vars) => Warned'
  <1> SUFFICES ASSUME Warned, Hears \/ Redresses \/ Restarts \/ PulseEnds \/ Person \/ UNCHANGED vars
               PROVE  Warned'
    OBVIOUS
  <1>1. CASE AtTheIcon
    <2>1. /\ UNCHANGED <<pc, lost, prompt, standing, troubles>> /\ pc = "show" /\ chosen = <<>>
          /\ \/ quit' = quit /\ chosen' = chosen
             \/ quit' = quit /\ \E t : chosen' = Append(<<>>, PutDown(t))
             \/ quit' = TRUE
      BY <1>1 DEF AtTheIcon, Offer, Escape, Pick, PickQuit, LoopSame, loop, shows
    <2>2. ASSUME NEW t, NEW i \in DOMAIN Append(<<>>, PutDown(t))
          PROVE  Append(<<>>, PutDown(t))[i] # Quit
      <3>1. PutDown(t) # Quit
        BY DEF PutDown, Quit
      <3> HIDE DEF PutDown
      <3>2. Append(<<>>, PutDown(t)) = <<PutDown(t)>>
        OBVIOUS
      <3>3. i = 1
        BY <2>2, <3>2
      <3> QED
        BY <3>1, <3>2, <3>3
    <2> QED
      BY <2>1, <2>2 DEF Warned
  <1>2. CASE \/ Hears \/ Redresses \/ Restarts \/ (\E n \in screen : Presses(n) \/ Closes(n)) \/ SeesBox
             \/ (\E s \in Sessions : Command(s) \/ PressesStuck(s)) \/ PulseEnds \/ UNCHANGED vars
    <2>1. UNCHANGED <<pc, chosen, quit, lost, prompt, standing, troubles>>
      BY <1>2 DEF Hears, Redresses, Redress, Restarts, ShellRestarts, PulseEnds, Presses, Closes,
                  SeesBox, Command, PressesStuck, LoopSame,
                  loop, shows, trayVars, SamePeople, vars
    <2>2. boxes' = boxes \/ pc # "gone"
      BY <1>2 DEF Hears, Listen, Redresses, Restarts, PulseEnds, Presses, Closes, SeesBox, Command,
                  PressesStuck, LoopSame,
                  Alive, Quiet, channelVars, vars
    <2> QED
      BY <2>1, <2>2 DEF Warned
  <1> QED
    BY <1>1, <1>2 DEF Person

\* What is held has a directory, or the recover command has had it: a question is
\* asked of one that is there, and one is removed by an answer to its own.
LEMMA StillBacked ==
    ASSUME Backed, UNCHANGED <<left, held, elsewhere>>
    PROVE  Backed'
  BY DEF Backed

LEMMA AsksBacked == Backed /\ [Next]_vars => Backed'
  <1> SUFFICES ASSUME Backed, [Next]_vars PROVE Backed'
    OBVIOUS
  <1>1. CASE Requests \/ UNCHANGED vars
    BY <1>1, StillBacked DEF Requests, Tick, Disconnected, Request, Close, asked, vars
  <1>2. CASE Opening
    BY <1>2 DEF Opening, NothingToOpen, AsksFirst, RecoverFails, Opens, Refuses, Misrepresents, Stay,
                asked, Backed
  <1>3. CASE Turn
    BY <1>3 DEF Turn, Asked, PumpAll, Settled, Answering, TakeAnswers, DealtWith, Reveal, Insists,
                Settles, LetGo, StopAsking, asked, Backed
  <1>4. CASE Standing
    BY <1>4 DEF Standing, ShowAndTake, StandDown, SeeOut, StopAsking, asked, Backed
  <1>5. CASE Hears \/ Redresses \/ Restarts \/ PulseEnds
    BY <1>5 DEF Hears, Redresses, Restarts, PulseEnds, asked, Backed
  <1>6. CASE Person
    BY <1>6 DEF Person, Presses, Closes, SeesBox, AtTheIcon, Command, PressesStuck, asked, Backed
  <1> QED
    BY <1>1, <1>2, <1>3, <1>4, <1>5, <1>6 DEF Next, Loop

(***************************************************************************)
(* The theorems.                                                           *)
(***************************************************************************)
\* The invariant holds, however the loop, the listening thread, the icon and the
\* person come between each other's steps.
THEOREM Invariant == Spec => []IndInv
<1>1. Init => IndInv
  BY DEF Init, ChannelInit, IndInv, OnScreen, ChannelTypeOK, Screened, Signalled, InHand, Awaited,
         OwedIsOnItsWay, Backed, Warned, TrayInit
<1>2. IndInv /\ [Next]_vars => IndInv'
  <2> SUFFICES ASSUME IndInv, [Next]_vars PROVE IndInv'
    OBVIOUS
  <2>1. OnScreen /\ InHand /\ Awaited /\ OwedIsOnItsWay /\ Backed /\ Warned
    BY DEF IndInv
  <2>2. OnScreen'
    <3>1. CASE UNCHANGED vars
      <4>1. UNCHANGED <<channelVars, owed, held, back, pc>>
        BY <3>1 DEF vars, loop
      <4>2. back \in Backs /\ (pc \in {"seeing", "gone"} => held = {})
        BY <2>1, Back DEF OnScreen, Screened
      <4> QED
        BY <2>1, <4>1, <4>2, Unasked
    <3> QED
      BY <2>1, <3>1, RequestsStep, OpeningStep, TurnStep, StandingStep, Heard, OthersStep
      DEF Next, Loop
  <2>3. InHand' /\ Awaited'
    BY <2>1, OpeningAwaited, TurnAwaited, StandingAwaited, HeardAwaited, OthersAwaited
    DEF Next, Loop
  <2>4. Warned'
    BY <2>1, LoopWarned, OthersWarned DEF Next
  <2>5. OwedIsOnItsWay'
    BY <2>1, LoopCarries, HearsCarries, OthersCarry DEF Next
  <2>6. Backed'
    BY <2>1, AsksBacked
  <2> QED
    BY <2>2, <2>3, <2>4, <2>5, <2>6 DEF IndInv
<1> QED
  BY <1>1, <1>2, PTL DEF Spec

\* No button outlives its question: what is on a screen to be pressed, and could
\* be withdrawn, is about a session held by a process that is there to act, and a
\* directory that is there to be acted on or that the recover command has settled.
THEOREM ButtonsHeld == Spec => []NoButtonOutlivesItsQuestion
<1>1. IndInv => NoButtonOutlivesItsQuestion
  BY DEF IndInv, OnScreen, Screened, Backed, NoButtonOutlivesItsQuestion, Alive
<1> QED
  BY <1>1, Invariant, PTL

\* A press that is owed an answer is missed only where its notification is on the
\* screen and its number not yet recorded.
THEOREM WindowOnly == Spec => OnlyTheWindowIsMissed
<1>1. IndInv => [Unheard /\ bus' = Tail(bus) /\ Head(bus).of \in owed
                   => pc = "asking" /\ Head(bus).of \in putting]_vars
  <2> SUFFICES ASSUME IndInv, Unheard, Head(bus).of \in owed
               PROVE  pc = "asking" /\ Head(bus).of \in putting
    OBVIOUS
  <2>1. 1 \in DOMAIN bus /\ Head(bus) = bus[1]
    BY OneFewer DEF IndInv, OnScreen, ChannelTypeOK, Unheard
  <2>2. Head(bus).of \in putting
    BY <2>1 DEF IndInv, OnScreen, Signalled, Unheard
  <2> QED
    BY <2>2 DEF IndInv, OnScreen, Screened
<1> QED
  BY <1>1, Invariant, PTL DEF OnlyTheWindowIsMissed

\* Where there are buttons, a question that is held is one that somebody can press
\* or has pressed, or it is known why nobody can.
THEOREM Stranded == Spec => []StrandedOnlyAsKnown
<1>1. IndInv => StrandedOnlyAsKnown
  <2> SUFFICES ASSUME IndInv, HasButtons, NEW s \in held, s \notin excused
               PROVE  s \in {n.about : n \in screen} \cup Pressed
    BY DEF StrandedOnlyAsKnown
  <2>1. Awaits(s)
    BY DEF IndInv, Awaited
  <2> QED
    BY <2>1 DEF Awaits, Pressed, Waiting, Abouts
<1> QED
  BY <1>1, Invariant, PTL

\* A press that is owed an answer is on the bus, or put down by the thread that
\* listens, or in the loop's hand, for as long as it is owed.
THEOREM OnTheWay == Spec => []OwedIsOnItsWay
<1>1. IndInv => OwedIsOnItsWay
  BY DEF IndInv
<1> QED
  BY <1>1, Invariant, PTL

\* A warning is not taken down unseen.
THEOREM Warnings == Spec => []WarningsAreSeen
<1>1. IndInv => WarningsAreSeen
  BY DEF IndInv, Warned, WarningsAreSeen, Alive
<1> QED
  BY <1>1, Invariant, PTL
===============================================================================
