-------------------------- MODULE HostInput_proofs ---------------------------
(***************************************************************************)
(* Theorems about HostInput: the ring is a bounded queue between the       *)
(* host's messages and the game, and what the game knows follows what the  *)
(* player holds, for any number of buttons and keys, any ring, and any set *)
(* of callbacks.                                                           *)
(***************************************************************************)
EXTENDS HostInput, SequenceTheorems, TLAPS

Controls == Buttons \cup Specials

\* Where the loop is, and where it goes on: a pump or a callback knows where it
\* was started from.
Backs == {"visibility", "pump", "deliver", "display", "game"}
ReturnsKnown ==
  /\ pc = "pump" => pumpTo \in {"deliver", "callback", "game"}
  /\ pc = "callback" \/ (pc = "pump" /\ pumpTo = "callback") => backTo \in Backs

\* What the first n of the events queued will have told of w, added to what the
\* game knows of it already, is whether w is in held.
Speaks(e, w) == e.kind = "switch" /\ e.what = w

Tells(q, n, known, w, held) ==
  /\ \A i \in 1..n : Speaks(q[i], w) /\ (\A j \in i + 1..n : ~Speaks(q[j], w)) =>
       (q[i].down <=> w \in held)
  /\ (\A i \in 1..n : ~Speaks(q[i], w)) => (w \in known <=> w \in held)

Typed ==
  /\ TypeOK
  /\ \A i \in 1..Len(Queued) : Queued[i] \in Events

\* The last message about a control says how the player left it.
MessagesTell ==
  \A w \in Controls, i \in 1..Len(messages) :
    About(i, w) /\ (\A j \in i + 1..Len(messages) : ~About(j, w)) =>
      (messages[i].kind = "down" <=> w \in down)

Quiet(w) == \A i \in 1..Len(messages) : ~About(i, w)

\* When no message about a control is left, what is queued tells the same; it
\* tells the window procedure's buttons; and up to a motion, the buttons of
\* that motion.
QueueTells ==
  \A w \in Controls :
    Heard(w) /\ Quiet(w) => Tells(Queued, Len(Queued), view, w, down)
ButtonsTold ==
  \A b \in Buttons : Heard(b) => Tells(Queued, Len(Queued), view, b, buttons)
MotionsTold ==
  \A b \in Buttons, k \in 1..Len(Queued) :
    Heard(b) /\ Queued[k].kind = "motion" => Tells(Queued, k - 1, view, b, Queued[k].held)

\* The motion delivered last has the buttons the game knows of.
DeliveredAgrees ==
  event # NULL /\ event.kind = "motion" =>
    \A b \in Buttons : Heard(b) => (b \in event.held <=> b \in view)

Followed ==
  ~dropped => QueueTells /\ ButtonsTold /\ MotionsTold /\ DeliveredAgrees

InputInv == Typed /\ ReturnsKnown /\ MessagesTell /\ Followed

----------------------------------------------------------------------------
(* The ring.                                                               *)

CountOf(h, t) == IF h >= t THEN h - t ELSE h - t + INQ
CellOf(t, i) == IF t + i - 1 < INQ THEN t + i - 1 ELSE t + i - 1 - INQ
Count == CountOf(head, tail)

\* Arithmetic of a ring that goes round at most once.
LEMMA RemainderOnce ==
  ASSUME NEW n \in Nat \ {0}, NEW y \in Nat, y < 2 * n
  PROVE  y % n = IF y < n THEN y ELSE y - n
<1>1. y = n * (y \div n) + (y % n) /\ y % n \in 0..n - 1 /\ y \div n \in Int
  OBVIOUS
<1>2. CASE y < n
  <2>1. y % n = y
    BY <1>2
  <2> QED BY <1>2, <2>1
<1>3. CASE y >= n
  <2>1. CASE y \div n <= 0
    <3>1. n * (y \div n) <= 0
      BY <1>1, <2>1
    <3> QED BY <1>1, <1>3, <3>1
  <2>2. CASE y \div n >= 2
    <3>1. n * (y \div n) >= n * 2
      BY <1>1, <2>2
    <3> QED BY <1>1, <3>1
  <2>3. CASE y \div n = 1
    <3>1. n * (y \div n) = n
      BY <2>3
    <3>2. y % n = y - n
      BY <1>1, <3>1
    <3> QED BY <1>3, <3>2
  <2> QED BY <1>1, <2>1, <2>2, <2>3
<1> QED BY <1>2, <1>3

LEMMA Wrapped ==
  ASSUME NEW x \in Int, 0 <= x, x < 2 * INQ
  PROVE  x % INQ = IF x < INQ THEN x ELSE x - INQ
<1>1. INQ \in Nat \ {0} /\ x \in Nat
  BY InputAssumption
<1> QED BY <1>1, RemainderOnce

LEMMA IsAppend ==
  ASSUME NEW S, NEW s \in Seq(S), NEW e \in S, NEW r \in Seq(S),
         Len(r) = Len(s) + 1, r[Len(s) + 1] = e, \A i \in 1..Len(s) : r[i] = s[i]
  PROVE  r = Append(s, e)
<1> DEFINE t == Append(s, e)
<1>1. /\ t \in Seq(S) /\ Len(t) = Len(s) + 1 /\ Len(s) \in Nat /\ t[Len(s) + 1] = e
      /\ \A i \in 1..Len(s) : t[i] = s[i]
  BY AppendProperties
<1> HIDE DEF t
<1>2. \A i \in 1..Len(r) : r[i] = t[i]
  BY <1>1
<1>3. r = t
  BY <1>1, <1>2, SeqEqual
<1> QED BY <1>3 DEF t

LEMMA IsTail ==
  ASSUME NEW S, NEW s \in Seq(S), s # <<>>, NEW r \in Seq(S),
         Len(r) = Len(s) - 1, \A i \in 1..Len(s) - 1 : r[i] = s[i + 1]
  PROVE  r = Tail(s)
<1> DEFINE t == Tail(s)
<1>1. /\ t \in Seq(S) /\ Len(t) = Len(s) - 1 /\ Len(s) \in Nat
      /\ \A i \in 1..Len(t) : t[i] = s[i + 1]
  BY HeadTailProperties
<1> HIDE DEF t
<1>2. \A i \in 1..Len(r) : r[i] = t[i]
  BY <1>1
<1>3. r = t
  BY <1>1, <1>2, SeqEqual
<1> QED BY <1>3 DEF t

LEMMA NextIs ==
  ASSUME NEW x \in 0..INQ - 1
  PROVE  (x + 1) % INQ = IF x = INQ - 1 THEN 0 ELSE x + 1
<1> USE InputAssumption
<1> DEFINE y == x + 1
<1>1. y \in Int /\ 0 <= y /\ y < 2 * INQ
  OBVIOUS
<1>2. y % INQ = IF y < INQ THEN y ELSE y - INQ
  <2> HIDE DEF y
  <2> QED BY <1>1, Wrapped
<1> QED BY <1>2

LEMMA RingIs ==
  ASSUME NEW h \in 0..INQ - 1, NEW t \in 0..INQ - 1
  PROVE  /\ CountOf(h, t) \in 0..INQ - 1
         /\ \A i \in 1..CountOf(h, t) : CellOf(t, i) \in 0..INQ - 1
         /\ (h - t + INQ) % INQ = CountOf(h, t)
         /\ \A i \in 1..CountOf(h, t) : (t + i - 1) % INQ = CellOf(t, i)
<1> USE InputAssumption
<1>1. CountOf(h, t) \in 0..INQ - 1
  BY DEF CountOf
<1>2. (h - t + INQ) % INQ = CountOf(h, t)
  <2> DEFINE x == h - t + INQ
  <2>1. x \in Int /\ 0 <= x /\ x < 2 * INQ
    OBVIOUS
  <2>2. x % INQ = IF x < INQ THEN x ELSE x - INQ
    <3> HIDE DEF x
    <3> QED BY <2>1, Wrapped
  <2> QED BY <2>2 DEF CountOf
<1>3. \A i \in 1..CountOf(h, t) : (t + i - 1) % INQ = CellOf(t, i)
  <2> SUFFICES ASSUME NEW i \in 1..CountOf(h, t)
               PROVE  (t + i - 1) % INQ = CellOf(t, i)
    OBVIOUS
  <2> DEFINE y == t + i - 1
  <2>1. y \in Int /\ 0 <= y /\ y < 2 * INQ
    BY <1>1
  <2>2. y % INQ = IF y < INQ THEN y ELSE y - INQ
    <3> HIDE DEF y
    <3> QED BY <2>1, Wrapped
  <2> QED BY <2>2 DEF CellOf
<1>4. \A i \in 1..CountOf(h, t) : CellOf(t, i) \in 0..INQ - 1
  BY <1>1 DEF CellOf
<1> QED BY <1>1, <1>2, <1>3, <1>4

LEMMA QueuedIs ==
  ASSUME head \in 0..INQ - 1, tail \in 0..INQ - 1
  PROVE  /\ Count \in 0..INQ - 1
         /\ Queued = [i \in 1..Count |-> inq[CellOf(tail, i)]]
         /\ \A i \in 1..Count : CellOf(tail, i) \in 0..INQ - 1
         /\ Len(Queued) = Count
<1>1. /\ Count \in 0..INQ - 1
      /\ \A i \in 1..Count : CellOf(tail, i) \in 0..INQ - 1
      /\ (head - tail + INQ) % INQ = Count
      /\ \A i \in 1..Count : (tail + i - 1) % INQ = CellOf(tail, i)
  BY RingIs DEF Count
<1>2. Queued = [i \in 1..Count |-> inq[CellOf(tail, i)]]
  <2> HIDE DEF Count
  <2> QED BY <1>1 DEF Queued
<1> HIDE DEF Count, Queued
<1> QED BY <1>1, <1>2, InputAssumption

LEMMA FullIs ==
  ASSUME head \in 0..INQ - 1, tail \in 0..INQ - 1
  PROVE  /\ Full <=> Count = INQ - 1
         /\ head = tail <=> Count = 0
<1>1. (head + 1) % INQ = IF head = INQ - 1 THEN 0 ELSE head + 1
  BY NextIs
<1> QED BY <1>1, InputAssumption DEF Full, Count, CountOf

LEMMA TypedRing ==
  ASSUME Typed
  PROVE  /\ head \in 0..INQ - 1 /\ tail \in 0..INQ - 1
         /\ inq \in [0..INQ - 1 -> Events \cup {NULL}]
         /\ Queued \in Seq(Events) /\ Len(Queued) = Count
<1>1. /\ head \in 0..INQ - 1 /\ tail \in 0..INQ - 1
      /\ inq \in [0..INQ - 1 -> Events \cup {NULL}]
  BY DEF Typed, TypeOK
<1>2. /\ Count \in 0..INQ - 1 /\ Len(Queued) = Count
      /\ Queued = [i \in 1..Count |-> inq[CellOf(tail, i)]]
  BY <1>1, QueuedIs
<1>3. \A i \in 1..Count : Queued[i] \in Events
  BY <1>2 DEF Typed
<1> HIDE DEF Count, Queued
<1>4. Queued = [i \in 1..Count |-> Queued[i]]
  BY <1>2
<1> QED BY <1>1, <1>2, <1>3, <1>4

\* in_push into a ring that is not full appends.
LEMMA Pushed ==
  ASSUME Typed, NEW e \in Events, InPush(e), ~Full
  PROVE  /\ dropped' = dropped
         /\ head' \in 0..INQ - 1 /\ tail' \in 0..INQ - 1
         /\ inq' \in [0..INQ - 1 -> Events \cup {NULL}]
         /\ Queued' = Append(Queued, e)
<1> USE InputAssumption
<1>1. /\ head \in 0..INQ - 1 /\ tail \in 0..INQ - 1
      /\ inq \in [0..INQ - 1 -> Events \cup {NULL}]
      /\ Queued \in Seq(Events)
  BY TypedRing
<1>2. /\ inq' = [inq EXCEPT ![head] = e] /\ head' = (head + 1) % INQ
      /\ dropped' = dropped /\ tail' = tail
  BY DEF InPush
<1>3. head' = IF head = INQ - 1 THEN 0 ELSE head + 1
  BY <1>1, <1>2, NextIs
<1>4. /\ head' \in 0..INQ - 1 /\ tail' \in 0..INQ - 1
      /\ inq' \in [0..INQ - 1 -> Events \cup {NULL}]
  BY <1>1, <1>2, <1>3
<1>5. Count \in 0..INQ - 1 /\ Count # INQ - 1
  BY <1>1, FullIs, QueuedIs
<1>6. CountOf(head', tail) = Count + 1
  BY <1>1, <1>3, <1>5 DEF Count, CountOf
<1>7. Queued' = [i \in 1..Count + 1 |-> inq'[CellOf(tail, i)]]
  <2>1. Queued' = [i \in 1..CountOf(head', tail') |-> inq'[CellOf(tail', i)]]
    <3>1. /\ (head' - tail' + INQ) % INQ = CountOf(head', tail')
          /\ \A i \in 1..CountOf(head', tail') : (tail' + i - 1) % INQ = CellOf(tail', i)
      BY <1>4, RingIs
    <3> HIDE DEF CountOf, CellOf
    <3> QED BY <3>1 DEF Queued
  <2> QED BY <2>1, <1>2, <1>6
<1>8. /\ Queued = [i \in 1..Count |-> inq[CellOf(tail, i)]]
      /\ \A i \in 1..Count : CellOf(tail, i) \in 0..INQ - 1
      /\ Len(Queued) = Count
  BY <1>1, QueuedIs
<1>9. /\ CellOf(tail, Count + 1) = head
      /\ \A i \in 1..Count : CellOf(tail, i) # head
  BY <1>1, <1>5 DEF Count, CountOf, CellOf
<1> HIDE DEF Count, Queued, CellOf
<1>10. \A i \in 1..Count : inq'[CellOf(tail, i)] = inq[CellOf(tail, i)]
  BY <1>1, <1>2, <1>8, <1>9
<1>11. inq'[CellOf(tail, Count + 1)] = e
  BY <1>1, <1>2, <1>9
<1>12. Queued' = [i \in 1..Count + 1 |-> IF i = Count + 1 THEN e ELSE Queued[i]]
  BY <1>5, <1>7, <1>8, <1>10, <1>11
<1>13. /\ Queued' \in Seq(Events) /\ Len(Queued') = Len(Queued) + 1
       /\ Queued'[Len(Queued) + 1] = e /\ \A i \in 1..Len(Queued) : Queued'[i] = Queued[i]
  BY <1>1, <1>5, <1>8, <1>12
<1>14. Queued' = Append(Queued, e)
  BY <1>1, <1>13, IsAppend
<1> QED BY <1>2, <1>4, <1>14

\* host_input_pop takes the first.
LEMMA Popped ==
  ASSUME Typed, NEW e, Pop(e)
  PROVE  /\ head' \in 0..INQ - 1 /\ tail' \in 0..INQ - 1
         /\ inq' \in [0..INQ - 1 -> Events \cup {NULL}]
         /\ Queued # <<>> /\ e = Head(Queued) /\ Queued' = Tail(Queued)
<1> USE InputAssumption
<1>1. /\ head \in 0..INQ - 1 /\ tail \in 0..INQ - 1
      /\ inq \in [0..INQ - 1 -> Events \cup {NULL}]
      /\ Queued \in Seq(Events)
  BY TypedRing
<1>2. /\ inq' = inq /\ head' = head /\ tail' = (tail + 1) % INQ
      /\ head # tail /\ e = inq[tail]
  BY DEF Pop
<1>3. tail' = IF tail = INQ - 1 THEN 0 ELSE tail + 1
  BY <1>1, <1>2, NextIs
<1>4. /\ head' \in 0..INQ - 1 /\ tail' \in 0..INQ - 1
      /\ inq' \in [0..INQ - 1 -> Events \cup {NULL}]
  BY <1>1, <1>2, <1>3
<1>5. Count \in 0..INQ - 1 /\ Count # 0
  BY <1>1, <1>2, FullIs, QueuedIs
<1>6. CountOf(head, tail') = Count - 1
  BY <1>1, <1>2, <1>3 DEF Count, CountOf
<1>7. Queued' = [i \in 1..Count - 1 |-> inq[CellOf(tail', i)]]
  <2>1. Queued' = [i \in 1..CountOf(head', tail') |-> inq'[CellOf(tail', i)]]
    <3>1. /\ (head' - tail' + INQ) % INQ = CountOf(head', tail')
          /\ \A i \in 1..CountOf(head', tail') : (tail' + i - 1) % INQ = CellOf(tail', i)
      BY <1>4, RingIs
    <3> HIDE DEF CountOf, CellOf
    <3> QED BY <3>1 DEF Queued
  <2> QED BY <2>1, <1>2, <1>6
<1>8. /\ Queued = [i \in 1..Count |-> inq[CellOf(tail, i)]]
      /\ Len(Queued) = Count
  BY <1>1, QueuedIs
<1>9. /\ CellOf(tail, 1) = tail
      /\ \A i \in 1..Count - 1 : CellOf(tail', i) = CellOf(tail, i + 1)
  BY <1>1, <1>3, <1>5 DEF CellOf
<1> HIDE DEF Count, Queued, CellOf
<1>10. e = Queued[1] /\ Queued # <<>>
  BY <1>2, <1>5, <1>8, <1>9
<1>11. Queued' = [i \in 1..Count - 1 |-> Queued[i + 1]]
  BY <1>5, <1>7, <1>8, <1>9
<1>12. /\ Queued' \in Seq(Events) /\ Len(Queued') = Len(Queued) - 1
       /\ \A i \in 1..Len(Queued) - 1 : Queued'[i] = Queued[i + 1]
  BY <1>1, <1>5, <1>8, <1>11
<1>13. Queued' = Tail(Queued)
  BY <1>1, <1>10, <1>12, IsTail
<1> QED BY <1>4, <1>1, <1>10, <1>13

----------------------------------------------------------------------------
(* What a queue tells.                                                     *)

LEMMA TellsAppend ==
  ASSUME NEW q \in Seq(Events), NEW e \in Events, NEW r, r = Append(q, e),
         NEW known, NEW w, NEW held
  PROVE  /\ \A n \in 0..Len(q) : Tells(q, n, known, w, held) => Tells(r, n, known, w, held)
         /\ Speaks(e, w) /\ (e.down <=> w \in held) => Tells(r, Len(r), known, w, held)
         /\ ~Speaks(e, w) /\ Tells(q, Len(q), known, w, held) =>
              Tells(r, Len(r), known, w, held)
<1>1. /\ Len(q) \in Nat /\ Len(r) = Len(q) + 1 /\ r[Len(q) + 1] = e
      /\ \A i \in 1..Len(q) : r[i] = q[i]
  BY AppendProperties
<1>2. \A n \in 0..Len(q) : Tells(q, n, known, w, held) => Tells(r, n, known, w, held)
  BY <1>1 DEF Tells
<1>3. ASSUME Speaks(e, w), e.down <=> w \in held
      PROVE  Tells(r, Len(r), known, w, held)
  <2>1. \A i \in 1..Len(r) : i # Len(r) => Len(r) \in i + 1..Len(r)
    BY <1>1
  <2>2. Len(r) \in 1..Len(r) /\ Speaks(r[Len(r)], w)
    BY <1>1, <1>3
  <2> QED BY <1>1, <1>3, <2>1, <2>2 DEF Tells
<1>4. ASSUME ~Speaks(e, w), Tells(q, Len(q), known, w, held)
      PROVE  Tells(r, Len(r), known, w, held)
  <2> HIDE DEF Speaks
  <2>1. \A i \in 1..Len(r) : ~Speaks(r[i], w) \/ i \in 1..Len(q)
    BY <1>1, <1>4
  <2>2. ASSUME NEW i \in 1..Len(r), Speaks(r[i], w),
               \A j \in i + 1..Len(r) : ~Speaks(r[j], w)
        PROVE  r[i].down <=> w \in held
    <3>1. i \in 1..Len(q) /\ r[i] = q[i]
      BY <1>1, <2>1, <2>2
    <3>2. \A j \in i + 1..Len(q) : ~Speaks(q[j], w)
      BY <1>1, <2>2, <3>1
    <3> QED BY <1>4, <2>2, <3>1, <3>2 DEF Tells
  <2>3. (\A i \in 1..Len(r) : ~Speaks(r[i], w)) => (w \in known <=> w \in held)
    BY <1>1, <1>4 DEF Tells
  <2> QED BY <2>2, <2>3 DEF Tells
<1> QED BY <1>2, <1>3, <1>4

LEMMA TellsTail ==
  ASSUME NEW q \in Seq(Events), q # <<>>, NEW r, r = Tail(q), NEW n \in 1..Len(q),
         NEW known, NEW after, NEW w, NEW held, Tells(q, n, known, w, held),
         Speaks(q[1], w) => (w \in after <=> q[1].down),
         ~Speaks(q[1], w) => (w \in after <=> w \in known)
  PROVE  Tells(r, n - 1, after, w, held)
<1>1. /\ Len(q) \in Nat /\ Len(r) = Len(q) - 1 /\ n \in Nat
      /\ \A i \in 1..Len(r) : r[i] = q[i + 1]
  BY HeadTailProperties
<1>2. \A i \in 1..n - 1 : r[i] = q[i + 1] /\ i + 1 \in 1..n
  BY <1>1
<1>3. ASSUME NEW i \in 1..n - 1, Speaks(r[i], w), \A j \in i + 1..n - 1 : ~Speaks(r[j], w)
      PROVE  r[i].down <=> w \in held
  <2>1. \A j \in (i + 1) + 1..n : ~Speaks(q[j], w)
    <3> SUFFICES ASSUME NEW j \in (i + 1) + 1..n
                 PROVE  ~Speaks(q[j], w)
      OBVIOUS
    <3>1. j - 1 \in i + 1..n - 1 /\ j - 1 \in 1..n - 1 /\ (j - 1) + 1 = j
      OBVIOUS
    <3> QED BY <1>2, <1>3, <3>1
  <2> QED BY <1>2, <1>3, <2>1 DEF Tells
<1>4. ASSUME \A i \in 1..n - 1 : ~Speaks(r[i], w)
      PROVE  w \in after <=> w \in held
  <2>1. \A j \in 2..n : ~Speaks(q[j], w)
    <3> SUFFICES ASSUME NEW j \in 2..n
                 PROVE  ~Speaks(q[j], w)
      OBVIOUS
    <3>1. j - 1 \in 1..n - 1 /\ (j - 1) + 1 = j
      BY <1>1
    <3> QED BY <1>2, <1>4, <3>1
  <2>2. CASE Speaks(q[1], w)
    <3>1. 1 \in 1..n /\ 1 + 1 = 2
      BY <1>1
    <3>2. q[1].down <=> w \in held
      BY <2>1, <2>2, <3>1 DEF Tells
    <3> QED BY <2>2, <3>2
  <2>3. CASE ~Speaks(q[1], w)
    <3>1. \A i \in 1..n : ~Speaks(q[i], w)
      <4>1. \A i \in 1..n : i = 1 \/ i \in 2..n
        BY <1>1
      <4> QED BY <2>1, <2>3, <4>1
    <3> QED BY <2>3, <3>1 DEF Tells
  <2> QED BY <2>2, <2>3
<1> QED BY <1>3, <1>4 DEF Tells

----------------------------------------------------------------------------
(* The steps, by what they do to messages and queue.                       *)

LEMMA EventFacts ==
  ASSUME NEW e \in Events
  PROVE  /\ e.kind \in {"motion", "switch"} \cup CharKinds
         /\ e.kind = "motion" => e.held \subseteq Buttons
         /\ e.kind = "switch" => e.what \in Controls /\ e.down \in BOOLEAN
                                 /\ e = Switch(e.what, e.down)
BY DEF Events, Motion, Char, Switch, Controls, CharKinds

LEMMA InitInput == Init => InputInv
<1> SUFFICES ASSUME Init
             PROVE  InputInv
  OBVIOUS
<1> USE InputAssumption
<1>1. head = 0 /\ tail = 0 /\ messages = <<>> /\ view = {} /\ down = {} /\ buttons = {}
      /\ event = NULL
  BY DEF Init
<1>2. head \in 0..INQ - 1 /\ tail \in 0..INQ - 1
  BY <1>1
<1>3. Len(Queued) = 0
  BY <1>1, <1>2, FullIs, QueuedIs
<1>4. Typed
  <2>1. messages \in Seq(Message) /\ inq \in [0..INQ - 1 -> Events \cup {NULL}]
    BY DEF Init
  <2>2. TypeOK
    <3>1. dropped \in BOOLEAN /\ quit \in BOOLEAN /\ redisplay \in BOOLEAN
      BY DEF Init
    <3>2. loop \in {"main", "event"} /\ pc \in PCs /\ pumpTo \in PCs \cup {NULL}
          /\ backTo \in PCs \cup {NULL} /\ sent \in 0..MaxMessages /\ swaps \in 0..MaxSwaps
          /\ moved \in BOOLEAN
      BY DEF Init, PCs
    <3> QED BY <1>1, <1>2, <2>1, <3>1, <3>2 DEF TypeOK
  <2> QED BY <1>3, <2>2 DEF Typed
<1>5. ReturnsKnown
  BY DEF Init, ReturnsKnown
<1>6. MessagesTell
  BY <1>1 DEF MessagesTell
<1>7. Followed
  <2>1. \A w : Tells(Queued, Len(Queued), view, w, down)
    BY <1>1, <1>3 DEF Tells
  <2>2. \A w : Tells(Queued, Len(Queued), view, w, buttons)
    BY <1>1, <1>3 DEF Tells
  <2>3. MotionsTold /\ DeliveredAgrees
    BY <1>1, <1>3 DEF MotionsTold, DeliveredAgrees
  <2> QED BY <2>1, <2>2, <2>3 DEF Followed, QueueTells, ButtonsTold
<1> QED BY <1>4, <1>5, <1>6, <1>7 DEF InputInv

\* A step that leaves messages, queue and view alone.
LEMMA Elsewhere ==
  ASSUME InputInv, TypeOK', ReturnsKnown',
         UNCHANGED <<down, messages, buttons, ringVars, dropped, view>>,
         event' = event \/ event' = NULL
  PROVE  InputInv'
<1>1. Queued' = Queued
  BY DEF Queued, ringVars
<1>2. Typed'
  BY <1>1 DEF InputInv, Typed
<1>3. \A i, w : About(i, w)' <=> About(i, w)
  BY DEF About
<1>4. MessagesTell'
  BY <1>3 DEF InputInv, MessagesTell
<1>5. Followed'
  BY <1>1, <1>3 DEF InputInv, Followed, QueueTells, Quiet, ButtonsTold, MotionsTold,
                    DeliveredAgrees
<1> QED BY <1>2, <1>4, <1>5 DEF InputInv

\* The player does something: the last message tells what.
LEMMA Sent ==
  ASSUME InputInv, TypeOK', ReturnsKnown', NEW m \in Message,
         messages' = Append(messages, m),
         \A w \in Controls :
           IF m.kind \in {"down", "up"} /\ m.what = w THEN m.kind = "down" <=> w \in down'
           ELSE w \in down' <=> w \in down,
         UNCHANGED <<buttons, ringVars, dropped, view, event>>
  PROVE  InputInv'
<1>1. Queued' = Queued
  BY DEF Queued, ringVars
<1>2. Typed'
  BY <1>1 DEF InputInv, Typed
<1>3. messages \in Seq(Message)
  BY DEF InputInv, Typed, TypeOK
<1> DEFINE Mine(w) == m.kind \in {"down", "up"} /\ m.what = w
<1>n. PICK n : n = Len(messages)
  OBVIOUS
<1>4. /\ n \in Nat /\ Len(messages') = n + 1 /\ messages'[n + 1] = m
      /\ \A i \in 1..n : messages'[i] = messages[i]
  BY <1>n, <1>3, AppendProperties
<1>5. \A w : /\ \A i \in 1..n : About(i, w)' <=> About(i, w)
             /\ About(n + 1, w)' <=> Mine(w)
  BY <1>4 DEF About
<1>6. n + 1 \in 1..n + 1 /\ \A i \in 1..n : i \in 1..n + 1 /\ n + 1 \in i + 1..n + 1
  BY <1>4
<1>7. MessagesTell'
  <2> SUFFICES ASSUME NEW w \in Controls, NEW i \in 1..n + 1, About(i, w)',
                      \A j \in i + 1..n + 1 : ~About(j, w)'
               PROVE  messages'[i].kind = "down" <=> w \in down'
    BY <1>n, <1>4 DEF MessagesTell
  <2>1. CASE Mine(w)
    <3>1. i = n + 1
      <4>1. i \in 1..n \/ i = n + 1
        BY <1>4
      <4> QED BY <1>5, <1>6, <2>1, <4>1
    <3> QED BY <1>4, <2>1, <3>1
  <2>2. CASE ~Mine(w)
    <3>1. i \in 1..n /\ About(i, w)
      <4>1. i \in 1..n \/ i = n + 1
        BY <1>4
      <4> QED BY <1>5, <2>2, <4>1
    <3>2. \A j \in i + 1..n : ~About(j, w)
      <4>1. \A j \in i + 1..n : j \in i + 1..n + 1 /\ j \in 1..n
        BY <1>4, <3>1
      <4> QED BY <1>5, <4>1
    <3>3. messages[i].kind = "down" <=> w \in down
      BY <1>n, <3>1, <3>2 DEF InputInv, MessagesTell
    <3> QED BY <1>4, <2>2, <3>1, <3>3
  <2> QED BY <2>1, <2>2
<1>8. \A w \in Controls : Quiet(w)' => Quiet(w) /\ ~Mine(w)
  BY <1>n, <1>4, <1>5, <1>6 DEF Quiet
<1>9. Followed'
  <2>1. QueueTells => QueueTells'
    <3> SUFFICES ASSUME QueueTells, NEW w \in Controls, Heard(w), Quiet(w)'
                 PROVE  Tells(Queued, Len(Queued), view, w, down')
      BY <1>1 DEF QueueTells
    <3>1. Tells(Queued, Len(Queued), view, w, down) /\ (w \in down' <=> w \in down)
      BY <1>8 DEF QueueTells
    <3> QED BY <3>1 DEF Tells
  <2>2. /\ ButtonsTold => ButtonsTold'
        /\ MotionsTold => MotionsTold'
        /\ DeliveredAgrees => DeliveredAgrees'
    BY <1>1 DEF ButtonsTold, MotionsTold, DeliveredAgrees
  <2> QED BY <2>1, <2>2 DEF InputInv, Followed
<1> QED BY <1>2, <1>7, <1>9 DEF InputInv

\* The first message has been dispatched.
LEMMA Dispatched ==
  ASSUME InputInv, messages # <<>>, messages' = Tail(messages), down' = down
  PROVE  /\ MessagesTell'
         /\ \A w \in Controls : Quiet(w)' => Quiet(w) \/ About(1, w)
         /\ \A w \in Controls : Quiet(w)' /\ About(1, w) =>
              (messages[1].kind = "down" <=> w \in down)
<1>1. messages \in Seq(Message)
  BY DEF InputInv, Typed, TypeOK
<1> DEFINE n == Len(messages)
<1>2. /\ n \in Nat /\ n >= 1 /\ Len(messages') = n - 1
      /\ \A i \in 1..n - 1 : messages'[i] = messages[i + 1]
  BY <1>1, HeadTailProperties
<1>3. \A i \in 1..n - 1 : \A w : About(i, w)' <=> About(i + 1, w)
  BY <1>2 DEF About
<1> HIDE DEF n
<1>4. MessagesTell'
  <2> SUFFICES ASSUME NEW w \in Controls, NEW i \in 1..n - 1, About(i, w)',
                      \A j \in i + 1..n - 1 : ~About(j, w)'
               PROVE  messages'[i].kind = "down" <=> w \in down
    BY <1>2 DEF MessagesTell, n
  <2>1. i + 1 \in 1..n /\ About(i + 1, w)
    BY <1>2, <1>3
  <2>2. \A j \in (i + 1) + 1..n : ~About(j, w)
    <3> SUFFICES ASSUME NEW j \in (i + 1) + 1..n
                 PROVE  ~About(j, w)
      OBVIOUS
    <3>1. j - 1 \in i + 1..n - 1 /\ j - 1 \in 1..n - 1 /\ (j - 1) + 1 = j
      BY <1>2
    <3> QED BY <1>3, <3>1
  <2>3. messages[i + 1].kind = "down" <=> w \in down
    BY <2>1, <2>2 DEF InputInv, MessagesTell, n
  <2> QED BY <1>2, <2>3
<1>5. ASSUME NEW w \in Controls, Quiet(w)'
      PROVE  \A j \in 1 + 1..n : ~About(j, w)
  <2> SUFFICES ASSUME NEW j \in 1 + 1..n
               PROVE  ~About(j, w)
    OBVIOUS
  <2>1. j - 1 \in 1..n - 1 /\ (j - 1) + 1 = j
    BY <1>2
  <2> QED BY <1>2, <1>3, <1>5, <2>1 DEF Quiet
<1>6. 1 \in 1..n /\ \A i \in 1..n : i = 1 \/ i \in 1 + 1..n
  BY <1>2
<1>7. \A w \in Controls : Quiet(w)' => Quiet(w) \/ About(1, w)
  BY <1>5, <1>6 DEF Quiet, n
<1>8. \A w \in Controls : Quiet(w)' /\ About(1, w) => (messages[1].kind = "down" <=> w \in down)
  BY <1>5, <1>6 DEF InputInv, MessagesTell, n
<1> QED BY <1>4, <1>7, <1>8

LEMMA PushTyped ==
  ASSUME Typed, NEW e \in Events, InPush(e)
  PROVE  /\ head' \in 0..INQ - 1 /\ tail' \in 0..INQ - 1 /\ dropped' \in BOOLEAN
         /\ inq' \in [0..INQ - 1 -> Events \cup {NULL}]
         /\ ~dropped' => ~dropped /\ Queued' = Append(Queued, e)
         /\ Queued' = Queued \/ Queued' = Append(Queued, e)
<1>1. CASE Full
  <2>1. dropped' = TRUE /\ UNCHANGED <<inq, head, tail>>
    BY <1>1 DEF InPush
  <2>2. Queued' = Queued
    BY <2>1 DEF Queued
  <2> QED BY <2>1, <2>2 DEF Typed, TypeOK
<1>2. CASE ~Full
  <2>1. dropped' = dropped /\ dropped \in BOOLEAN
    BY <1>2, Pushed DEF Typed, TypeOK
  <2> QED BY <1>2, <2>1, Pushed
<1> QED BY <1>1, <1>2

\* The window procedure takes a message and queues what it tells.
LEMMA Handled ==
  ASSUME InputInv, TypeOK', ReturnsKnown',
         messages # <<>>, messages' = Tail(messages), UNCHANGED <<down, view, event>>,
         NEW e \in Events, InPush(e),
         \A w \in Controls : /\ About(1, w) <=> Speaks(e, w)
                             /\ About(1, w) => (e.down <=> messages[1].kind = "down"),
         \A b \in Buttons : IF Speaks(e, b) THEN e.down <=> b \in buttons'
                            ELSE b \in buttons' <=> b \in buttons,
         e.kind = "motion" => e.held = buttons
  PROVE  InputInv'
<1>q. PICK q : q = Queued
  OBVIOUS
<1>r. PICK r : r = Queued'
  OBVIOUS
<1>1. q \in Seq(Events) /\ Len(q) \in Nat
  BY <1>q, TypedRing DEF InputInv
<1>2. r = q \/ r = Append(q, e)
  BY <1>q, <1>r, PushTyped DEF InputInv
<1>3. Typed'
  <2>1. r \in Seq(Events)
    <3>1. Append(q, e) \in Seq(Events)
      BY <1>1, AppendProperties
    <3> QED BY <1>1, <1>2, <3>1
  <2> QED BY <1>r, <2>1 DEF Typed
<1>4. /\ MessagesTell'
      /\ \A w \in Controls : Quiet(w)' => Quiet(w) \/ About(1, w)
      /\ \A w \in Controls : Quiet(w)' /\ About(1, w) =>
           (messages[1].kind = "down" <=> w \in down)
  BY Dispatched
<1>5. Followed'
  <2> SUFFICES ASSUME ~dropped'
               PROVE  QueueTells' /\ ButtonsTold' /\ MotionsTold' /\ DeliveredAgrees'
    BY DEF Followed
  <2>1. r = Append(q, e) /\ QueueTells /\ ButtonsTold /\ MotionsTold /\ DeliveredAgrees
    BY <1>q, <1>r, PushTyped DEF InputInv, Followed
  <2>2. /\ Len(r) = Len(q) + 1 /\ r[Len(q) + 1] = e /\ \A i \in 1..Len(q) : r[i] = q[i]
    BY <1>1, <2>1, AppendProperties
  <2>3. ASSUME NEW w, NEW held
        PROVE  /\ \A n \in 0..Len(q) : Tells(q, n, view, w, held) => Tells(r, n, view, w, held)
               /\ Speaks(e, w) /\ (e.down <=> w \in held) => Tells(r, Len(r), view, w, held)
               /\ ~Speaks(e, w) /\ Tells(q, Len(q), view, w, held) =>
                    Tells(r, Len(r), view, w, held)
    BY <1>1, <2>1, TellsAppend
  <2>4. QueueTells'
    <3> SUFFICES ASSUME NEW w \in Controls, Heard(w), Quiet(w)'
                 PROVE  Tells(r, Len(r), view, w, down)
      BY <1>r DEF QueueTells
    <3>1. CASE About(1, w)
      <4>1. Speaks(e, w) /\ (e.down <=> w \in down)
        BY <1>4, <3>1
      <4> QED BY <2>3, <4>1
    <3>2. CASE ~About(1, w)
      <4>1. ~Speaks(e, w) /\ Tells(q, Len(q), view, w, down)
        BY <1>4, <1>q, <2>1, <3>2 DEF QueueTells
      <4> QED BY <2>3, <4>1
    <3> QED BY <3>1, <3>2
  <2>5. ButtonsTold'
    <3> SUFFICES ASSUME NEW b \in Buttons, Heard(b)
                 PROVE  Tells(r, Len(r), view, b, buttons')
      BY <1>r DEF ButtonsTold
    <3>1. CASE Speaks(e, b)
      <4>1. e.down <=> b \in buttons'
        BY <3>1
      <4> QED BY <2>3, <3>1, <4>1
    <3>2. CASE ~Speaks(e, b)
      <4>1. b \in buttons' <=> b \in buttons
        BY <3>2
      <4>2. Tells(q, Len(q), view, b, buttons)
        BY <1>q, <2>1 DEF ButtonsTold
      <4>3. Tells(q, Len(q), view, b, buttons')
        BY <4>1, <4>2 DEF Tells
      <4> QED BY <2>3, <3>2, <4>3
    <3> QED BY <3>1, <3>2
  <2>6. MotionsTold'
    <3> SUFFICES ASSUME NEW b \in Buttons, NEW k \in 1..Len(r), Heard(b), r[k].kind = "motion"
                 PROVE  Tells(r, k - 1, view, b, r[k].held)
      BY <1>r DEF MotionsTold
    <3>1. CASE k \in 1..Len(q)
      <4>1. r[k] = q[k] /\ k - 1 \in 0..Len(q)
        BY <1>1, <2>2, <3>1
      <4>2. Tells(q, k - 1, view, b, q[k].held)
        BY <1>q, <2>1, <3>1, <4>1 DEF MotionsTold
      <4> QED BY <2>3, <4>1, <4>2
    <3>2. CASE k = Len(q) + 1
      <4>1. r[k] = e /\ e.held = buttons /\ k - 1 = Len(q) /\ Len(q) \in 0..Len(q)
        BY <1>1, <2>2, <3>2
      <4>2. Tells(q, Len(q), view, b, buttons)
        BY <1>q, <2>1 DEF ButtonsTold
      <4> QED BY <2>3, <4>1, <4>2
    <3> QED BY <1>1, <2>2, <3>1, <3>2
  <2>7. DeliveredAgrees'
    BY <2>1 DEF DeliveredAgrees
  <2> QED BY <2>4, <2>5, <2>6, <2>7
<1> QED BY <1>3, <1>4, <1>5 DEF InputInv

\* A message that queues nothing.
LEMMA Ignored ==
  ASSUME InputInv, TypeOK', ReturnsKnown',
         messages # <<>>, messages' = Tail(messages),
         UNCHANGED <<down, view, event, buttons, ringVars, dropped>>,
         \A w \in Controls : ~About(1, w)
  PROVE  InputInv'
<1>1. Queued' = Queued
  BY DEF Queued, ringVars
<1>2. Typed'
  BY <1>1 DEF InputInv, Typed
<1>3. MessagesTell' /\ \A w \in Controls : Quiet(w)' => Quiet(w)
  BY Dispatched
<1>4. Followed'
  BY <1>1, <1>3 DEF InputInv, Followed, QueueTells, ButtonsTold, MotionsTold, DeliveredAgrees
<1> QED BY <1>2, <1>3, <1>4 DEF InputInv

\* The loop pops an event and tells the game.
LEMMA Given ==
  ASSUME InputInv, TypeOK', ReturnsKnown', NEW e \in Events, Pop(e),
         event' = e, UNCHANGED <<down, messages, buttons, dropped>>,
         view' = IF CallbackOf(e) \in Callbacks THEN Told(e) ELSE view
  PROVE  InputInv'
<1>q. PICK q : q = Queued
  OBVIOUS
<1>r. PICK r : r = Queued'
  OBVIOUS
<1>1. /\ q \in Seq(Events) /\ q # <<>> /\ e = Head(q) /\ r = Tail(q)
  BY <1>q, <1>r, TypedRing, Popped DEF InputInv
<1>2. /\ Len(q) \in Nat /\ Len(q) >= 1 /\ e = q[1] /\ r \in Seq(Events) /\ Len(r) = Len(q) - 1
      /\ \A i \in 1..Len(r) : r[i] = q[i + 1]
  <2>1. r \in Seq(Events) /\ Len(r) = Len(q) - 1 /\ \A i \in 1..Len(r) : r[i] = q[i + 1]
    BY <1>1, HeadTailProperties
  <2> QED BY <1>1, <2>1
<1>3. Typed'
  BY <1>r, <1>2 DEF Typed
<1>4. \A i, w : About(i, w)' <=> About(i, w)
  BY DEF About
<1>5. MessagesTell'
  BY <1>4 DEF InputInv, MessagesTell
<1>6. ASSUME NEW w \in Controls, Heard(w)
      PROVE  /\ Speaks(e, w) => (w \in view' <=> e.down)
             /\ ~Speaks(e, w) => (w \in view' <=> w \in view)
  <2>1. CASE Speaks(e, w)
    <3>1. e = Switch(w, e.down) /\ e.down \in BOOLEAN
      BY <2>1, EventFacts DEF Speaks
    <3>2. view' = Told(e)
      BY <1>6, <3>1 DEF Heard
    <3> QED BY <2>1, <3>2 DEF Told, Speaks
  <2>2. CASE ~Speaks(e, w)
    BY <2>2 DEF Told, Speaks
  <2> QED BY <2>1, <2>2
<1>7. Followed'
  <2> SUFFICES ASSUME ~dropped
               PROVE  QueueTells' /\ ButtonsTold' /\ MotionsTold' /\ DeliveredAgrees'
    BY DEF Followed
  <2>1. QueueTells /\ ButtonsTold /\ MotionsTold /\ DeliveredAgrees
    BY DEF InputInv, Followed
  <2>2. ASSUME NEW w \in Controls, Heard(w), NEW n \in 1..Len(q), NEW held,
               Tells(q, n, view, w, held)
        PROVE  Tells(r, n - 1, view', w, held)
    <3>1. /\ Speaks(q[1], w) => (w \in view' <=> q[1].down)
          /\ ~Speaks(q[1], w) => (w \in view' <=> w \in view)
      BY <1>2, <1>6, <2>2
    <3> QED BY <1>1, <2>2, <3>1, TellsTail
  <2>3. Len(q) \in 1..Len(q) /\ Len(q) - 1 = Len(r)
    BY <1>2
  <2>4. QueueTells'
    <3> SUFFICES ASSUME NEW w \in Controls, Heard(w), Quiet(w)'
                 PROVE  Tells(r, Len(r), view', w, down)
      BY <1>r DEF QueueTells
    <3>1. Tells(q, Len(q), view, w, down)
      BY <1>4, <1>q, <2>1 DEF QueueTells, Quiet
    <3> QED BY <2>2, <2>3, <3>1
  <2>5. ButtonsTold'
    <3> SUFFICES ASSUME NEW b \in Buttons, Heard(b)
                 PROVE  Tells(r, Len(r), view', b, buttons)
      BY <1>r DEF ButtonsTold
    <3>1. Tells(q, Len(q), view, b, buttons)
      BY <1>q, <2>1 DEF ButtonsTold
    <3> QED BY <2>2, <2>3, <3>1 DEF Controls
  <2>6. MotionsTold'
    <3> SUFFICES ASSUME NEW b \in Buttons, NEW k \in 1..Len(r), Heard(b), r[k].kind = "motion"
                 PROVE  Tells(r, k - 1, view', b, r[k].held)
      BY <1>r DEF MotionsTold
    <3>1. k + 1 \in 1..Len(q) /\ r[k] = q[k + 1] /\ k \in 1..Len(q) /\ (k + 1) - 1 = k
      BY <1>2
    <3>2. Tells(q, k, view, b, q[k + 1].held)
      BY <1>q, <2>1, <3>1 DEF MotionsTold
    <3> QED BY <2>2, <3>1, <3>2 DEF Controls
  <2>7. DeliveredAgrees'
    <3> SUFFICES ASSUME e.kind = "motion", NEW b \in Buttons, Heard(b)
                 PROVE  b \in e.held <=> b \in view'
      BY DEF DeliveredAgrees
    <3>1. Tells(q, 1 - 1, view, b, e.held)
      <4>1. 1 \in 1..Len(q) /\ q[1].kind = "motion"
        BY <1>2
      <4> QED BY <1>2, <1>q, <2>1, <4>1 DEF MotionsTold
    <3>2. b \in view <=> b \in e.held
      BY <3>1 DEF Tells
    <3> QED BY <3>2 DEF Told
  <2> QED BY <2>4, <2>5, <2>6, <2>7
<1> QED BY <1>3, <1>5, <1>7 DEF InputInv

----------------------------------------------------------------------------
(* The actions.                                                            *)

LEMMA PlayerStep == InputInv /\ Player => InputInv'
<1> SUFFICES ASSUME InputInv, Player
             PROVE  InputInv'
  OBVIOUS
<1> USE InputAssumption
<1>1. ASSUME NEW m \in Message, SendCounted(m) \/ (Move /\ m = [kind |-> "motion"])
      PROVE  /\ messages' = Append(messages, m) /\ ReturnsKnown'
             /\ UNCHANGED <<buttons, ringVars, dropped, view, event>>
             /\ (down' \subseteq Controls => TypeOK')
  <2>1. /\ messages' = Append(messages, m)
        /\ sent' = sent \/ (sent' = sent + 1 /\ sent < MaxMessages)
        /\ moved' = moved \/ moved' = TRUE
        /\ UNCHANGED <<buttons, ringVars, dropped, quit, redisplay, gameVars, pc,
                       pumpTo, backTo, event, swaps>>
    BY <1>1 DEF Send, SendCounted, Move
  <2>2. messages' \in Seq(Message) /\ sent' \in 0..MaxMessages /\ moved' \in BOOLEAN
    <3>1. messages \in Seq(Message) /\ sent \in 0..MaxMessages /\ moved \in BOOLEAN
      BY DEF InputInv, Typed, TypeOK
    <3>2. messages' \in Seq(Message)
      BY <2>1, <3>1, AppendProperties
    <3>3. sent' \in 0..MaxMessages
      BY <2>1, <3>1
    <3>4. moved' \in BOOLEAN
      BY <2>1, <3>1, Zenon
    <3> QED BY <3>2, <3>3, <3>4
  <2>3. down' \subseteq Controls => TypeOK'
    BY <2>1, <2>2 DEF InputInv, Typed, TypeOK, ringVars, gameVars, Controls
  <2>4. ReturnsKnown'
    BY <2>1 DEF InputInv, ReturnsKnown
  <2> QED BY <2>1, <2>3, <2>4 DEF gameVars
<1>2. down \subseteq Controls
  BY DEF InputInv, Typed, TypeOK, Controls
<1>3. ASSUME NEW v \in Controls, Press(v)
      PROVE  InputInv'
  <2> DEFINE m == [kind |-> "down", what |-> v]
  <2>1. m \in Message /\ SendCounted(m) /\ down' = down \cup {v}
    BY <1>3 DEF Press, Message, Controls
  <2>2. down' \subseteq Controls
    BY <1>2, <2>1
  <2>3. \A w \in Controls :
          IF m.kind \in {"down", "up"} /\ m.what = w THEN m.kind = "down" <=> w \in down'
          ELSE w \in down' <=> w \in down
    BY <2>1
  <2> HIDE DEF m
  <2> QED BY <1>1, <2>1, <2>2, <2>3, Sent
<1>4. ASSUME NEW v \in Controls, LetGo(v)
      PROVE  InputInv'
  <2> DEFINE m == [kind |-> "up", what |-> v]
  <2>1. m \in Message /\ SendCounted(m) /\ down' = down \ {v}
    BY <1>4 DEF LetGo, Message, Controls
  <2>2. down' \subseteq Controls
    BY <1>2, <2>1
  <2>3. \A w \in Controls :
          IF m.kind \in {"down", "up"} /\ m.what = w THEN m.kind = "down" <=> w \in down'
          ELSE w \in down' <=> w \in down
    BY <2>1
  <2> HIDE DEF m
  <2> QED BY <1>1, <2>1, <2>2, <2>3, Sent
<1>5. ASSUME NEW kind \in {"motion", "close"} \cup CharKinds,
             IF kind = "motion" THEN Move ELSE Other(kind)
      PROVE  InputInv'
  <2> DEFINE m == [kind |-> kind]
  <2>1. m \in Message /\ down' = down
        /\ (SendCounted(m) \/ (Move /\ m = [kind |-> "motion"]))
    BY <1>5 DEF Other, Move, Message
  <2>2. \A w \in Controls :
          IF m.kind \in {"down", "up"} /\ m.what = w THEN m.kind = "down" <=> w \in down'
          ELSE w \in down' <=> w \in down
    BY <2>1 DEF CharKinds
  <2> HIDE DEF m
  <2> QED BY <1>1, <1>2, <2>1, <2>2, Sent
<1>6. ASSUME Move
      PROVE  InputInv'
  BY <1>5, <1>6
<1>7. ASSUME NEW kind \in CharKinds \cup {"close"}, Other(kind)
      PROVE  InputInv'
  BY <1>5, <1>7 DEF CharKinds
<1> QED BY <1>3, <1>4, <1>6, <1>7 DEF Player, Controls

\* What dispatching a message leaves alone.
LEMMA DispatchTyped ==
  ASSUME InputInv, NEW m, Dispatch(m)
  PROVE  /\ messages # <<>> /\ messages' = Tail(messages) /\ messages[1] = m
         /\ messages' \in Seq(Message) /\ UNCHANGED <<down, view, event>>
         /\ ReturnsKnown'
         /\ /\ buttons' \subseteq Buttons /\ head' \in 0..INQ - 1 /\ tail' \in 0..INQ - 1
            /\ inq' \in [0..INQ - 1 -> Events \cup {NULL}]
            /\ dropped' \in BOOLEAN /\ quit' \in BOOLEAN
            => TypeOK'
<1>1. /\ messages # <<>> /\ messages' = Tail(messages) /\ Head(messages) = m
      /\ UNCHANGED <<down, sent, moved, redisplay, loop, view, pc, pumpTo, backTo, event, swaps>>
  BY DEF Dispatch, hostVars, gameVars
<1>2. messages \in Seq(Message)
  BY DEF InputInv, Typed, TypeOK
<1>3. messages' \in Seq(Message) /\ messages[1] = m
  BY <1>1, <1>2, HeadTailProperties
<1>4. ReturnsKnown'
  BY <1>1 DEF InputInv, ReturnsKnown
<1>5. /\ buttons' \subseteq Buttons /\ head' \in 0..INQ - 1 /\ tail' \in 0..INQ - 1
      /\ inq' \in [0..INQ - 1 -> Events \cup {NULL}]
      /\ dropped' \in BOOLEAN /\ quit' \in BOOLEAN
      => TypeOK'
  BY <1>1, <1>3 DEF InputInv, Typed, TypeOK
<1> QED BY <1>1, <1>3, <1>4, <1>5

LEMMA WndProcStep == InputInv /\ WndProc => InputInv'
<1> SUFFICES ASSUME InputInv, WndProc
             PROVE  InputInv'
  OBVIOUS
<1> USE InputAssumption
<1>0. Typed /\ buttons \subseteq Buttons /\ quit \in BOOLEAN
  BY DEF InputInv, Typed, TypeOK
<1>1. CASE MouseMove
  <2>1. /\ Dispatch([kind |-> "motion"]) /\ InPush(Motion(buttons))
        /\ buttons' = buttons /\ quit' = quit
    BY <1>1 DEF MouseMove
  <2> DEFINE e == Motion(buttons)
  <2>2. e \in Events /\ e.kind = "motion" /\ e.held = buttons
    BY <1>0 DEF Events, Motion
  <2>3. \A w : ~Speaks(e, w)
    BY <2>2 DEF Speaks
  <2>4. messages[1] = [kind |-> "motion"]
    BY <2>1, DispatchTyped
  <2>5. \A w \in Controls : ~About(1, w)
    BY <2>4 DEF About
  <2>6. TypeOK'
    BY <1>0, <2>1, <2>2, PushTyped, DispatchTyped
  <2> HIDE DEF e
  <2>7. InPush(e)
    BY <2>1 DEF e
  <2> QED BY <2>1, <2>2, <2>3, <2>5, <2>6, <2>7, DispatchTyped, Handled
<1>2. ASSUME NEW kind \in CharKinds, CharEvent(kind)
      PROVE  InputInv'
  <2>1. /\ Dispatch([kind |-> kind]) /\ InPush(Char(kind))
        /\ buttons' = buttons /\ quit' = quit
    BY <1>2 DEF CharEvent
  <2>2. Char(kind) \in Events /\ Char(kind).kind \in CharKinds
    BY DEF Events, Char
  <2>7. Char(kind).kind \notin {"motion", "switch"}
    BY <2>2 DEF CharKinds
  <2>3. \A w : ~Speaks(Char(kind), w)
    BY <2>7 DEF Speaks
  <2>4. messages[1] = [kind |-> kind]
    BY <2>1, DispatchTyped
  <2>5. \A w \in Controls : ~About(1, w)
    BY <2>4 DEF About, CharKinds
  <2>6. TypeOK'
    BY <1>0, <2>1, <2>2, PushTyped, DispatchTyped
  <2> QED BY <2>1, <2>2, <2>3, <2>5, <2>6, <2>7, DispatchTyped, Handled
<1>3. CASE Close
  <2>1. /\ Dispatch([kind |-> "close"]) /\ quit' = TRUE
        /\ UNCHANGED <<buttons, ringVars, dropped>>
    BY <1>3 DEF Close
  <2>2. messages[1] = [kind |-> "close"]
    BY <2>1, DispatchTyped
  <2>3. \A w \in Controls : ~About(1, w)
    BY <2>2 DEF About
  <2>4. TypeOK'
    BY <2>1, DispatchTyped DEF InputInv, Typed, TypeOK, ringVars
  <2> QED BY <2>1, <2>3, <2>4, DispatchTyped, Ignored
<1>4. ASSUME NEW isDown \in BOOLEAN, NEW v \in Controls,
             Dispatch([kind |-> IF isDown THEN "down" ELSE "up", what |-> v]),
             InPush(Switch(v, isDown)), quit' = quit,
             buttons' \subseteq Buttons,
             \A b \in Buttons : IF b = v THEN isDown <=> b \in buttons'
                                ELSE b \in buttons' <=> b \in buttons
      PROVE  InputInv'
  <2> DEFINE e == Switch(v, isDown)
  <2>1. e \in Events /\ e.kind = "switch" /\ e.what = v /\ e.down = isDown
    BY DEF Events, Switch, Controls
  <2>2. \A w : Speaks(e, w) <=> w = v
    BY <2>1 DEF Speaks
  <2>3. messages[1] = [kind |-> IF isDown THEN "down" ELSE "up", what |-> v]
    BY <1>4, DispatchTyped
  <2>4. \A w : About(1, w) <=> w = v
    BY <2>3 DEF About
  <2>5. messages[1].kind = "down" <=> isDown
    BY <2>3
  <2> HIDE DEF e
  <2>6. InPush(e)
    BY <1>4 DEF e
  <2>7. TypeOK'
    BY <1>0, <1>4, <2>1, <2>6, PushTyped, DispatchTyped
  <2>8. \A w \in Controls : /\ About(1, w) <=> Speaks(e, w)
                            /\ About(1, w) => (e.down <=> messages[1].kind = "down")
    BY <2>1, <2>2, <2>4, <2>5, Zenon
  <2>9. \A b \in Buttons : IF Speaks(e, b) THEN e.down <=> b \in buttons'
                           ELSE b \in buttons' <=> b \in buttons
    BY <1>4, <2>1, <2>2, Zenon
  <2>10. e.kind = "motion" => e.held = buttons
    BY <2>1
  <2> QED BY <1>4, <2>1, <2>6, <2>7, <2>8, <2>9, <2>10, DispatchTyped, Handled
<1>5. ASSUME NEW isDown \in BOOLEAN, NEW b \in Buttons, MouseButton(b, isDown)
      PROVE  InputInv'
  <2>1. /\ Dispatch([kind |-> IF isDown THEN "down" ELSE "up", what |-> b])
        /\ InPush(Switch(b, isDown)) /\ quit' = quit
        /\ buttons' = IF isDown THEN buttons \cup {b} ELSE buttons \ {b}
    BY <1>5 DEF MouseButton
  <2>2. /\ buttons' \subseteq Buttons
        /\ \A c \in Buttons : IF c = b THEN isDown <=> c \in buttons'
                              ELSE c \in buttons' <=> c \in buttons
    BY <1>0, <2>1
  <2> QED BY <1>4, <2>1, <2>2 DEF Controls
<1>6. ASSUME NEW isDown \in BOOLEAN, NEW k \in Specials, KeyEvent(k, isDown)
      PROVE  InputInv'
  <2>1. /\ Dispatch([kind |-> IF isDown THEN "down" ELSE "up", what |-> k])
        /\ InPush(Switch(k, isDown)) /\ quit' = quit /\ buttons' = buttons
    BY <1>6 DEF KeyEvent
  <2>2. \A c \in Buttons : c # k
    OBVIOUS
  <2> QED BY <1>0, <1>4, <2>1, <2>2 DEF Controls
<1> QED BY <1>1, <1>2, <1>3, <1>5, <1>6 DEF WndProc

LEMMA DeliverStep == \A e \in Events : InputInv /\ Deliver(e) => InputInv'
<1> SUFFICES ASSUME NEW e \in Events, InputInv, Deliver(e)
             PROVE  InputInv'
  OBVIOUS
<1>1. /\ pc = "deliver" /\ Pop(e) /\ event' = e
      /\ UNCHANGED <<down, sent, moved, messages, buttons, dropped, quit, loop, redisplay>>
  BY DEF Deliver, LoopStep, hostVars
<1>2. view' = IF CallbackOf(e) \in Callbacks THEN Told(e) ELSE view
  BY DEF Deliver
<1>3. \/ pc' = "callback" /\ backTo' = "deliver" /\ swaps' = 0 /\ pumpTo' = pumpTo
      \/ UNCHANGED <<pc, pumpTo, backTo, swaps>>
  BY DEF Deliver, CallGame
<1>4. ReturnsKnown'
  BY <1>1, <1>3 DEF InputInv, ReturnsKnown, Backs
<1>5. view' \subseteq Controls
  <2>1. view \subseteq Controls
    BY DEF InputInv, Typed, TypeOK, Controls
  <2>2. Told(e) \subseteq Controls
    BY <2>1, EventFacts DEF Told
  <2> QED BY <1>2, <2>1, <2>2
<1>6. /\ head' \in 0..INQ - 1 /\ tail' \in 0..INQ - 1
      /\ inq' \in [0..INQ - 1 -> Events \cup {NULL}]
  BY <1>1, Popped DEF InputInv
<1>7. pc' \in PCs /\ pumpTo' \in PCs \cup {NULL} /\ backTo' \in PCs \cup {NULL}
      /\ swaps' \in 0..MaxSwaps
  BY <1>3, InputAssumption DEF InputInv, Typed, TypeOK, PCs
<1>8. TypeOK'
  BY <1>1, <1>5, <1>6, <1>7 DEF InputInv, Typed, TypeOK, Controls
<1> QED BY <1>1, <1>2, <1>4, <1>8, Given

\* Every other step leaves messages, queue and view alone.
LEMMA OtherSteps ==
  ASSUME InputInv,
         \/ PumpEnds \/ Startup \/ MainLoopEvent \/ Delivered \/ Idle \/ Display
         \/ NothingToDraw \/ Return \/ PostRedisplay \/ SwapBuffers \/ UNCHANGED vars
  PROVE  InputInv'
<1> USE InputAssumption
<1> DEFINE Same == /\ UNCHANGED <<down, sent, messages, buttons, ringVars, dropped, quit,
                                  loop, view>>
                   /\ event' = event \/ event' = NULL
           Steps == /\ moved' \in BOOLEAN /\ redisplay' \in BOOLEAN /\ pc' \in PCs
                    /\ pumpTo' \in PCs \cup {NULL} /\ backTo' \in PCs \cup {NULL}
                    /\ swaps' \in 0..MaxSwaps
<1>1. ASSUME Same, Steps, ReturnsKnown'
      PROVE  InputInv'
  <2>1. TypeOK'
    BY <1>1 DEF InputInv, Typed, TypeOK, ringVars
  <2> QED BY <1>1, <2>1, Elsewhere
<1>2. /\ moved \in BOOLEAN /\ redisplay \in BOOLEAN /\ pc \in PCs /\ loop \in {"main", "event"}
      /\ pumpTo \in PCs \cup {NULL} /\ backTo \in PCs \cup {NULL} /\ swaps \in 0..MaxSwaps
      /\ ReturnsKnown
  BY DEF InputInv, Typed, TypeOK
<1>3. CASE PumpEnds
  BY <1>1, <1>2, <1>3 DEF PumpEnds, hostVars, gameVars, PCs, ReturnsKnown
<1>4. CASE Startup
  BY <1>1, <1>2, <1>4 DEF Startup, LoopStep, CallGame, hostVars, PCs, ReturnsKnown, Backs
<1>5. CASE MainLoopEvent
  BY <1>1, <1>2, <1>5 DEF MainLoopEvent, Pump, LoopStep, hostVars, PCs, ReturnsKnown
<1>6. CASE Delivered
  BY <1>1, <1>2, <1>6 DEF Delivered, LoopStep, hostVars, PCs, ReturnsKnown
<1>7. CASE Idle
  <2>1. /\ pc = "idle" /\ UNCHANGED <<redisplay, moved>> /\ Same
        /\ \/ pc' = "callback" /\ backTo' = "display" /\ swaps' = 0 /\ UNCHANGED pumpTo
           \/ pc' = "display" /\ UNCHANGED <<pumpTo, backTo, swaps>>
    BY <1>7 DEF Idle, CallGame, LoopStep, hostVars
  <2>2. Steps
    BY <1>2, <2>1 DEF PCs
  <2>3. ReturnsKnown'
    BY <1>2, <2>1 DEF ReturnsKnown, Backs
  <2> QED BY <1>1, <2>1, <2>2, <2>3
<1>8. CASE Display
  <2>0. redisplay' \in BOOLEAN
    BY <1>8 DEF Display
  <2>1. /\ Same /\ UNCHANGED moved /\ pc' = "callback" /\ swaps' = 0 /\ UNCHANGED pumpTo
        /\ backTo' \in {"pump", "game"}
    BY <1>2, <1>8 DEF Display, Around, CallGame, LoopStep, hostVars
  <2>2. Steps
    BY <1>2, <2>0, <2>1 DEF PCs
  <2>3. ReturnsKnown'
    BY <2>1 DEF ReturnsKnown, Backs
  <2> QED BY <1>1, <2>1, <2>2, <2>3
<1>9. CASE NothingToDraw
  <2>1. /\ UNCHANGED <<redisplay, moved>> /\ Same /\ swaps' = 0 /\ UNCHANGED backTo
        /\ \/ pc' = "pump" /\ pumpTo' = "deliver"
           \/ pc' = "game" /\ pumpTo' = NULL
    BY <1>2, <1>9 DEF NothingToDraw, Around, LoopStep, hostVars
  <2>2. Steps
    BY <1>2, <2>1 DEF PCs
  <2>3. ReturnsKnown'
    BY <2>1 DEF ReturnsKnown
  <2> QED BY <1>1, <2>1, <2>2, <2>3
<1>10. CASE Return
  BY <1>1, <1>2, <1>10 DEF Return, hostVars, gameVars, PCs, ReturnsKnown, Backs
<1>11. CASE PostRedisplay
  BY <1>1, <1>2, <1>11 DEF PostRedisplay, hostVars, gameVars, ReturnsKnown
<1>12. CASE SwapBuffers
  BY <1>1, <1>2, <1>12 DEF SwapBuffers, InGame, Pump, hostVars, gameVars, PCs, ReturnsKnown
<1>13. CASE UNCHANGED vars
  BY <1>1, <1>2, <1>13 DEF vars, hostVars, gameVars, ReturnsKnown
<1> QED BY <1>3, <1>4, <1>5, <1>6, <1>7, <1>8, <1>9, <1>10, <1>11, <1>12, <1>13

\* The inductive invariant holds in every reachable state.
THEOREM InputInvariance == Spec => []InputInv
<1>1. InputInv /\ [Next]_vars => InputInv'
  <2> SUFFICES ASSUME InputInv, [Next]_vars
               PROVE  InputInv'
    OBVIOUS
  <2>1. CASE \E e \in Events : Deliver(e)
    BY <2>1, DeliverStep
  <2> QED BY <2>1, PlayerStep, WndProcStep, OtherSteps DEF Next, Loop
<1> QED BY <1>1, InitInput, PTL DEF Spec

\* Once everything has been delivered and nothing was dropped, the game
\* believes held what the player holds (hle_window.c:81-123, hle_glut.c:120).
THEOREM ViewFollowsPlayer == Spec => []ViewConverges
<1>1. InputInv => ViewConverges
  <2> SUFFICES ASSUME InputInv, messages = <<>>, head = tail, ~dropped,
                      NEW w \in Controls, Heard(w)
               PROVE  w \in view <=> w \in down
    BY DEF ViewConverges, Controls
  <2>1. Len(Queued) = 0
    BY TypedRing, FullIs DEF InputInv
  <2>2. Quiet(w)
    BY DEF Quiet
  <2>3. Tells(Queued, Len(Queued), view, w, down)
    BY <2>2 DEF InputInv, Followed, QueueTells
  <2> QED BY <2>1, <2>3 DEF Tells
<1> QED BY <1>1, InputInvariance, PTL

\* Every variable keeps its type, and a motion is delivered with the buttons the
\* game knows of: a drag is a drag (hle_window.c:202, hle_glut.c:128).
THEOREM DragsAreDrags == Spec => []InputSound
<1>1. InputInv => InputSound
  BY DEF InputInv, Typed, Followed, DeliveredAgrees, InputSound, MotionAgrees
<1> QED BY <1>1, InputInvariance, PTL

----------------------------------------------------------------------------
(* The refinement of EventQueue.                                           *)

\* What the host has still to hand over, as the queue sees it.
Source == [i \in DOMAIN messages |-> EventOf(i)]

LEMMA EventOfIs ==
  ASSUME Typed, NEW i \in 1..Len(messages)
  PROVE  EventOf(i) \in Events \cup {NULL}
<1>1. messages[i] \in Message
  BY DEF Typed, TypeOK
<1>2. HeldBefore(i) \subseteq Buttons
  BY DEF HeldBefore
<1>3. Motion(HeldBefore(i)) \in Events /\ \A kind \in CharKinds : Char(kind) \in Events
  BY <1>2 DEF Events
<1> DEFINE d == messages[i].kind = "down"
<1>4. messages[i].kind \in {"down", "up"} => Switch(messages[i].what, d) \in Events
  <2>1. messages[i].kind \in {"down", "up"} => messages[i].what \in Buttons \cup Specials
    BY <1>1 DEF Message, CharKinds
  <2>2. d \in BOOLEAN
    OBVIOUS
  <2> HIDE DEF d
  <2>3. \A w \in Buttons \cup Specials : Switch(w, d) \in Events
    BY <2>2 DEF Events
  <2> QED BY <2>1, <2>3
<1>5. messages[i].kind \in {"motion", "close", "down", "up"} \cup CharKinds
  BY <1>1 DEF Message
<1>6. CASE messages[i].kind \in {"down", "up"}
  <2>1. EventOf(i) = Switch(messages[i].what, d)
    BY <1>6 DEF EventOf, CharKinds
  <2> HIDE DEF d
  <2> QED BY <1>4, <1>6, <2>1
<1>7. CASE messages[i].kind \notin {"down", "up"}
  BY <1>3, <1>5, <1>7 DEF EventOf, CharKinds
<1> QED BY <1>6, <1>7

SourceShape ==
  /\ Source \in Seq(Events \cup {NULL}) /\ Len(Source) = Len(messages)
  /\ \A i \in 1..Len(messages) : Source[i] = EventOf(i)
  /\ messages = <<>> <=> Source = <<>>

LEMMA SourceIs == Typed => SourceShape
<1> SUFFICES ASSUME Typed
             PROVE  SourceShape
  OBVIOUS
<1>1. messages \in Seq(Message)
  BY DEF Typed, TypeOK
<1>2. Source = [i \in 1..Len(messages) |-> EventOf(i)] /\ Len(messages) \in Nat
  BY <1>1 DEF Source
<1>3. \A i \in 1..Len(messages) : EventOf(i) \in Events \cup {NULL}
  BY EventOfIs
<1>4. Source \in Seq(Events \cup {NULL}) /\ Len(Source) = Len(messages)
  BY <1>2, <1>3
<1>5. messages = <<>> <=> Source = <<>>
  BY <1>1, <1>4
<1> QED BY <1>2, <1>4, <1>5 DEF SourceShape

\* A message more, and the others are what they were.
LEMMA SourceGrows ==
  ASSUME Typed, Typed', NEW m \in Message, messages' = Append(messages, m), buttons' = buttons
  PROVE  \E e \in Events \cup {NULL} : Source' = Append(Source, e)
<1>n. PICK n : n = Len(messages)
  OBVIOUS
<1>1. /\ n \in Nat /\ Len(messages') = n + 1 /\ messages'[n + 1] = m
      /\ \A i \in 1..n : messages'[i] = messages[i]
  BY <1>n, AppendProperties DEF Typed, TypeOK
<1>2. \A i \in 1..n : \A w : About(i, w)' <=> About(i, w)
  BY <1>1 DEF About
<1>3. ASSUME NEW i \in 1..n
      PROVE  EventOf(i)' = EventOf(i)
  <2>1. \A j \in 1..i - 1 : j \in 1..n /\ messages'[j] = messages[j]
    BY <1>1
  <2>2. \A j \in 1..i - 1 : \A k \in j + 1..i - 1 : k \in 1..n
    BY <1>1
  <2>3. HeldBefore(i)' = HeldBefore(i)
    BY <1>2, <2>1, <2>2 DEF HeldBefore
  <2> QED BY <1>1, <2>3 DEF EventOf
<1>4. PICK old, new : old = Source /\ new = Source'
  OBVIOUS
<1>5. /\ old \in Seq(Events \cup {NULL}) /\ Len(old) = n
      /\ \A i \in 1..n : old[i] = EventOf(i)
  BY <1>n, <1>4, SourceIs DEF SourceShape
<1>6. SourceShape'
  BY SourceIs, PTL
<1>7. /\ new \in Seq(Events \cup {NULL}) /\ Len(new) = n + 1
      /\ \A i \in 1..n + 1 : new[i] = EventOf(i)'
  BY <1>1, <1>4, <1>6 DEF SourceShape
<1>8. new[n + 1] \in Events \cup {NULL} /\ \A i \in 1..n : new[i] = old[i]
  BY <1>1, <1>3, <1>5, <1>7
<1>9. old \in Seq(Events \cup {NULL}) /\ new = Append(old, new[n + 1])
  BY <1>1, <1>5, <1>7, <1>8, IsAppend
<1> QED BY <1>4, <1>8, <1>9

\* The first message gone, the buttons as it left them, and the others are what
\* they were.
LEMMA SourceShrinks ==
  ASSUME Typed, Typed', messages # <<>>, messages' = Tail(messages),
         \A b \in Buttons : IF About(1, b) THEN b \in buttons' <=> messages[1].kind = "down"
                            ELSE b \in buttons' <=> b \in buttons
  PROVE  Source # <<>> /\ Head(Source) = EventOf(1) /\ Source' = Tail(Source)
<1>n. PICK n : n = Len(messages)
  OBVIOUS
<1>1. /\ n \in Nat /\ n >= 1 /\ Len(messages') = n - 1
      /\ \A i \in 1..n - 1 : messages'[i] = messages[i + 1]
  BY <1>n, HeadTailProperties DEF Typed, TypeOK
<1>2. \A i \in 1..n - 1 : \A w : About(i, w)' <=> About(i + 1, w)
  BY <1>1 DEF About
<1>3. ASSUME NEW i \in 1..n - 1
      PROVE  EventOf(i)' = EventOf(i + 1)
  <2>1. ASSUME NEW b \in Buttons
        PROVE  b \in HeldBefore(i)' <=> b \in HeldBefore(i + 1)
    <3> DEFINE Last(j) == /\ About(j, b) /\ messages[j].kind = "down"
                          /\ \A k \in j + 1..i : ~About(k, b)
               Later(j) == /\ About(j, b)' /\ messages'[j].kind = "down"
                           /\ \A k \in j + 1..i - 1 : ~About(k, b)'
    <3>1. b \in HeldBefore(i + 1) <=> \/ b \in buttons /\ \A j \in 1..i : ~About(j, b)
                                     \/ \E j \in 1..i : Last(j)
      BY <1>1 DEF HeldBefore
    <3>2. b \in HeldBefore(i)' <=> \/ b \in buttons' /\ \A j \in 1..i - 1 : ~About(j, b)'
                                  \/ \E j \in 1..i - 1 : Later(j)
      BY DEF HeldBefore
    <3>3. \A j \in 1..i - 1 : Later(j) <=> Last(j + 1)
      <4> SUFFICES ASSUME NEW j \in 1..i - 1
                   PROVE  Later(j) <=> Last(j + 1)
        OBVIOUS
      <4>1. j \in 1..n - 1 /\ messages'[j] = messages[j + 1]
        BY <1>1
      <4>2. (\A k \in j + 1..i - 1 : ~About(k, b)') <=> \A k \in (j + 1) + 1..i : ~About(k, b)
        <5>1. \A k \in j + 1..i - 1 : k \in 1..n - 1 /\ k + 1 \in (j + 1) + 1..i
          BY <1>1
        <5>2. \A k \in (j + 1) + 1..i : k - 1 \in j + 1..i - 1 /\ (k - 1) + 1 = k
          BY <1>1
        <5> HIDE DEF Last, Later
        <5> QED BY <1>2, <5>1, <5>2
      <4> QED BY <1>2, <4>1, <4>2
    <3>4. (\A j \in 1..i - 1 : ~About(j, b)') <=> \A j \in 2..i : ~About(j, b)
      <4>1. \A j \in 1..i - 1 : j \in 1..n - 1 /\ j + 1 \in 2..i
        BY <1>1
      <4>2. \A j \in 2..i : j - 1 \in 1..i - 1 /\ (j - 1) + 1 = j
        BY <1>1
      <4> QED BY <1>2, <4>1, <4>2
    <3>5. /\ \A j \in 1..i - 1 : j + 1 \in 1..i
          /\ \A j \in 1..i : j = 1 \/ (j - 1 \in 1..i - 1 /\ (j - 1) + 1 = j)
          /\ \A j \in 1..i : j = 1 \/ j \in 2..i
          /\ 1 \in 1..i /\ \A j \in 2..i : j \in 1..i
      BY <1>1
    <3>6. Last(1) <=> /\ About(1, b) /\ messages[1].kind = "down"
                      /\ \A j \in 2..i : ~About(j, b)
      <4>1. 1 + 1 = 2
        OBVIOUS
      <4> QED BY <4>1, Zenon
    <3> HIDE DEF Last, Later
    <3>7. (\E j \in 1..i : Last(j)) <=> Last(1) \/ \E j \in 1..i - 1 : Later(j)
      <4>1. ASSUME NEW j \in 1..i, Last(j)
            PROVE  Last(1) \/ \E k \in 1..i - 1 : Later(k)
        <5>1. CASE j = 1
          BY <4>1, <5>1
        <5>2. CASE j # 1
          <6>1. j - 1 \in 1..i - 1 /\ Last((j - 1) + 1)
            BY <3>5, <4>1, <5>2
          <6> QED BY <3>3, <6>1
        <5> QED BY <5>1, <5>2
      <4>2. ASSUME NEW j \in 1..i - 1, Later(j)
            PROVE  \E k \in 1..i : Last(k)
        BY <3>3, <3>5, <4>2
      <4> QED BY <3>5, <4>1, <4>2
    <3>8. (\A j \in 1..i : ~About(j, b)) <=> ~About(1, b) /\ \A j \in 2..i : ~About(j, b)
      BY <3>5
    <3>9. IF About(1, b) THEN b \in buttons' <=> messages[1].kind = "down"
          ELSE b \in buttons' <=> b \in buttons
      OBVIOUS
    <3> QED BY <3>1, <3>2, <3>4, <3>6, <3>7, <3>8, <3>9, Zenon
  <2>2. HeldBefore(i)' = HeldBefore(i + 1)
    <3>1. HeldBefore(i)' \subseteq Buttons /\ HeldBefore(i + 1) \subseteq Buttons
      BY DEF HeldBefore
    <3> QED BY <2>1, <3>1
  <2> QED BY <1>1, <2>2 DEF EventOf
<1>4. PICK old, new : old = Source /\ new = Source'
  OBVIOUS
<1>5. /\ old \in Seq(Events \cup {NULL}) /\ Len(old) = n
      /\ \A i \in 1..n : old[i] = EventOf(i)
  BY <1>n, <1>4, SourceIs DEF SourceShape
<1>6. SourceShape'
  BY SourceIs, PTL
<1>7. /\ new \in Seq(Events \cup {NULL}) /\ Len(new) = n - 1
      /\ \A i \in 1..n - 1 : new[i] = EventOf(i)'
  BY <1>1, <1>4, <1>6 DEF SourceShape
<1>8. \A i \in 1..n - 1 : new[i] = old[i + 1]
  BY <1>1, <1>3, <1>5, <1>7
<1>9. old # <<>> /\ Head(old) = EventOf(1)
  BY <1>1, <1>5
<1>10. new = Tail(old)
  BY <1>5, <1>7, <1>8, <1>9, IsTail
<1> QED BY <1>4, <1>9, <1>10

\* Before the first message nothing has happened to the buttons.
LEMMA FirstEvent ==
  ASSUME Typed, messages # <<>>
  PROVE  /\ messages[1].kind = "motion" => EventOf(1) = Motion(buttons)
         /\ messages[1].kind \in CharKinds => EventOf(1) = Char(messages[1].kind)
         /\ messages[1].kind = "close" => EventOf(1) = NULL
         /\ messages[1].kind \in {"down", "up"} =>
              EventOf(1) = Switch(messages[1].what, messages[1].kind = "down")
<1>1. buttons \subseteq Buttons
  BY DEF Typed, TypeOK
<1>2. \A j \in 1..1 - 1 : FALSE
  OBVIOUS
<1>3. HeldBefore(1) = buttons
  BY <1>1, <1>2 DEF HeldBefore
<1> QED BY <1>3 DEF EventOf, CharKinds

\* in_push of the first message's event is Accept, or Refuse.
LEMMA PushIsQueued ==
  ASSUME Typed, NEW e \in Events, InPush(e), event' = event,
         Source # <<>>, Head(Source) = e, Source' = Tail(Source)
  PROVE  Ring!Accept \/ Ring!Refuse
<1>0. e # NULL
  BY NoEventIsNull
<1>1. /\ head \in 0..INQ - 1 /\ tail \in 0..INQ - 1 /\ Len(Queued) = Count
      /\ Count \in 0..INQ - 1
  BY TypedRing, QueuedIs
<1>2. CASE Full
  <2>1. UNCHANGED <<inq, head, tail>>
    BY <1>2 DEF InPush
  <2>2. Queued' = Queued
    BY <2>1 DEF Queued
  <2>3. Len(Queued) = INQ - 1
    BY <1>1, <1>2, FullIs
  <2> QED BY <1>0, <2>2, <2>3 DEF Ring!Refuse, Source
<1>3. CASE ~Full
  <2>1. Queued' = Append(Queued, e)
    BY <1>3, Pushed
  <2>2. Len(Queued) < INQ - 1
    BY <1>1, <1>3, FullIs, InputAssumption
  <2> HIDE DEF Queued, Count
  <2> QED BY <1>0, <2>1, <2>2 DEF Ring!Accept, Source
<1> QED BY <1>2, <1>3

LEMMA ArriveSteps ==
  ASSUME Typed, Typed', Player
  PROVE  \E e \in Events \cup {NULL} : Ring!Arrive(e)
<1>1. /\ \E m \in Message : messages' = Append(messages, m)
      /\ UNCHANGED <<buttons, ringVars, event>>
  <2>1. ASSUME NEW m \in Message, Send(m)
        PROVE  /\ messages' = Append(messages, m)
               /\ UNCHANGED <<buttons, ringVars, event>>
    BY <2>1 DEF Send
  <2>2. ASSUME NEW w \in Controls, Press(w) \/ LetGo(w)
        PROVE  \E m \in Message : Send(m)
    BY <2>2 DEF Press, LetGo, SendCounted, Message, Controls
  <2>3. ASSUME NEW kind \in CharKinds \cup {"close"}, Other(kind)
        PROVE  \E m \in Message : Send(m)
    <3>1. [kind |-> kind] \in Message /\ Send([kind |-> kind])
      BY <2>3 DEF Other, SendCounted, Message
    <3> QED BY <3>1
  <2>4. ASSUME Move
        PROVE  \E m \in Message : Send(m)
    <3>1. [kind |-> "motion"] \in Message /\ Send([kind |-> "motion"])
      BY <2>4 DEF Move, Message
    <3> QED BY <3>1
  <2> QED BY <2>1, <2>2, <2>3, <2>4 DEF Player, Controls
<1>2. \E e \in Events \cup {NULL} : Source' = Append(Source, e)
  BY <1>1, SourceGrows
<1>3. Queued' = Queued
  BY <1>1 DEF Queued, ringVars
<1> QED BY <1>1, <1>2, <1>3 DEF Ring!Arrive, Source

LEMMA WndProcSteps ==
  ASSUME Typed, Typed', WndProc
  PROVE  Ring!Skip \/ Ring!Accept \/ Ring!Refuse
<1>0. buttons \subseteq Buttons
  BY DEF Typed, TypeOK
<1>1. ASSUME NEW m, Dispatch(m)
      PROVE  /\ messages # <<>> /\ messages' = Tail(messages) /\ messages[1] = m
             /\ event' = event
  <2>1. messages \in Seq(Message)
    BY DEF Typed, TypeOK
  <2>2. messages # <<>> /\ messages' = Tail(messages) /\ Head(messages) = m /\ event' = event
    BY <1>1 DEF Dispatch
  <2> QED BY <2>1, <2>2, HeadTailProperties
<1>2. CASE MouseMove
  <2>1. /\ Dispatch([kind |-> "motion"]) /\ InPush(Motion(buttons)) /\ buttons' = buttons
    BY <1>2 DEF MouseMove
  <2>2. messages[1] = [kind |-> "motion"]
    BY <1>1, <2>1
  <2>3. \A b : ~About(1, b)
    BY <2>2 DEF About
  <2>4. Motion(buttons) \in Events
    BY <1>0 DEF Events
  <2>5. EventOf(1) = Motion(buttons)
    BY <1>1, <2>1, <2>2, FirstEvent
  <2>6. Source # <<>> /\ Head(Source) = EventOf(1) /\ Source' = Tail(Source)
    BY <1>1, <2>1, <2>3, SourceShrinks
  <2> QED BY <1>1, <2>1, <2>4, <2>5, <2>6, PushIsQueued
<1>3. ASSUME NEW kind \in CharKinds, CharEvent(kind)
      PROVE  Ring!Skip \/ Ring!Accept \/ Ring!Refuse
  <2>1. /\ Dispatch([kind |-> kind]) /\ InPush(Char(kind)) /\ buttons' = buttons
    BY <1>3 DEF CharEvent
  <2>2. messages[1] = [kind |-> kind]
    BY <1>1, <2>1
  <2>3. \A b : ~About(1, b)
    BY <2>2 DEF About, CharKinds
  <2>4. Char(kind) \in Events
    BY DEF Events
  <2>5. EventOf(1) = Char(kind)
    BY <1>1, <2>1, <2>2, FirstEvent
  <2>6. Source # <<>> /\ Head(Source) = EventOf(1) /\ Source' = Tail(Source)
    BY <1>1, <2>1, <2>3, SourceShrinks
  <2> QED BY <1>1, <2>1, <2>4, <2>5, <2>6, PushIsQueued
<1>4. CASE Close
  <2>1. Dispatch([kind |-> "close"]) /\ UNCHANGED <<buttons, ringVars>>
    BY <1>4 DEF Close
  <2>2. messages[1] = [kind |-> "close"]
    BY <1>1, <2>1
  <2>3. \A b : ~About(1, b)
    BY <2>2 DEF About
  <2>4. EventOf(1) = NULL
    BY <1>1, <2>1, <2>2, FirstEvent
  <2>5. Source # <<>> /\ Head(Source) = EventOf(1) /\ Source' = Tail(Source)
    BY <1>1, <2>1, <2>3, SourceShrinks
  <2>6. Queued' = Queued
    BY <2>1 DEF Queued, ringVars
  <2> QED BY <1>1, <2>1, <2>4, <2>5, <2>6 DEF Ring!Skip, Source
<1>5. ASSUME NEW isDown \in BOOLEAN, NEW v \in Controls,
             Dispatch([kind |-> IF isDown THEN "down" ELSE "up", what |-> v]),
             InPush(Switch(v, isDown)),
             \A b \in Buttons : IF b = v THEN isDown <=> b \in buttons'
                                ELSE b \in buttons' <=> b \in buttons
      PROVE  Ring!Accept \/ Ring!Refuse
  <2>1. messages[1] = [kind |-> IF isDown THEN "down" ELSE "up", what |-> v]
    BY <1>1, <1>5
  <2>2. /\ messages[1].kind \in {"down", "up"} /\ messages[1].what = v
        /\ (messages[1].kind = "down") = isDown
    BY <2>1
  <2>3. \A b : About(1, b) <=> b = v
    BY <2>2 DEF About
  <2>4. Switch(v, isDown) \in Events
    BY DEF Events, Controls
  <2>5. EventOf(1) = Switch(v, isDown)
    BY <1>1, <1>5, <2>2, FirstEvent
  <2>6. \A b \in Buttons : IF About(1, b) THEN b \in buttons' <=> messages[1].kind = "down"
                           ELSE b \in buttons' <=> b \in buttons
    BY <1>5, <2>2, <2>3, Zenon
  <2>7. Source # <<>> /\ Head(Source) = EventOf(1) /\ Source' = Tail(Source)
    BY <1>1, <1>5, <2>6, SourceShrinks
  <2> QED BY <1>1, <1>5, <2>4, <2>5, <2>7, PushIsQueued
<1>6. ASSUME NEW isDown \in BOOLEAN, NEW b \in Buttons, MouseButton(b, isDown)
      PROVE  Ring!Accept \/ Ring!Refuse
  <2>1. /\ Dispatch([kind |-> IF isDown THEN "down" ELSE "up", what |-> b])
        /\ InPush(Switch(b, isDown))
        /\ buttons' = IF isDown THEN buttons \cup {b} ELSE buttons \ {b}
    BY <1>6 DEF MouseButton
  <2>2. \A c \in Buttons : IF c = b THEN isDown <=> c \in buttons'
                           ELSE c \in buttons' <=> c \in buttons
    BY <2>1
  <2> QED BY <1>5, <2>1, <2>2 DEF Controls
<1>7. ASSUME NEW isDown \in BOOLEAN, NEW k \in Specials, KeyEvent(k, isDown)
      PROVE  Ring!Accept \/ Ring!Refuse
  <2>1. /\ Dispatch([kind |-> IF isDown THEN "down" ELSE "up", what |-> k])
        /\ InPush(Switch(k, isDown)) /\ buttons' = buttons
    BY <1>7 DEF KeyEvent
  <2>2. \A c \in Buttons : c # k
    BY InputAssumption
  <2> QED BY <1>5, <2>1, <2>2 DEF Controls
<1> QED BY <1>2, <1>3, <1>4, <1>6, <1>7 DEF WndProc

\* The steps that leave messages, ring and buttons alone either end the
\* delivery of an event or are no step of the queue.
LEMMA QuietSteps ==
  ASSUME UNCHANGED <<messages, ringVars, buttons>>, event' = event \/ event' = NULL
  PROVE  Ring!Release \/ UNCHANGED Ring!vars
<1>1. Source' = Source /\ Queued' = Queued
  BY DEF Source, Queued, ringVars, EventOf, HeldBefore, About
<1> QED BY <1>1 DEF Ring!Release, Ring!vars, Source

LEMMA QueueSteps == InputInv /\ InputInv' /\ [Next]_vars => [Ring!Next]_Ring!vars
<1> SUFFICES ASSUME InputInv, InputInv', [Next]_vars
             PROVE  Ring!Next \/ UNCHANGED Ring!vars
  OBVIOUS
<1>0. Typed /\ Typed'
  BY DEF InputInv
<1>1. CASE Player
  BY <1>0, <1>1, ArriveSteps DEF Ring!Next
<1>2. CASE WndProc
  BY <1>0, <1>2, WndProcSteps DEF Ring!Next
<1>3. ASSUME NEW e \in Events, Deliver(e)
      PROVE  Ring!Take
  <2>1. Pop(e) /\ event' = e /\ UNCHANGED <<messages, buttons>>
    BY <1>3 DEF Deliver, LoopStep
  <2>2. Source' = Source
    BY <2>1 DEF Source, EventOf, HeldBefore, About
  <2>3. Queued # <<>> /\ event' = Head(Queued) /\ Queued' = Tail(Queued)
    BY <1>0, <2>1, Popped
  <2> QED BY <2>2, <2>3 DEF Ring!Take, Source
<1>4. CASE \/ PumpEnds \/ Startup \/ MainLoopEvent \/ Delivered \/ Idle \/ Display
           \/ NothingToDraw \/ Return \/ PostRedisplay \/ SwapBuffers \/ UNCHANGED vars
  <2>1. UNCHANGED <<messages, ringVars, buttons>> /\ (event' = event \/ event' = NULL)
    BY <1>4 DEF PumpEnds, Startup, MainLoopEvent, Delivered, Idle, Display, NothingToDraw,
                Return, PostRedisplay, SwapBuffers, LoopStep, vars
  <2> QED BY <2>1, QuietSteps DEF Ring!Next
<1>5. CASE \E e \in Events : Deliver(e)
  BY <1>3, <1>5 DEF Ring!Next
<1> QED BY <1>1, <1>2, <1>4, <1>5 DEF Next, Loop

\* The ring is a bounded queue: whatever the messages, the pumps and the
\* callbacks do, an event is delivered once, in the order of the messages, or is
\* refused because the ring is full when it comes (hle_window.c:71-93).
THEOREM InputIsQueue == Spec => ImplementsEventQueue
<1>1. Init => Ring!Init
  <2> SUFFICES ASSUME Init
               PROVE  Ring!Init
    OBVIOUS
  <2>1. Typed
    BY InitInput DEF InputInv
  <2>2. Source = <<>>
    BY <2>1, SourceIs DEF SourceShape, Init
  <2>3. Queued = <<>>
    <3>1. Queued \in Seq(Events) /\ Len(Queued) = 0
      BY <2>1, TypedRing, FullIs DEF Init
    <3> HIDE DEF Queued
    <3> QED BY <3>1
  <2> QED BY <2>2, <2>3 DEF Ring!Init, Source, Init
<1> QED BY <1>1, QueueSteps, InputInvariance, PTL DEF Spec, ImplementsEventQueue, Ring!Spec
=============================================================================
