-------------------------- MODULE DeviceHeardProofs --------------------------
(***************************************************************************)
(* What "Connected" is worth to the application: when the controller is    *)
(* connected and nothing is under way, each object it tracks is subscribed *)
(* at the device, and the application has heard the value the device now   *)
(* holds, whatever was set, reported, lost and connected again before.     *)
(*                                                                         *)
(* The bytes under way are read as two sequences of messages, the requests *)
(* and what the device says.  The invariant says of each object that its   *)
(* query is still among the requests, behind its subscription, or that it  *)
(* is subscribed and the last word about it, if there is one still under   *)
(* way, and what was heard if there is none, agrees with the device.       *)
(*                                                                         *)
(* And what a set is worth: once all is quiet the object it named holds    *)
(* what was sent.  The table it is set through and the one it is tracked   *)
(* under agree when the GUID is known, and the set that was asked for last *)
(* is under way behind every other of its object, or taken.                *)
(***************************************************************************)
EXTENDS DeviceSessionProofs

-----------------------------------------------------------------------------
(* Some messages of a sequence.                                            *)

Messages(frames) == {UnmarshalOcp1Message(frame) : frame \in frames}

NoneIn(s, A) == \A k \in 1 .. Len(s) : s[k] \notin A
LastIn(s, A, B) ==
  \E k \in 1 .. Len(s) : s[k] \in A /\ s[k] \in B /\ \A l \in k + 1 .. Len(s) : s[l] \notin A
AfterIn(s, A, B, done) ==
  \E k \in 1 .. Len(s) : s[k] \in A /\ (done \/ \E j \in 1 .. k - 1 : s[j] \in B)

(* None are in a sequence: one more that is not, and the first taken off.  *)
LEMMA NoneAppended ==
  ASSUME NEW T, NEW s \in Seq(T), NEW x \in T, NEW A, NoneIn(s, A), x \notin A
  PROVE  NoneIn(Append(s, x), A)
BY DEF NoneIn

LEMMA NoneTaken ==
  ASSUME NEW T, NEW s \in Seq(T), s # << >>, NEW A, NoneIn(s, A)
  PROVE  NoneIn(Tail(s), A)
BY DEF NoneIn

(* The last of the A is a B: the message that comes last,                  *)
LEMMA LastAppended ==
  ASSUME NEW T, NEW s \in Seq(T), NEW x \in T, NEW A, NEW B, x \in A, x \in B
  PROVE  LastIn(Append(s, x), A, B)
<1>1. /\ Len(Append(s, x)) = Len(s) + 1 /\ Append(s, x)[Len(s) + 1] = x
      /\ Len(s) + 1 \in 1 .. Len(s) + 1 /\ \A l \in (Len(s) + 1) + 1 .. Len(s) + 1 : FALSE
  OBVIOUS
<1> QED
  BY <1>1, Zenon DEF LastIn

(* another after it,                                                       *)
LEMMA LastStays ==
  ASSUME NEW T, NEW s \in Seq(T), NEW x \in T, NEW A, NEW B, x \notin A, LastIn(s, A, B)
  PROVE  LastIn(Append(s, x), A, B)
<1>1. PICK k \in 1 .. Len(s) :
        s[k] \in A /\ s[k] \in B /\ \A l \in k + 1 .. Len(s) : s[l] \notin A
  BY DEF LastIn
<1> DEFINE t == Append(s, x)
<1>2. Len(t) = Len(s) + 1 /\ t[Len(s) + 1] = x /\ \A l \in 1 .. Len(s) : t[l] = s[l]
  OBVIOUS
<1>3. Len(s) \in Nat
  OBVIOUS
<1> HIDE DEF t
<1>4. k \in 1 .. Len(t) /\ t[k] = s[k]
  BY <1>2, <1>3
<1>5. ASSUME NEW l \in k + 1 .. Len(t) PROVE t[l] \notin A
  <2>1. (l \in k + 1 .. Len(s) /\ l \in 1 .. Len(s)) \/ l = Len(s) + 1
    BY <1>2, <1>3
  <2> QED
    BY <1>1, <1>2, <2>1, Zenon
<1>6. LastIn(t, A, B)
  BY <1>1, <1>4, <1>5, Zenon DEF LastIn
<1> QED
  BY <1>6 DEF t

(* and the first taken off.                                                *)
LEMMA LastTaken ==
  ASSUME NEW T, NEW s \in Seq(T), s # << >>, NEW A, NEW B, LastIn(s, A, B)
  PROVE  \/ LastIn(Tail(s), A, B)
         \/ s[1] \in A /\ s[1] \in B /\ NoneIn(Tail(s), A)
<1>1. PICK k \in 1 .. Len(s) :
        s[k] \in A /\ s[k] \in B /\ \A l \in k + 1 .. Len(s) : s[l] \notin A
  BY DEF LastIn
<1> DEFINE t == Tail(s)
<1>2. Len(t) = Len(s) - 1 /\ \A l \in 1 .. Len(s) - 1 : t[l] = s[l + 1]
  OBVIOUS
<1>3. Len(s) \in Nat
  OBVIOUS
<1> HIDE DEF t
<1>4. ASSUME NEW l \in k .. Len(t), l >= 1 PROVE t[l] \notin A
  <2>1. l \in 1 .. Len(s) - 1 /\ l + 1 \in k + 1 .. Len(s)
    BY <1>2, <1>3, <1>4
  <2> QED
    BY <1>1, <1>2, <2>1, Zenon
<1>5. CASE k = 1
  <2>1. NoneIn(t, A)
    BY <1>4, <1>5 DEF NoneIn
  <2> QED
    BY <1>1, <1>5, <2>1 DEF t
<1>6. CASE k # 1
  <2>1. k - 1 \in 1 .. Len(t) /\ t[k - 1] = s[k] /\ (k - 1) + 1 = k
    BY <1>2, <1>3, <1>6
  <2>2. \A l \in (k - 1) + 1 .. Len(t) : t[l] \notin A
    BY <1>4, <2>1
  <2>3. LastIn(t, A, B)
    BY <1>1, <2>1, <2>2, Zenon DEF LastIn
  <2> QED
    BY <2>3 DEF t
<1> QED
  BY <1>5, <1>6

(* The same messages by other names.                                       *)
LEMMA NoneSame ==
  ASSUME NEW T, NEW s \in Seq(T), NEW A, NEW C,
         \A k \in 1 .. Len(s) : s[k] \in C => s[k] \in A, NoneIn(s, A)
  PROVE  NoneIn(s, C)
BY DEF NoneIn

LEMMA LastSame ==
  ASSUME NEW T, NEW s \in Seq(T), NEW A, NEW B, NEW C, NEW D,
         \A k \in 1 .. Len(s) : /\ s[k] \in A <=> s[k] \in C
                                /\ s[k] \in B => s[k] \in D,
         LastIn(s, A, B)
  PROVE  LastIn(s, C, D)
<1>1. PICK k \in 1 .. Len(s) :
        s[k] \in A /\ s[k] \in B /\ \A l \in k + 1 .. Len(s) : s[l] \notin A
  BY DEF LastIn
<1>2. \A l \in k + 1 .. Len(s) : l \in 1 .. Len(s)
  OBVIOUS
<1> QED
  BY <1>1, <1>2, Zenon DEF LastIn

(* An A comes after a B, or the B was before: more messages,               *)
LEMMA AfterAppended ==
  ASSUME NEW T, NEW s \in Seq(T), NEW t \in Seq(T), NEW A, NEW B, NEW done, AfterIn(s, A, B, done)
  PROVE  AfterIn(s \o t, A, B, done)
<1>1. PICK k \in 1 .. Len(s) : s[k] \in A /\ (done \/ \E j \in 1 .. k - 1 : s[j] \in B)
  BY DEF AfterIn
<1>2. k \in 1 .. Len(s \o t) /\ \A j \in 1 .. k : (s \o t)[j] = s[j]
  OBVIOUS
<1>3. k \in 1 .. k /\ \A j \in 1 .. k - 1 : j \in 1 .. k
  OBVIOUS
<1> QED
  BY <1>1, <1>2, <1>3, Zenon DEF AfterIn

(* the first taken off,                                                    *)
LEMMA AfterTaken ==
  ASSUME NEW T, NEW s \in Seq(T), s # << >>, NEW A, NEW B, NEW done, AfterIn(s, A, B, done)
  PROVE  \/ s[1] \in A /\ done
         \/ AfterIn(Tail(s), A, B, done \/ s[1] \in B)
<1>1. PICK k \in 1 .. Len(s) : s[k] \in A /\ (done \/ \E j \in 1 .. k - 1 : s[j] \in B)
  BY DEF AfterIn
<1> DEFINE t == Tail(s)
<1>2. Len(t) = Len(s) - 1 /\ \A l \in 2 .. Len(s) : t[l - 1] = s[l]
  OBVIOUS
<1>3. Len(s) \in Nat
  OBVIOUS
<1> HIDE DEF t
<1>4. CASE k = 1
  <2>1. ~ \E j \in 1 .. k - 1 : s[j] \in B
    BY <1>4
  <2> QED
    BY <1>1, <1>4, <2>1
<1>5. CASE k # 1
  <2>1. k - 1 \in 1 .. Len(t) /\ t[k - 1] = s[k]
    BY <1>2, <1>3, <1>5
  <2>2. done \/ s[1] \in B \/ \E j \in 1 .. (k - 1) - 1 : t[j] \in B
    <3> SUFFICES ASSUME NEW j \in 1 .. k - 1, s[j] \in B, j # 1
                 PROVE  \E i \in 1 .. (k - 1) - 1 : t[i] \in B
      BY <1>1
    <3>1. j - 1 \in 1 .. (k - 1) - 1 /\ t[j - 1] = s[j]
      BY <1>2, <1>3
    <3> QED
      BY <3>1
  <2>3. AfterIn(t, A, B, done \/ s[1] \in B)
    BY <1>1, <2>1, <2>2, Zenon DEF AfterIn
  <2> QED
    BY <2>3 DEF t
<1> QED
  BY <1>4, <1>5

(* and the same messages by other names.                                   *)
LEMMA AfterSame ==
  ASSUME NEW T, NEW s \in Seq(T), NEW A, NEW B, NEW done, NEW C, NEW D, NEW then,
         \A k \in 1 .. Len(s) : s[k] \in A => s[k] \in C,
         \A k \in 1 .. Len(s) : s[k] \in B => s[k] \in D,
         done => then, AfterIn(s, A, B, done)
  PROVE  AfterIn(s, C, D, then)
<1>1. PICK k \in 1 .. Len(s) : s[k] \in A /\ (done \/ \E j \in 1 .. k - 1 : s[j] \in B)
  BY DEF AfterIn
<1>2. \A j \in 1 .. k - 1 : j \in 1 .. Len(s)
  OBVIOUS
<1> QED
  BY <1>1, <1>2, Zenon DEF AfterIn

(* Requests in a row, one subscribing before each that asks.               *)
LEMMA AfterMade ==
  ASSUME NEW T, NEW s \in Seq(T), NEW n \in Nat, Len(s) = 2 * n, NEW i \in 1 .. n,
         NEW A, NEW B, NEW done, s[i] \in B, s[n + i] \in A
  PROVE  AfterIn(s, A, B, done)
<1>1. n + i \in 1 .. Len(s) /\ i \in 1 .. (n + i) - 1
  OBVIOUS
<1> QED
  BY <1>1, Zenon DEF AfterIn

-----------------------------------------------------------------------------
(* What a stream says.                                                     *)

Sayings(frames) == Seq(Int) \X Seq(Messages(frames))

(* A stream and the messages in its frames: the smallest set of pairs that *)
(* has the empty ones, and with each pair the one that a frame more makes. *)
IsSaying(S, frames) ==
  /\ << << >>, << >> >> \in S
  /\ \A pair \in S, frame \in frames :
       << pair[1] \o frame, Append(pair[2], UnmarshalOcp1Message(frame)) >> \in S
Conversations(frames) ==
  {pair \in Sayings(frames) : \A S \in SUBSET Sayings(frames) : IsSaying(S, frames) => pair \in S}

Speaks(s, m, frames) == << s, m >> \in Conversations(frames)

LEMMA NothingIsSaying ==
  ASSUME NEW frames
  PROVE  << << >>, << >> >> \in Sayings(frames)
<1>1. \A T : << >> \in Seq(T)
  BY EmptySeq
<1>2. \A A, B, x, y : x \in A /\ y \in B => << x, y >> \in A \X B
  OBVIOUS
<1> QED
  BY <1>1, <1>2, Zenon DEF Sayings

(* Every sequence of frames is a conversation,                             *)
LEMMA SaidOnce ==
  ASSUME NEW frames \in SUBSET Seq(Int)
  PROVE  IsSaying(Conversations(frames), frames)
<1>1. << << >>, << >> >> \in Conversations(frames)
  <2>1. << << >>, << >> >> \in Sayings(frames)
    BY NothingIsSaying
  <2> QED
    BY <2>1, Zenon DEF Conversations, IsSaying
<1>2. ASSUME NEW pair \in Conversations(frames), NEW frame \in frames
      PROVE  << pair[1] \o frame, Append(pair[2], UnmarshalOcp1Message(frame)) >>
               \in Conversations(frames)
  <2> DEFINE more == << pair[1] \o frame, Append(pair[2], UnmarshalOcp1Message(frame)) >>
  <2>1. pair[1] \in Seq(Int) /\ pair[2] \in Seq(Messages(frames)) /\ frame \in Seq(Int)
    BY DEF Conversations, Sayings
  <2>2. UnmarshalOcp1Message(frame) \in Messages(frames)
    BY Zenon DEF Messages
  <2>3. more \in Sayings(frames)
    BY <2>1, <2>2, ConcatProperties, AppendProperties DEF Sayings
  <2>4. ASSUME NEW S \in SUBSET Sayings(frames), IsSaying(S, frames) PROVE more \in S
    BY <2>4, Zenon DEF Conversations, IsSaying
  <2> QED
    BY <2>3, <2>4, Zenon DEF Conversations
<1> QED
  BY <1>1, <1>2, Zenon DEF IsSaying

(* and what holds of nothing, and with one frame more, holds of all:       *)
(* induction over the frames of a stream.                                  *)
LEMMA SmallestSaying ==
  ASSUME NEW frames, NEW S \in SUBSET Sayings(frames), IsSaying(S, frames)
  PROVE  Conversations(frames) \subseteq S
BY Zenon DEF Conversations

LEMMA AppendOfConcat ==
  ASSUME NEW T, NEW x \in T, NEW m \in Seq(T), NEW y \in T
  PROVE  Append(<< x >> \o m, y) = << x >> \o Append(m, y)
OBVIOUS

StartsWith(s, m, frame, rest, others, frames) ==
  /\ Speaks(rest, others, frames)
  /\ s = frame \o rest /\ m = << UnmarshalOcp1Message(frame) >> \o others

(* It says nothing, or its first frame something and the rest the rest.    *)
LEMMA FirstSaid ==
  ASSUME NEW frames \in SUBSET Seq(Int), NEW s, NEW m, Speaks(s, m, frames), s # << >>
  PROVE  \E frame \in frames : \E rest, others : StartsWith(s, m, frame, rest, others, frames)
<1> DEFINE Split(pair) ==
             \E frame \in frames : \E rest, others :
               /\ << rest, others >> \in Conversations(frames)
               /\ pair[1] = frame \o rest
               /\ pair[2] = << UnmarshalOcp1Message(frame) >> \o others
           S == {pair \in Sayings(frames) : pair = << << >>, << >> >> \/ Split(pair)}
<1>0. IsSaying(Conversations(frames), frames)
  BY SaidOnce
<1>1. << << >>, << >> >> \in S
  <2>1. << << >>, << >> >> \in Sayings(frames)
    BY NothingIsSaying
  <2> QED
    BY <2>1, Zenon
<1>2. ASSUME NEW pair \in S, NEW last \in frames
      PROVE  << pair[1] \o last, Append(pair[2], UnmarshalOcp1Message(last)) >> \in S
  <2> DEFINE said == UnmarshalOcp1Message(last)
             more == << pair[1] \o last, Append(pair[2], said) >>
  <2>1. pair[1] \in Seq(Int) /\ pair[2] \in Seq(Messages(frames)) /\ last \in Seq(Int)
    BY DEF Sayings
  <2>2. said \in Messages(frames)
    BY Zenon DEF Messages
  <2>3. more \in Sayings(frames)
    BY <2>1, <2>2, ConcatProperties, AppendProperties DEF Sayings
  <2>4. more[1] = pair[1] \o last /\ more[2] = Append(pair[2], said)
    OBVIOUS
  <2> HIDE DEF more
  <2>5. CASE pair = << << >>, << >> >>
    <3>1. pair[1] \o last = last \o << >>
      BY <2>1, <2>5, EmptyConcat
    <3>2. Append(pair[2], said) = << said >> \o << >>
      BY <2>5
    <3>3. << << >>, << >> >> \in Conversations(frames)
      BY <1>0, Zenon DEF IsSaying
    <3>4. Split(more)
      BY <2>4, <3>1, <3>2, <3>3, Zenon
    <3> QED
      BY <2>3, <3>4, Zenon DEF more
  <2>6. ASSUME NEW frame \in frames, NEW rest, NEW others,
               << rest, others >> \in Conversations(frames),
               pair[1] = frame \o rest, pair[2] = << UnmarshalOcp1Message(frame) >> \o others
        PROVE  Split(more)
    <3>1. rest \in Seq(Int) /\ others \in Seq(Messages(frames)) /\ frame \in Seq(Int)
      BY <2>6 DEF Conversations, Sayings
    <3>2. pair[1] \o last = frame \o (rest \o last)
      <4>1. (frame \o rest) \o last = frame \o (rest \o last)
        BY <2>1, <3>1, JoinsAssociate, Zenon
      <4> QED
        BY <2>6, <4>1, Zenon
    <3>3. UnmarshalOcp1Message(frame) \in Messages(frames)
      BY Zenon DEF Messages
    <3>4. Append(pair[2], said) = << UnmarshalOcp1Message(frame) >> \o Append(others, said)
      <4> HIDE DEF said
      <4> QED
        BY <2>2, <2>6, <3>1, <3>3, AppendOfConcat
    <3>5. << rest \o last, Append(others, said) >> \in Conversations(frames)
      <4> DEFINE p == << rest, others >>
      <4>1. p \in Conversations(frames) /\ p[1] = rest /\ p[2] = others
        BY <2>6
      <4> HIDE DEF p
      <4>2. << p[1] \o last, Append(p[2], said) >> \in Conversations(frames)
        BY <1>0, <4>1, Zenon DEF IsSaying
      <4> QED
        BY <4>1, <4>2, Zenon
    <3> QED
      BY <2>4, <3>2, <3>4, <3>5, Zenon
  <2>7. pair = << << >>, << >> >> \/ Split(more)
    <3>1. pair = << << >>, << >> >> \/ Split(pair)
      OBVIOUS
    <3> QED
      BY <2>6, <3>1, Zenon
  <2> QED
    BY <2>3, <2>5, <2>7, Zenon DEF more
<1>3. IsSaying(S, frames) /\ S \in SUBSET Sayings(frames)
  <2>1. S \in SUBSET Sayings(frames)
    OBVIOUS
  <2> HIDE DEF S
  <2> QED
    BY <1>1, <1>2, <2>1, Zenon DEF IsSaying
<1>4. << s, m >> \in S
  <2> HIDE DEF S
  <2> QED
    BY <1>3, SmallestSaying, Zenon DEF Speaks
<1>5. << s, m >> # << << >>, << >> >> /\ << s, m >>[1] = s /\ << s, m >>[2] = m
  OBVIOUS
<1>6. Split(<< s, m >>)
  BY <1>4, <1>5, Zenon
<1> QED
  BY <1>5, <1>6, Zenon DEF Speaks, StartsWith

(* A frame has bytes, so that nothing under way says nothing.              *)
LEMMA FramesHaveBytes ==
  ASSUME NEW frame \in Frames
  PROVE  frame \in Seq(Int) /\ frame # << >>
<1>1. PICK msg : IsSent(msg) /\ frame = GetSerializedData(msg)
  BY Zenon DEF Frames
<1>2. << >> \in Seq(Int) /\ frame \in Seq(Int)
  BY FramesAreSequences
<1>3. Ocp1HeaderSize <= Len(frame \o << >>)
  BY <1>1, <1>2, MessageTravels, Zenon
<1>4. frame \o << >> = frame
  BY <1>2, EmptyConcat
<1>5. Len(frame) # 0
  BY <1>3, <1>4 DEF Ocp1HeaderSize
<1> QED
  BY <1>2, <1>5

LEMMA NothingIsSaid ==
  ASSUME NEW frames \in SUBSET Frames, NEW m, Speaks(<< >>, m, frames)
  PROVE  m = << >>
<1> DEFINE S == {pair \in Sayings(frames) : pair[1] = << >> => pair[2] = << >>}
<1>1. << << >>, << >> >> \in S
  BY NothingIsSaying
<1>2. ASSUME NEW pair \in S, NEW frame \in frames
      PROVE  << pair[1] \o frame, Append(pair[2], UnmarshalOcp1Message(frame)) >> \in S
  <2> DEFINE said == UnmarshalOcp1Message(frame)
             more == << pair[1] \o frame, Append(pair[2], said) >>
  <2>1. /\ pair[1] \in Seq(Int) /\ pair[2] \in Seq(Messages(frames))
        /\ frame \in Seq(Int) /\ frame # << >>
    BY FramesHaveBytes DEF Sayings
  <2>2. said \in Messages(frames)
    BY Zenon DEF Messages
  <2>3. more \in Sayings(frames)
    BY <2>1, <2>2, ConcatProperties, AppendProperties DEF Sayings
  <2>4. pair[1] \o frame # << >>
    BY <2>1
  <2> QED
    BY <2>3, <2>4
<1>3. IsSaying(S, frames) /\ S \in SUBSET Sayings(frames)
  <2>1. S \in SUBSET Sayings(frames)
    OBVIOUS
  <2> HIDE DEF S
  <2> QED
    BY <1>1, <1>2, <2>1, Zenon DEF IsSaying
<1>4. << << >>, m >> \in S
  <2> HIDE DEF S
  <2> QED
    BY <1>3, SmallestSaying, Zenon DEF Speaks
<1> QED
  BY <1>4

(* What is said are messages.                                              *)
LEMMA SaidIsSeq ==
  ASSUME NEW frames \in SUBSET Seq(Int), NEW s, NEW m, Speaks(s, m, frames)
  PROVE  s \in Seq(Int) /\ m \in Seq(Messages(frames))
BY DEF Speaks, Conversations, Sayings

(* The receiver takes the first message off.                               *)
LEMMA SaidFirst ==
  ASSUME NEW frames \in SUBSET Frames, NEW s, NEW m, Speaks(s, m, frames), s # << >>
  PROVE  /\ m # << >> /\ UnmarshalOcp1Message(FirstFrame(s)) = m[1]
         /\ Speaks(AfterFirstFrame(s), Tail(m), frames)
<1>0. frames \in SUBSET Seq(Int)
  BY FramesAreSequences
<1>a. PICK frame \in frames :
        \E rest, others : StartsWith(s, m, frame, rest, others, frames)
  BY <1>0, FirstSaid, Zenon
<1>b. PICK rest, others : StartsWith(s, m, frame, rest, others, frames)
  BY <1>a
<1>1. /\ Speaks(rest, others, frames)
      /\ s = frame \o rest /\ m = << UnmarshalOcp1Message(frame) >> \o others
  BY <1>b DEF StartsWith
<1>2. PICK msg : IsSent(msg) /\ frame = GetSerializedData(msg)
  BY Zenon DEF Frames
<1>3. rest \in Seq(Int) /\ others \in Seq(Messages(frames)) /\ frame \in Seq(Int)
  BY <1>0, <1>1, SaidIsSeq
<1>4. AfterFirstFrame(s) = rest /\ FirstFrame(s) = frame
  BY <1>1, <1>2, <1>3, MessageTravels
<1>5. UnmarshalOcp1Message(frame) \in Messages(frames)
  BY Zenon DEF Messages
<1>6. \A T, x, t : x \in T /\ t \in Seq(T) =>
        << x >> \o t # << >> /\ (<< x >> \o t)[1] = x /\ Tail(<< x >> \o t) = t
  OBVIOUS
<1>7. m # << >> /\ m[1] = UnmarshalOcp1Message(frame) /\ Tail(m) = others
  BY <1>1, <1>3, <1>5, <1>6, Zenon
<1> QED
  BY <1>1, <1>4, <1>7, Zenon

(* The sender says something more.                                         *)
LEMMA SaidMore ==
  ASSUME NEW frames \in SUBSET Seq(Int), NEW s, NEW m, Speaks(s, m, frames),
         NEW frame \in frames
  PROVE  Speaks(s \o frame, Append(m, UnmarshalOcp1Message(frame)), frames)
<1> DEFINE p == << s, m >>
<1>1. p \in Conversations(frames) /\ p[1] = s /\ p[2] = m
  BY DEF Speaks
<1> HIDE DEF p
<1>2. << p[1] \o frame, Append(p[2], UnmarshalOcp1Message(frame)) >> \in Conversations(frames)
  BY <1>1, SaidOnce, Zenon DEF IsSaying
<1> QED
  BY <1>1, <1>2, Zenon DEF Speaks

LEMMA MappedIsSeq ==
  ASSUME NEW T, NEW n \in Nat, NEW f \in [1 .. n -> T]
  PROVE  f \in Seq(T) /\ Len(f) = n
OBVIOUS

LEMMA AppendToConcat ==
  ASSUME NEW T, NEW a \in Seq(T), NEW b \in Seq(T), NEW x \in T
  PROVE  Append(a \o b, x) = a \o Append(b, x)
<1>1. \A s \in Seq(T) : Append(s, x) = s \o << x >>
  BY AppendIsConcat
<1>2. a \o b \in Seq(T) /\ << x >> \in Seq(T)
  BY ConcatProperties
<1>3. (a \o b) \o << x >> = a \o (b \o << x >>)
  BY <1>2, ConcatAssociative
<1> QED
  BY <1>1, <1>2, <1>3, Zenon

(* Many messages at once, one after another.                               *)
LEMMA SaidMany ==
  ASSUME NEW frames \in SUBSET Seq(Int), NEW s, NEW m, Speaks(s, m, frames),
         NEW n \in Nat, NEW more, more = [i \in 1 .. n |-> more[i]],
         \A i \in 1 .. n : more[i] \in frames
  PROVE  Speaks(s \o Seqs!FlattenSeq(more),
                 m \o [i \in 1 .. n |-> UnmarshalOcp1Message(more[i])], frames)
<1> DEFINE said(i) == UnmarshalOcp1Message(more[i])
           then(i) == [k \in 1 .. i |-> said(k)]
<1>0. s \in Seq(Int) /\ m \in Seq(Messages(frames)) /\ \A i \in 1 .. n : more[i] \in Seq(Int)
  BY SaidIsSeq
<1>1. PICK u : /\ RunsOver(u, n, more) /\ Seqs!FlattenSeq(more) = u[n]
               /\ \A i \in 0 .. n : u[i] \in Seq(Int)
  BY <1>0, Flattened
<1>2. \A i \in 1 .. n : said(i) \in Messages(frames)
  BY Zenon DEF Messages
<1> HIDE DEF said
<1>3. ASSUME NEW i \in 0 .. n PROVE then(i) \in Seq(Messages(frames))
  <2>1. i \in Nat /\ \A k \in 1 .. i : k \in 1 .. n
    OBVIOUS
  <2>2. then(i) \in [1 .. i -> Messages(frames)]
    BY <1>2, <2>1, Zenon
  <2> HIDE DEF then
  <2> QED
    BY <2>1, <2>2, MappedIsSeq
<1> DEFINE S == {i \in Nat : i <= n => Speaks(s \o u[i], m \o then(i), frames)}
<1>4. 0 \in S
  <2>1. s \o u[0] = s
    BY <1>0, <1>1, EmptyConcat DEF RunsOver
  <2>2. m \o then(0) = m
    <3>1. then(0) = << >>
      OBVIOUS
    <3> HIDE DEF then
    <3> QED
      BY <1>0, <3>1, ConcatSimplifications
  <2>3. 0 \in Nat
    OBVIOUS
  <2> HIDE DEF then
  <2> QED
    BY <2>1, <2>2, <2>3, Zenon
<1>5. ASSUME NEW i \in S PROVE i + 1 \in S
  <2> SUFFICES ASSUME i + 1 <= n PROVE Speaks(s \o u[i + 1], m \o then(i + 1), frames)
    OBVIOUS
  <2>1. i \in 0 .. n /\ i + 1 \in 1 .. n /\ i <= n /\ i \in Nat /\ (i + 1) - 1 = i
    OBVIOUS
  <2>2. Speaks(s \o u[i], m \o then(i), frames)
    BY <2>1
  <2>3. Speaks((s \o u[i]) \o more[i + 1], Append(m \o then(i), said(i + 1)), frames)
    <3> HIDE DEF then, S
    <3> QED
      BY <2>1, <2>2, SaidMore DEF said
  <2>4. (s \o u[i]) \o more[i + 1] = s \o u[i + 1]
    <3>1. u[i + 1] = u[i] \o more[i + 1]
      BY <1>1, <2>1 DEF RunsOver
    <3>2. (s \o u[i]) \o more[i + 1] = s \o (u[i] \o more[i + 1])
      BY <1>0, <1>1, <2>1, JoinsAssociate
    <3> QED
      BY <3>1, <3>2, Zenon
  <2>5. Append(m \o then(i), said(i + 1)) = m \o then(i + 1)
    <3>1. then(i + 1) = Append(then(i), said(i + 1))
      BY <2>1
    <3>2. then(i) \in Seq(Messages(frames)) /\ said(i + 1) \in Messages(frames)
      BY <1>2, <1>3, <2>1
    <3> HIDE DEF then
    <3>3. Append(m \o then(i), said(i + 1)) = m \o Append(then(i), said(i + 1))
      <4> DEFINE a == m
                 b == then(i)
                 x == said(i + 1)
                 T == Messages(frames)
      <4>1. a \in Seq(T) /\ b \in Seq(T) /\ x \in T
        BY <1>0, <3>2
      <4> HIDE DEF a, b, x, T
      <4>2. Append(a \o b, x) = a \o Append(b, x)
        BY ONLY <4>1, AppendToConcat, SMT
      <4> QED
        BY <4>2, Zenon DEF a, b, x
    <3> QED
      BY <3>1, <3>3, Zenon
  <2> HIDE DEF then
  <2> QED
    BY <2>3, <2>4, <2>5, Zenon
<1>6. n \in S
  <2> HIDE DEF S
  <2>1. S \in SUBSET Nat
    BY DEF S
  <2> QED
    BY <1>4, <1>5, <2>1, SetInduction
<1>7. Speaks(s \o u[n], m \o then(n), frames)
  BY <1>6
<1> QED
  BY <1>1, <1>7, Zenon DEF said

-----------------------------------------------------------------------------
(* No two requests under way have one handle, nor two responses, nor a     *)
(* request and a response.                                                 *)
Numbered(reqs, answers, next) ==
  /\ \A j, k \in 1 .. Len(reqs) : reqs[j].handle = reqs[k].handle => j = k
  /\ \A j, k \in 1 .. Len(answers) :
       answers[j].type = Response /\ answers[k].type = Response
         /\ answers[j].handle = answers[k].handle => j = k
  /\ \A j \in 1 .. Len(reqs) :
       /\ reqs[j].handle \in 0 .. next - 1
       /\ \A k \in 1 .. Len(answers) :
            answers[k].type = Response => answers[k].handle # reqs[j].handle
  /\ \A k \in 1 .. Len(answers) :
       answers[k].type = Response => answers[k].handle \in 0 .. next - 1

(* A request more, with the next handle,                                   *)
LEMMA NumberedMore ==
  ASSUME NEW T, NEW reqs \in Seq(T), NEW U, NEW answers \in Seq(U), NEW next \in Nat,
         Numbered(reqs, answers, next), NEW more \in Seq(T),
         \A j \in 1 .. Len(more) : more[j].handle = next + j - 1
  PROVE  Numbered(reqs \o more, answers, next + Len(more))
<1> DEFINE all == reqs \o more
           m == Len(reqs)
           n == Len(more)
           p == next + n
<1>1. /\ m \in Nat /\ n \in Nat /\ Len(all) = m + n
      /\ \A j \in 1 .. m + n : all[j] = IF j <= m THEN reqs[j] ELSE more[j - m]
  OBVIOUS
<1> HIDE DEF all, m, n
<1>2. ASSUME NEW j \in 1 .. Len(all)
      PROVE  \/ j \in 1 .. m /\ all[j] = reqs[j] /\ all[j].handle \in 0 .. next - 1
             \/ j > m /\ all[j].handle = (next + j - m) - 1
  <2>1. CASE j <= m
    <3>1. j \in 1 .. m /\ all[j] = reqs[j]
      BY <1>1, <2>1
    <3>2. \A l \in 1 .. m : reqs[l].handle \in 0 .. next - 1
      BY Zenon DEF Numbered, m
    <3> QED
      BY <3>1, <3>2
  <2>2. CASE ~ (j <= m)
    <3>1. j - m \in 1 .. n /\ all[j] = more[j - m] /\ j > m
      BY <1>1, <2>2
    <3>2. more[j - m].handle = next + (j - m) - 1
      BY <3>1 DEF n
    <3> QED
      BY <1>1, <3>1, <3>2
  <2> QED
    BY <2>1, <2>2
<1>3. \A j, k \in 1 .. Len(all) : all[j].handle = all[k].handle => j = k
  <2> SUFFICES ASSUME NEW j \in 1 .. Len(all), NEW k \in 1 .. Len(all),
                      all[j].handle = all[k].handle PROVE j = k
    OBVIOUS
  <2>1. CASE j \in 1 .. m /\ k \in 1 .. m
    <3>1. \A l, o \in 1 .. m : reqs[l].handle = reqs[o].handle => l = o
      BY Zenon DEF Numbered, m
    <3>2. all[j] = reqs[j] /\ all[k] = reqs[k]
      BY <1>1, <2>1
    <3> QED
      BY <2>1, <3>1, <3>2
  <2>2. CASE ~ (j \in 1 .. m /\ k \in 1 .. m)
    BY <1>1, <1>2, <2>2
  <2> QED
    BY <2>1, <2>2
<1>4. p \in Nat /\ next <= p
  BY <1>1
<1>5. ASSUME NEW j \in 1 .. Len(all) PROVE all[j].handle \in 0 .. p - 1
  <2>1. CASE j \in 1 .. m /\ all[j].handle \in 0 .. next - 1
    BY <1>4, <2>1
  <2>2. CASE j > m /\ all[j].handle = (next + j - m) - 1
    BY <1>1, <2>2
  <2> QED
    BY <1>2, <2>1, <2>2
<1>6. ASSUME NEW k \in 1 .. Len(answers), answers[k].type = Response
      PROVE  answers[k].handle \in 0 .. next - 1 /\ answers[k].handle \in 0 .. p - 1
  <2>1. answers[k].handle \in 0 .. next - 1
    BY <1>6 DEF Numbered
  <2> QED
    BY <1>4, <2>1
<1>7. ASSUME NEW j \in 1 .. Len(all), NEW k \in 1 .. Len(answers), answers[k].type = Response
      PROVE  answers[k].handle # all[j].handle
  <2>1. CASE j \in 1 .. m /\ all[j] = reqs[j]
    <3>1. \A l \in 1 .. m : \A o \in 1 .. Len(answers) :
            answers[o].type = Response => answers[o].handle # reqs[l].handle
      BY Zenon DEF Numbered, m
    <3> QED
      BY <1>7, <2>1, <3>1, Zenon
  <2>2. CASE j > m /\ all[j].handle = (next + j - m) - 1
    BY <1>1, <1>6, <1>7, <2>2
  <2> QED
    BY <1>2, <2>1, <2>2
<1>8. Numbered(all, answers, p)
  <2>1. \A j, k \in 1 .. Len(answers) :
          answers[j].type = Response /\ answers[k].type = Response
            /\ answers[j].handle = answers[k].handle => j = k
    BY DEF Numbered
  <2> HIDE DEF p
  <2> QED
    BY <1>3, <1>5, <1>6, <1>7, <2>1, Zenon DEF Numbered
<1> QED
  BY <1>8 DEF all, n

LEMMA TailOf ==
  ASSUME NEW T, NEW s \in Seq(T), s # << >>
  PROVE  /\ Tail(s) \in Seq(T) /\ Len(s) \in Nat /\ 1 \in 1 .. Len(s)
         /\ Len(Tail(s)) = Len(s) - 1 /\ s[1] \in T
         /\ \A j \in 1 .. Len(Tail(s)) : j + 1 \in 1 .. Len(s) /\ Tail(s)[j] = s[j + 1]
OBVIOUS

LEMMA AppendOf ==
  ASSUME NEW T, NEW s \in Seq(T), NEW x \in T
  PROVE  /\ Append(s, x) \in Seq(T) /\ Len(s) \in Nat /\ Len(Append(s, x)) = Len(s) + 1
         /\ Append(s, x)[Len(s) + 1] = x
         /\ \A j \in 1 .. Len(s) : Append(s, x)[j] = s[j]
         /\ \A j \in 1 .. Len(Append(s, x)) : j \in 1 .. Len(s) \/ j = Len(s) + 1
OBVIOUS

(* What numbering says, fact by fact.                                      *)
LEMMA NumberedSays ==
  ASSUME NEW reqs, NEW answers, NEW next, Numbered(reqs, answers, next)
  PROVE  /\ \A j, k \in 1 .. Len(reqs) : reqs[j].handle = reqs[k].handle => j = k
         /\ \A j, k \in 1 .. Len(answers) :
              answers[j].type = Response /\ answers[k].type = Response
                /\ answers[j].handle = answers[k].handle => j = k
         /\ \A j \in 1 .. Len(reqs) : reqs[j].handle \in 0 .. next - 1
         /\ \A j \in 1 .. Len(reqs) : \A k \in 1 .. Len(answers) :
              answers[k].type = Response => answers[k].handle # reqs[j].handle
         /\ \A k \in 1 .. Len(answers) :
              answers[k].type = Response => answers[k].handle \in 0 .. next - 1
BY Zenon DEF Numbered

(* a message taken off by the controller,                                  *)
LEMMA NumberedTaken ==
  ASSUME NEW reqs, NEW U, NEW answers \in Seq(U), answers # << >>,
         NEW next, Numbered(reqs, answers, next)
  PROVE  /\ Numbered(reqs, Tail(answers), next)
         /\ answers[1].type = Response =>
              \A k \in 1 .. Len(Tail(answers)) :
                Tail(answers)[k].type = Response => Tail(answers)[k].handle # answers[1].handle
<1> DEFINE t == Tail(answers)
<1>1. /\ 1 \in 1 .. Len(answers)
      /\ \A j \in 1 .. Len(t) : j + 1 \in 1 .. Len(answers) /\ t[j] = answers[j + 1]
  BY TailOf
<1>2. Numbered(reqs, answers, next)
  OBVIOUS
<1> HIDE DEF t
<1>3. \A j, k \in 1 .. Len(answers) :
        answers[j].type = Response /\ answers[k].type = Response
          /\ answers[j].handle = answers[k].handle => j = k
  BY <1>2, NumberedSays, Zenon
<1>4. ASSUME NEW j \in 1 .. Len(t), NEW k \in 1 .. Len(t), t[j].type = Response,
             t[k].type = Response, t[j].handle = t[k].handle
      PROVE  j = k
  <2>1. j + 1 \in 1 .. Len(answers) /\ k + 1 \in 1 .. Len(answers)
    BY <1>1
  <2>2. t[j] = answers[j + 1] /\ t[k] = answers[k + 1]
    BY <1>1
  <2>3. j + 1 = k + 1
    BY <1>3, <1>4, <2>1, <2>2, Zenon
  <2> QED
    BY <2>3
<1>5. ASSUME NEW k \in 1 .. Len(t), t[k].type = Response, answers[1].type = Response
      PROVE  t[k].handle # answers[1].handle
  <2>1. k + 1 \in 1 .. Len(answers) /\ t[k] = answers[k + 1] /\ k + 1 # 1
    BY <1>1
  <2> QED
    BY <1>1, <1>3, <1>5, <2>1, Zenon
<1>6. ASSUME NEW k \in 1 .. Len(t), t[k].type = Response
      PROVE  /\ t[k].handle \in 0 .. next - 1
             /\ \A j \in 1 .. Len(reqs) : t[k].handle # reqs[j].handle
  <2>1. k + 1 \in 1 .. Len(answers) /\ t[k] = answers[k + 1]
    BY <1>1
  <2>2. /\ \A j \in 1 .. Len(reqs) : \A l \in 1 .. Len(answers) :
             answers[l].type = Response => answers[l].handle # reqs[j].handle
        /\ \A l \in 1 .. Len(answers) :
             answers[l].type = Response => answers[l].handle \in 0 .. next - 1
    BY <1>2, NumberedSays, Zenon
  <2> QED
    BY ONLY <1>6, <2>1, <2>2, Zenon
<1>7. /\ \A j, k \in 1 .. Len(reqs) : reqs[j].handle = reqs[k].handle => j = k
      /\ \A j \in 1 .. Len(reqs) : reqs[j].handle \in 0 .. next - 1
  BY <1>2, NumberedSays, Zenon
<1>8. Numbered(reqs, t, next)
  BY ONLY <1>4, <1>6, <1>7, Zenon DEF Numbered
<1>9. answers[1].type = Response =>
        \A k \in 1 .. Len(t) : t[k].type = Response => t[k].handle # answers[1].handle
  BY <1>5
<1> QED
  BY <1>8, <1>9 DEF t

(* a message of the device that answers none,                              *)
LEMMA NumberedSaid ==
  ASSUME NEW reqs, NEW U, NEW answers \in Seq(U), NEW x \in U, x.type # Response,
         NEW next, Numbered(reqs, answers, next)
  PROVE  Numbered(reqs, Append(answers, x), next)
<1> DEFINE t == Append(answers, x)
<1>1. \A k \in 1 .. Len(t) :
        t[k].type = Response => k \in 1 .. Len(answers) /\ t[k] = answers[k]
  BY AppendOf
<1> HIDE DEF t
<1>2. Numbered(reqs, t, next)
  BY <1>1, Zenon DEF Numbered
<1> QED
  BY <1>2 DEF t

(* and a request taken off and answered.                                   *)
LEMMA NumberedAnswered ==
  ASSUME NEW T, NEW reqs \in Seq(T), reqs # << >>, NEW U, NEW answers \in Seq(U), NEW x \in U,
         x.type = Response, x.handle = reqs[1].handle, NEW next, Numbered(reqs, answers, next)
  PROVE  Numbered(Tail(reqs), Append(answers, x), next)
<1> DEFINE t == Append(answers, x)
           r == Tail(reqs)
<1>1. /\ 1 \in 1 .. Len(reqs)
      /\ \A j \in 1 .. Len(r) : j + 1 \in 1 .. Len(reqs) /\ r[j] = reqs[j + 1] /\ j + 1 # 1
  BY TailOf
<1>2. /\ \A k \in 1 .. Len(t) :
           \/ k \in 1 .. Len(answers) /\ t[k] = answers[k]
           \/ k = Len(answers) + 1 /\ t[k] = x
      /\ \A k \in 1 .. Len(answers) : k # Len(answers) + 1
  BY AppendOf
<1>3. /\ \A j, k \in 1 .. Len(reqs) : reqs[j].handle = reqs[k].handle => j = k
      /\ \A j, k \in 1 .. Len(answers) :
           answers[j].type = Response /\ answers[k].type = Response
             /\ answers[j].handle = answers[k].handle => j = k
      /\ \A j \in 1 .. Len(reqs) : reqs[j].handle \in 0 .. next - 1
      /\ \A j \in 1 .. Len(reqs) : \A k \in 1 .. Len(answers) :
           answers[k].type = Response => answers[k].handle # reqs[j].handle
      /\ \A k \in 1 .. Len(answers) :
           answers[k].type = Response => answers[k].handle \in 0 .. next - 1
  BY NumberedSays, Zenon
<1>4. x.type = Response /\ x.handle = reqs[1].handle
  OBVIOUS
<1> HIDE DEF t, r
<1>5. ASSUME NEW j \in 1 .. Len(r), NEW k \in 1 .. Len(r), r[j].handle = r[k].handle
      PROVE  j = k
  <2>1. j + 1 \in 1 .. Len(reqs) /\ k + 1 \in 1 .. Len(reqs)
    BY <1>1
  <2>2. r[j] = reqs[j + 1] /\ r[k] = reqs[k + 1]
    BY <1>1
  <2>3. j + 1 = k + 1
    BY <1>3, <1>5, <2>1, <2>2, Zenon
  <2> QED
    BY <2>3
<1>6. ASSUME NEW j \in 1 .. Len(t), NEW k \in 1 .. Len(t), t[j].type = Response,
             t[k].type = Response, t[j].handle = t[k].handle
      PROVE  j = k
  <2>1. CASE t[j] = x /\ t[k] = x
    <3>1. /\ j = Len(answers) + 1 \/ (j \in 1 .. Len(answers) /\ t[j] = answers[j])
          /\ k = Len(answers) + 1 \/ (k \in 1 .. Len(answers) /\ t[k] = answers[k])
      BY <1>2, Zenon
    <3>2. \A l \in 1 .. Len(answers) : answers[l].type = Response => answers[l].handle # x.handle
      BY <1>1, <1>3, <1>4, Zenon
    <3>3. j = Len(answers) + 1 /\ k = Len(answers) + 1
      BY ONLY <1>4, <2>1, <3>1, <3>2, Zenon
    <3> QED
      BY <3>3
  <2>2. CASE t[j] # x /\ t[k] # x
    <3>1. /\ j \in 1 .. Len(answers) /\ t[j] = answers[j]
          /\ k \in 1 .. Len(answers) /\ t[k] = answers[k]
      BY <1>2, <2>2, Zenon
    <3> QED
      BY ONLY <1>3, <1>6, <3>1, Zenon
  <2>3. \A l \in 1 .. Len(answers) : answers[l].type = Response => answers[l].handle # x.handle
    BY <1>1, <1>3, <1>4, Zenon
  <2>4. CASE t[j] = x /\ t[k] # x
    <3>1. k \in 1 .. Len(answers) /\ t[k] = answers[k]
      BY <1>2, <2>4, Zenon
    <3> QED
      BY ONLY <1>6, <2>3, <2>4, <3>1, Zenon
  <2>5. CASE t[j] # x /\ t[k] = x
    <3>1. j \in 1 .. Len(answers) /\ t[j] = answers[j]
      BY <1>2, <2>5, Zenon
    <3> QED
      BY ONLY <1>6, <2>3, <2>5, <3>1, Zenon
  <2> QED
    BY <2>1, <2>2, <2>4, <2>5, Zenon
<1>7. ASSUME NEW j \in 1 .. Len(r)
      PROVE  /\ r[j].handle \in 0 .. next - 1
             /\ \A k \in 1 .. Len(t) : t[k].type = Response => t[k].handle # r[j].handle
  <2>1. j + 1 \in 1 .. Len(reqs) /\ r[j] = reqs[j + 1] /\ j + 1 # 1
    BY <1>1
  <2>2. reqs[1].handle # r[j].handle
    BY <1>1, <1>3, <2>1, Zenon
  <2> QED
    BY ONLY <1>2, <1>3, <1>4, <2>1, <2>2, Zenon
<1>8. \A k \in 1 .. Len(t) : t[k].type = Response => t[k].handle \in 0 .. next - 1
  BY <1>1, <1>2, <1>3, <1>4, Zenon
<1>9. Numbered(r, t, next)
  BY ONLY <1>5, <1>6, <1>7, <1>8, Zenon DEF Numbered
<1> QED
  BY <1>9 DEF t, r

-----------------------------------------------------------------------------
(* What the messages say.                                                  *)

(* A message is read from its frame as it was sent.                        *)
LEMMA FrameSays ==
  ASSUME NEW msg, IsSent(msg)
  PROVE  /\ GetSerializedData(msg) \in Frames
         /\ UnmarshalOcp1Message(GetSerializedData(msg)) = Received(msg)
BY SentIsFrame, SentArrives, Zenon DEF Arrives

LEMMA RequestSays ==
  ASSUME NEW msg, IsRequest(msg)
  PROVE  /\ GetSerializedData(msg) \in Requests
         /\ UnmarshalOcp1Message(GetSerializedData(msg)) = msg
BY RequestIsFrame, RequestIsSent, FrameSays, Zenon

LEMMA RequestsAre ==
  ASSUME NEW msg \in Messages(Requests)
  PROVE  IsRequest(msg)
<1>1. PICK frame \in Requests : msg = UnmarshalOcp1Message(frame)
  BY Zenon DEF Messages
<1>2. PICK sent : IsRequest(sent) /\ frame = GetSerializedData(sent)
  BY Zenon DEF Requests
<1> QED
  BY <1>1, <1>2, RequestSays, Zenon

LEMMA ResponseSays ==
  ASSUME NEW msg, msg.handle \in Long \ {0}, NEW status \in Octet, NEW paramCount \in Octet,
         NEW data \in Seq(Int), Len(data) <= 3 * (LongestText + 2)
  PROVE  /\ Respond(msg, status, paramCount, data) \in Frames
         /\ UnmarshalOcp1Message(Respond(msg, status, paramCount, data)) =
              ResponseMessage(msg.handle, status, paramCount, data)
<1> DEFINE sent == ResponseMessage(msg.handle, status, paramCount, data)
<1>1. Len(data) + 19 \in Long
  BY DataFits
<1>2. IsSent(sent)
  BY <1>1, Zenon DEF IsSent
<1>3. Received(sent) = sent
  BY MessageTypes DEF Received, ResponseMessage
<1> QED
  BY <1>2, <1>3, FrameSays, Zenon DEF Respond

Notified(def, data) == NotificationMessage(def.ono, def.level, def.index, 2, data)

LEMMA NotifySays ==
  ASSUME NEW def, IsProperty(def), NEW data, IsData(data),
         NEW frame,
         frame = GetSerializedData(NotificationMessage(def.ono, def.level, def.index, 1, data))
  PROVE  frame \in Frames /\ UnmarshalOcp1Message(frame) = Notified(def, data)
<1> DEFINE sent == NotificationMessage(def.ono, def.level, def.index, 1, data)
<1>1. IsTarget(def)
  BY PropertyIsTarget
<1>2. def.index \in 1 .. MaxUint16
  BY Zenon DEF IsProperty
<1>3. /\ def.ono \in Long \ {0} /\ def.level \in Word \ {0} /\ def.index \in Word \ {0}
  BY <1>1, <1>2, NumbersFit, Zenon DEF IsTarget
<1>4. data \in Seq(Int) /\ data # << >> /\ Len(data) + 37 \in Long
  BY OneDataFits, DataFits, Zenon DEF IsData
<1>5. IsSent(sent)
  <2>1. 1 \in Octet
    BY SmallNumbers
  <2> QED
    BY <1>3, <1>4, <2>1, Zenon DEF IsSent
<1>6. Received(sent) = Notified(def, data)
  <2>1. /\ sent.type = 2 /\ sent.data = data /\ sent.ono = def.ono
        /\ sent.defLevel = def.level /\ sent.index = def.index
    BY MessageTypes DEF NotificationMessage
  <2> HIDE DEF sent
  <2> QED
    BY <2>1, MessageTypes DEF Received, Notified
<1> QED
  BY <1>5, <1>6, FrameSays, Zenon

LEMMA BeatSays ==
  ASSUME NEW time \in Seq(Octet), Len(time) \in {2, 4}
  PROVE  /\ GetSerializedData(KeepAliveMessage(time)) \in Frames
         /\ UnmarshalOcp1Message(GetSerializedData(KeepAliveMessage(time))).type = KeepAlive
<1> DEFINE sent == KeepAliveMessage(time)
<1>1. IsSent(sent)
  BY Zenon DEF IsSent
<1>2. Received(sent).type = KeepAlive
  BY MessageTypes DEF Received, KeepAliveMessage
<1> QED
  BY <1>1, <1>2, FrameSays, Zenon

(* A subscription names the object.                                        *)
LEMMA SubscriptionNames ==
  ASSUME NEW ono \in Long
  PROVE  U32At(Octets!DataFromOnoForSubscription(ono), 0) = ono
<1> DEFINE a == U32(ono)
           b == << 0, 1, 0, 1 >>
           c == << 0, 3, 0, 1 >>
           d == << 0, 0, 1, 0, 4, 0, 0, 0, 0 >>
<1>0. ono \in Int
  BY NumbersOfFields
<1>1. a \in Seq(Int) /\ Len(a) = 4
  BY <1>0, FieldsOfNumbers
<1>2. b \in Seq(Int) /\ c \in Seq(Int) /\ d \in Seq(Int)
  OBVIOUS
<1>3. Octets!DataFromOnoForSubscription(ono) = (((a \o b) \o a) \o c) \o d
  BY Zenon DEF Octets!DataFromOnoForSubscription, U32, Octets!DataFromUint32
<1> HIDE DEF a, b, c, d
<1>4. a \o b \in Seq(Int) /\ Carries(a \o b, 0, a)
  BY <1>1, <1>2, FieldAdded
<1>a. 0 \in Nat /\ Len(a) \in Nat
  BY <1>1
<1>5. (a \o b) \o a \in Seq(Int) /\ Carries((a \o b) \o a, 0, a)
  BY <1>1, <1>4, <1>a, FieldAdded, CarriesStill, Zenon
<1>6. ((a \o b) \o a) \o c \in Seq(Int) /\ Carries(((a \o b) \o a) \o c, 0, a)
  BY <1>2, <1>5, <1>a, FieldAdded, CarriesStill, Zenon
<1>7. Carries((((a \o b) \o a) \o c) \o d, 0, a)
  BY <1>2, <1>6, <1>a, CarriesStill, Zenon
<1> QED
  BY <1>3, <1>7, <1>a, ReadsLong, Zenon DEF a

-----------------------------------------------------------------------------
(* The requests and the messages of the device that an object is about.    *)

Asking(def, gets) ==
  {msg \in Messages(Requests) :
     /\ msg.paramCount = 0
     /\ msg.ono = def.ono /\ msg.defLevel = def.level /\ msg.index = def.getter
     /\ msg.handle \in DOMAIN gets /\ gets[msg.handle] = def.ono}
Subscribing(ono) ==
  {msg \in Messages(Requests) : msg.ono = SubscriptionManager /\ U32At(msg.data, 0) = ono}
Telling(ono, gets) ==
  {msg \in Messages(Frames) :
     \/ msg.type = Notification /\ msg.ono = ono
     \/ /\ msg.type = Response /\ msg.status = OK /\ msg.paramCount > 0
        /\ msg.handle \in DOMAIN gets /\ gets[msg.handle] = ono}

(* What the application hears agrees with what the device holds.           *)
Agrees(object, def, bytes, read) ==
  read.ok /\ Essence(def, read.value) = Essence(def, Decoded(object, bytes).value)
Truthful(object, def, bytes) ==
  {msg \in Messages(Frames) : Agrees(object, def, bytes, Decoded(object, msg.data))}

(* An object will be asked for when it is subscribed, or it is subscribed  *)
(* and what was heard of it, or is still to be heard last, is the truth.   *)
IsAsked(def, reqs, gets, subs) ==
  AfterIn(reqs, Asking(def, gets), Subscribing(def.ono), def.ono \in subs)
IsTold(object, def, answers, gets, subs, bytes, told) ==
  /\ def.ono \in subs
  /\ \/ /\ NoneIn(answers, Telling(def.ono, gets))
        /\ object \in DOMAIN told /\ Agrees(object, def, bytes, told[object])
     \/ LastIn(answers, Telling(def.ono, gets), Truthful(object, def, bytes))

(* What each step does to one object.  More requests,                      *)
LEMMA AskedMore ==
  ASSUME NEW def, NEW reqs \in Seq(Messages(Requests)), NEW more \in Seq(Messages(Requests)),
         NEW gets, NEW subs, IsAsked(def, reqs, gets, subs)
  PROVE  IsAsked(def, reqs \o more, gets, subs)
BY AfterAppended, Zenon DEF IsAsked

(* the first request taken by the device,                                  *)
LEMMA AskedTaken ==
  ASSUME NEW def, NEW reqs \in Seq(Messages(Requests)), reqs # << >>, NEW gets,
         NEW subs, NEW then, subs \subseteq then,
         reqs[1] \in Subscribing(def.ono) => def.ono \in then,
         IsAsked(def, reqs, gets, subs)
  PROVE  \/ reqs[1] \in Asking(def, gets) /\ def.ono \in then
         \/ IsAsked(def, Tail(reqs), gets, then)
<1> DEFINE A == Asking(def, gets)
           B == Subscribing(def.ono)
           T == Messages(Requests)
           t == Tail(reqs)
           before == def.ono \in subs
           done == before \/ reqs[1] \in B
           after == def.ono \in then
<1>1. AfterIn(reqs, A, B, before) /\ reqs \in Seq(T) /\ reqs # << >>
  BY Zenon DEF IsAsked
<1>2. done => after
  OBVIOUS
<1>3. t \in Seq(T)
  BY TailOf
<1>a. before => after
  OBVIOUS
<1> HIDE DEF A, B, T, before
<1>4. (reqs[1] \in A /\ before) \/ AfterIn(t, A, B, done)
  BY ONLY <1>1, AfterTaken
<1> HIDE DEF t, done, after
<1>5. CASE AfterIn(t, A, B, done)
  <2>1. AfterIn(t, A, B, after)
    BY ONLY <1>2, <1>3, <1>5, AfterSame
  <2> QED
    BY <2>1, Zenon DEF IsAsked, A, B, t, after
<1> QED
  BY <1>4, <1>5, <1>a, Zenon DEF A, after

(* and other requests pending.                                             *)
LEMMA AskedSame ==
  ASSUME NEW def, NEW reqs \in Seq(Messages(Requests)), NEW gets, NEW subs, NEW then,
         \A k \in 1 .. Len(reqs) :
           reqs[k].handle \in DOMAIN gets =>
             reqs[k].handle \in DOMAIN then /\ then[reqs[k].handle] = gets[reqs[k].handle],
         IsAsked(def, reqs, gets, subs)
  PROVE  IsAsked(def, reqs, then, subs)
<1> DEFINE A == Asking(def, gets)
           C == Asking(def, then)
           B == Subscribing(def.ono)
           T == Messages(Requests)
           done == def.ono \in subs
<1>1. AfterIn(reqs, A, B, done) /\ reqs \in Seq(T)
  BY Zenon DEF IsAsked
<1>2. \A k \in 1 .. Len(reqs) : reqs[k] \in A => reqs[k] \in C
  BY Zenon DEF Asking
<1> HIDE DEF A, B, C, T, done
<1>3. AfterIn(reqs, C, B, done)
  BY ONLY <1>1, <1>2, AfterSame
<1> QED
  BY <1>3, Zenon DEF IsAsked, B, C, done

(* A message of the device that tells nothing of the object,               *)
LEMMA ToldElse ==
  ASSUME NEW object, NEW def, NEW answers \in Seq(Messages(Frames)), NEW x \in Messages(Frames),
         NEW gets, NEW subs, NEW then, subs \subseteq then, NEW bytes, NEW told,
         x \notin Telling(def.ono, gets), IsTold(object, def, answers, gets, subs, bytes, told)
  PROVE  IsTold(object, def, Append(answers, x), gets, then, bytes, told)
<1> DEFINE A == Telling(def.ono, gets)
           B == Truthful(object, def, bytes)
           T == Messages(Frames)
<1>1. /\ answers \in Seq(T) /\ x \in T /\ x \notin A /\ def.ono \in then
      /\ \/ /\ NoneIn(answers, A) /\ object \in DOMAIN told
            /\ Agrees(object, def, bytes, told[object])
         \/ LastIn(answers, A, B)
  BY Zenon DEF IsTold
<1> HIDE DEF A, B, T
<1>2. NoneIn(answers, A) => NoneIn(Append(answers, x), A)
  BY ONLY <1>1, NoneAppended, Zenon
<1>3. LastIn(answers, A, B) => LastIn(Append(answers, x), A, B)
  BY ONLY <1>1, LastStays, Zenon
<1> QED
  BY <1>1, <1>2, <1>3, Zenon DEF IsTold, A, B

(* or the truth,                                                           *)
LEMMA ToldAnew ==
  ASSUME NEW object, NEW def, NEW answers \in Seq(Messages(Frames)), NEW x \in Messages(Frames),
         NEW gets, NEW subs, def.ono \in subs, NEW bytes, NEW told,
         x \in Telling(def.ono, gets), Agrees(object, def, bytes, Decoded(object, x.data))
  PROVE  IsTold(object, def, Append(answers, x), gets, subs, bytes, told)
<1> DEFINE A == Telling(def.ono, gets)
           B == Truthful(object, def, bytes)
           T == Messages(Frames)
<1>1. answers \in Seq(T) /\ x \in T /\ x \in A /\ x \in B
  BY Zenon DEF Truthful
<1> HIDE DEF A, B, T
<1>2. LastIn(Append(answers, x), A, B)
  BY ONLY <1>1, LastAppended, Zenon
<1> QED
  BY <1>2, Zenon DEF IsTold, A, B

(* and the first message taken by the application.                         *)
LEMMA ToldTaken ==
  ASSUME NEW object, NEW def, NEW answers \in Seq(Messages(Frames)), answers # << >>,
         NEW gets, NEW then, NEW subs, NEW bytes, NEW told, NEW heardOf,
         \A k \in 1 .. Len(Tail(answers)) :
           Tail(answers)[k] \in Telling(def.ono, gets)
             <=> Tail(answers)[k] \in Telling(def.ono, then),
         answers[1] \in Telling(def.ono, gets) =>
           object \in DOMAIN heardOf /\ heardOf[object] = Decoded(object, answers[1].data),
         answers[1] \notin Telling(def.ono, gets) =>
           (object \in DOMAIN told =>
              object \in DOMAIN heardOf /\ heardOf[object] = told[object]),
         IsTold(object, def, answers, gets, subs, bytes, told)
  PROVE  IsTold(object, def, Tail(answers), then, subs, bytes, heardOf)
<1> DEFINE A == Telling(def.ono, gets)
           C == Telling(def.ono, then)
           B == Truthful(object, def, bytes)
           T == Messages(Frames)
           t == Tail(answers)
<1>1. /\ answers \in Seq(T) /\ def.ono \in subs /\ 1 \in 1 .. Len(answers) /\ t \in Seq(T)
      /\ \/ /\ NoneIn(answers, A) /\ object \in DOMAIN told
            /\ Agrees(object, def, bytes, told[object])
         \/ LastIn(answers, A, B)
  BY TailOf, Zenon DEF IsTold
<1>2. /\ \A k \in 1 .. Len(t) : t[k] \in A <=> t[k] \in C
      /\ answers[1] \in A =>
           object \in DOMAIN heardOf /\ heardOf[object] = Decoded(object, answers[1].data)
      /\ answers[1] \notin A =>
           (object \in DOMAIN told => object \in DOMAIN heardOf /\ heardOf[object] = told[object])
      /\ answers # << >>
  OBVIOUS
<1>3. answers[1] \in B => Agrees(object, def, bytes, Decoded(object, answers[1].data))
  BY Zenon DEF Truthful
<1> HIDE DEF A, B, C, T
<1>4. NoneIn(t, A) => NoneIn(t, C)
  <2> HIDE DEF t
  <2> QED
    BY ONLY <1>1, <1>2, NoneSame, Zenon
<1>5. LastIn(t, A, B) => LastIn(t, C, B)
  <2> HIDE DEF t
  <2> QED
    BY ONLY <1>1, <1>2, LastSame, Zenon
<1>6. CASE /\ NoneIn(answers, A) /\ object \in DOMAIN told
           /\ Agrees(object, def, bytes, told[object])
  <2>1. NoneIn(t, A)
    BY ONLY <1>1, <1>2, <1>6, NoneTaken, Zenon
  <2>2. answers[1] \notin A
    BY <1>1, <1>6, Zenon DEF NoneIn
  <2>3. object \in DOMAIN heardOf /\ Agrees(object, def, bytes, heardOf[object])
    BY <1>2, <1>6, <2>2, Zenon
  <2> QED
    BY <1>1, <1>4, <2>1, <2>3, Zenon DEF IsTold, C, t
<1>7. CASE LastIn(answers, A, B)
  <2>1. LastIn(t, A, B) \/ (answers[1] \in A /\ answers[1] \in B /\ NoneIn(t, A))
    BY ONLY <1>1, <1>2, <1>7, LastTaken, Zenon
  <2>2. CASE LastIn(t, A, B)
    BY <1>1, <1>5, <2>2, Zenon DEF IsTold, B, C, t
  <2>3. CASE answers[1] \in A /\ answers[1] \in B /\ NoneIn(t, A)
    <3>1. object \in DOMAIN heardOf /\ Agrees(object, def, bytes, heardOf[object])
      BY <1>2, <1>3, <2>3, Zenon
    <3> QED
      BY <1>1, <1>4, <2>3, <3>1, Zenon DEF IsTold, C, t
  <2> QED
    BY <2>1, <2>2, <2>3
<1> QED
  BY <1>1, <1>6, <1>7

-----------------------------------------------------------------------------
(* The session.                                                            *)

(* The GUID is still to come, or it is known what there is at the device.  *)
Greeting == linked /\ IsSoundscape /\ RevisionIsKnown /\ deviceGuid = NoGuid
Serving  == linked /\ RevisionIsKnown /\ (IsSoundscape => deviceGuid # NoGuid)

Greets(reqs, answers) ==
  /\ state = "Connecting" /\ subscribed = {}
  /\ \A g, h \in DOMAIN pendingGets : g = h
  /\ \A h \in DOMAIN pendingGets : pendingGets[h] = GuidDefinition.ono
  /\ \A k \in 1 .. Len(reqs) : reqs[k] \in Asking(GuidDefinition, pendingGets)
  /\ \A k \in 1 .. Len(answers) :
       \/ answers[k].type = KeepAlive
       \/ /\ answers[k].type = Response
          /\ answers[k] \in Telling(GuidDefinition.ono, pendingGets)
          /\ answers[k].data = DataFromString(guid)

Queries(msg, def, gets) ==
  /\ msg.ono = def.ono /\ msg.defLevel = def.level /\ msg.index = def.getter
  /\ msg.handle \in DOMAIN gets => gets[msg.handle] = def.ono

KnowsOf(object, def, reqs, answers) ==
  \/ IsAsked(def, reqs, pendingGets, subscribed)
  \/ IsTold(object, def, answers, pendingGets, subscribed, Held(def), heard)

Serves(reqs, answers) ==
  /\ \A h \in DOMAIN pendingGets : TrackedAt(pendingGets[h]) # {}
  /\ \A k \in 1 .. Len(reqs) :
       reqs[k].paramCount = 0 =>
         \E i \in 1 .. Len(tracked) : Queries(reqs[k], tracked[i].def, pendingGets)
  /\ \A i \in 1 .. Len(tracked) : KnowsOf(tracked[i].object, tracked[i].def, reqs, answers)

Session(reqs, answers) ==
  /\ linked => state # "Disconnected"
  /\ ~ linked => /\ subscribed = {} /\ DOMAIN pendingGets = {}
                 /\ toDevice = << >> /\ toController = << >>
  /\ Numbered(reqs, answers, nextHandle)
  /\ Greeting => Greets(reqs, answers)
  /\ Serving => Serves(reqs, answers)

Says(reqs, answers) ==
  Speaks(toDevice, reqs, Requests) /\ Speaks(toController, answers, Frames)

SessionInv == \E reqs, answers : Says(reqs, answers) /\ Session(reqs, answers)

(* What the theorem asks of the device and of the application.             *)
Distinct ==
  \A i, j \in 1 .. Len(tracked) :
    tracked[i].def.ono = tracked[j].def.ono \/ tracked[i].object = tracked[j].object => i = j

Willing(object, def) ==
  /\ def.ono # SubscriptionManager /\ DeviceDefinitions(def.ono) = {def}
  /\ Decoded(object, Held(def)).ok
  /\ def.type = "FLOAT32" => Len(Held(def)) = 4

DeviceServes ==
  /\ Distinct
  /\ IsSoundscape =>
       /\ TrackedAt(GuidDefinition.ono) = {}
       /\ Held(GuidDefinition) = DataFromString(guid)
       /\ DeviceDefinitions(GuidDefinition.ono) = {GuidDefinition}
  /\ Serving => \A i \in 1 .. Len(tracked) : Willing(tracked[i].object, tracked[i].def)

(* An object knows of its value whatever else happens.                     *)
LEMMA SameDecoding ==
  ASSUME setup' = setup, NEW object, NEW data
  PROVE  Decoded(object, data)' = Decoded(object, data)
BY Zenon DEF Decoded, IsSoundscape

(* What an object knows depends on what was configured and on nothing else *)
(* a step may change.                                                      *)
LEMMA SameTold ==
  ASSUME setup' = setup, NEW object, NEW def, NEW answers, NEW gets, NEW subs, NEW bytes,
         NEW told,
         IsTold(object, def, answers, gets, subs, bytes, told)
  PROVE  IsTold(object, def, answers, gets, subs, bytes, told)'
<1>1. \A data : Decoded(object, data)' = Decoded(object, data)
  BY SameDecoding
<1>2. \A data, read : Agrees(object, def, data, read)' <=> Agrees(object, def, data, read)
  BY <1>1, Zenon DEF Agrees
<1>3. Truthful(object, def, bytes)' = Truthful(object, def, bytes)
  BY <1>1, <1>2 DEF Truthful
<1> QED
  BY <1>2, <1>3, Zenon DEF IsTold

LEMMA SameHeld ==
  ASSUME setup' = setup, guid' = guid, NEW def,
         << def.ono, def.index >> \in DOMAIN held' <=> << def.ono, def.index >> \in DOMAIN held,
         << def.ono, def.index >> \in DOMAIN held =>
           held'[<< def.ono, def.index >>] = held[<< def.ono, def.index >>]
  PROVE  Held(def)' = Held(def)
BY Zenon DEF Held, IsSoundscape

LEMMA SameKnows ==
  ASSUME NEW object, NEW def, NEW r, NEW a, setup' = setup,
         \/ IsAsked(def, r, pendingGets', subscribed')
         \/ IsTold(object, def, a, pendingGets', subscribed', Held(def)', heard')
  PROVE  KnowsOf(object, def, r, a)'
BY SameTold, Zenon DEF KnowsOf

(* The sender says something more, which is this.                          *)
LEMMA MoreSaid ==
  ASSUME NEW frames \in SUBSET Seq(Int), NEW s, NEW m, Speaks(s, m, frames),
         NEW frame \in frames, NEW x, x = UnmarshalOcp1Message(frame)
  PROVE  Speaks(s \o frame, Append(m, x), frames) /\ x \in Messages(frames)
BY SaidMore, Zenon DEF Messages

-----------------------------------------------------------------------------
(* The objects of the device have the numbers they are addressed by.       *)

LEMMA LongIsBounded ==
  ASSUME NEW n \in Long
  PROVE  n \in Nat /\ n <= 4294967295
<1> DEFINE k == ((OctetSize * OctetSize) * (OctetSize * OctetSize)) - 1
<1>1. Long = 0 .. k
  BY Zenon DEF Long
<1>2. k = 4294967295
  BY SMT DEF OctetSize
<1>3. k \in Nat
  BY <1>2, SMT
<1> HIDE DEF k
<1>4. n \in Nat /\ n <= k
  BY <1>1, <1>3
<1> QED
  BY <1>2, <1>3, <1>4, SMT

(* An object number of a DS100 is put together from its fields.            *)
LEMMA NumberOfFields ==
  ASSUME NEW n \in Long, (n \div 268435456) % 16 = 2
  PROVE  GetONoTy2(2, (n \div 1048576) % 256, (n \div 4096) % 256, (n \div 128) % 32, n % 128) = n
<1>0. n \in Nat /\ n <= 4294967295
  BY LongIsBounded
<1>1. Field(0, Types, 2) = n \div 268435456
  BY <1>0, SMT DEF Field, Types
<1>2. Field(n \div 268435456, Records, (n \div 1048576) % 256) = n \div 1048576
  BY <1>0, SMT DEF Field, Records
<1>3. Field(n \div 1048576, Ty2Channels, (n \div 4096) % 256) = n \div 4096
  BY <1>0, SMT DEF Field, Ty2Channels
<1>4. Field(n \div 4096, Ty2Boxes, (n \div 128) % 32) = n \div 128
  BY <1>0, SMT DEF Field, Ty2Boxes
<1>5. Field(n \div 128, Ty2Objects, n % 128) = n
  BY <1>0, SMT DEF Field, Ty2Objects
<1> DEFINE a == n \div 268435456
           b == n \div 1048576
           c == n \div 4096
           d == n \div 128
           r == b % 256
           s == c % 256
           t == d % 32
           u == n % 128
<1>6. /\ Field(0, Types, 2) = a /\ Field(a, Records, r) = b /\ Field(b, Ty2Channels, s) = c
      /\ Field(c, Ty2Boxes, t) = d /\ Field(d, Ty2Objects, u) = n
  BY <1>1, <1>2, <1>3, <1>4, <1>5, SMT
<1> HIDE DEF a, b, c, d, r, s, t, u
<1>7. GetONoTy2(2, r, s, t, u) = n
  BY ONLY <1>6, Zenon DEF GetONoTy2
<1> QED
  BY <1>7, SMT DEF a, b, c, d, r, s, t, u

(* The definitions that a device has under a number have that number.      *)
LEMMA MembersHaveNumber ==
  ASSUME setup \in Setups, NEW ono \in Long, NEW def \in DeviceDefinitions(ono)
  PROVE  def.ono = ono
<1>1. CASE setup.kind = "plain"
  BY <1>1, SMT DEF DeviceDefinitions, IsSoundscape
<1>2. CASE setup.kind = "amp"
  BY <1>2, SMT DEF DeviceDefinitions, IsSoundscape
<1>3. CASE IsSoundscape
  <2> DEFINE r == (ono \div 1048576) % 256
             c == (ono \div 4096) % 256
             b == (ono \div 128) % 32
             o == ono % 128
  <2>1. /\ (ono \div 268435456) % 16 = 2
        /\ def \in {OcaObject(name, r, c) : name \in DS100Names(ono)}
    BY <1>3, SMT DEF DeviceDefinitions, IsSoundscape
  <2>2. PICK name \in DS100Names(ono) : def = OcaObject(name, r, c)
    BY <2>1, SMT
  <2>3. GetONoTy2(2, r, c, b, o) = ono
    BY <2>1, NumberOfFields, SMT
  <2>4. GroupOf(name).box = b /\ ObjectNumber[name] = o
    BY SMT DEF DS100Names
  <2> HIDE DEF r, c, b, o
  <2>5. def.ono = GetONoTy2(2, r, c, GroupOf(name).box, ObjectNumber[name])
    BY <2>2 DEF OcaObject, DS100Definition, Definition
  <2> QED
    BY ONLY <2>3, <2>4, <2>5, Zenon
<1> QED
  BY <1>1, <1>2, <1>3, SetupIsProper DEF IsSoundscape

-----------------------------------------------------------------------------
(* What a step leaves of the session.                                      *)

(* The parts of a session.                                                 *)
LEMMA SessionHas ==
  ASSUME NEW r, NEW a, Says(r, a), Session(r, a)
  PROVE  /\ Speaks(toDevice, r, Requests) /\ Speaks(toController, a, Frames)
         /\ r \in Seq(Messages(Requests)) /\ a \in Seq(Messages(Frames))
         /\ linked => state # "Disconnected"
         /\ ~ linked => /\ subscribed = {} /\ DOMAIN pendingGets = {}
                        /\ toDevice = << >> /\ toController = << >>
         /\ Numbered(r, a, nextHandle)
         /\ Greeting => Greets(r, a)
         /\ Serving => Serves(r, a)
BY SaidIsSeq, FramesAreSequences, Zenon DEF Says, Session

LEMMA SessionGoesOn ==
  ASSUME NEW r, NEW a, Speaks(toDevice', r, Requests), Speaks(toController', a, Frames),
         Session(r, a)'
  PROVE  SessionInv'
<1>1. Says(r, a)'
  BY Zenon DEF Says
<1> QED
  BY <1>1, Zenon DEF SessionInv

LEMMA SameModes ==
  ASSUME setup' = setup, guid' = guid, linked' = linked, deviceGuid' = deviceGuid
  PROVE  (Greeting' <=> Greeting) /\ (Serving' <=> Serving)
BY Zenon DEF Greeting, Serving, RevisionIsKnown, IsSoundscape

LEMMA SameTable ==
  ASSUME tracked' = tracked, NEW ono
  PROVE  TrackedAt(ono)' = TrackedAt(ono)
BY Zenon DEF TrackedAt

(* With nothing linked,                                                    *)
LEMMA Unlinked ==
  ASSUME ~ linked', subscribed' = {}, DOMAIN pendingGets' = {},
         toDevice' = << >>, toController' = << >>
  PROVE  SessionInv'
<1>1. ~ Greeting' /\ ~ Serving'
  BY Zenon DEF Greeting, Serving
<1>2. Len(<< >>) = 0 /\ 1 .. 0 = {}
  OBVIOUS
<1>3. \A n : Numbered(<< >>, << >>, n)
  BY <1>2, Zenon DEF Numbered
<1>4. Session(<< >>, << >>)'
  BY <1>1, <1>3, Zenon DEF Session
<1>5. Speaks(<< >>, << >>, Requests) /\ Speaks(<< >>, << >>, Frames)
  BY FramesAreSequences, SaidOnce, Zenon DEF IsSaying, Speaks
<1> QED
  BY <1>4, <1>5, SessionGoesOn, Zenon

(* with nothing changed but the state and what is known,                   *)
LEMMA StillUnlinked ==
  ASSUME SessionInv, ~ linked,
         UNCHANGED << linked, subscribed, pendingGets, toDevice, toController >>
  PROVE  SessionInv'
<1>1. PICK r, a : Says(r, a) /\ Session(r, a)
  BY Zenon DEF SessionInv
<1> QED
  BY <1>1, SessionHas, Unlinked

(* and with the bytes and all that the session speaks of unchanged.        *)
LEMMA SessionSame ==
  ASSUME SessionInv,
         setup' = setup, state' = state, linked' = linked, guid' = guid, deviceGuid' = deviceGuid,
         tracked' = tracked, pendingGets' = pendingGets, nextHandle' = nextHandle, heard' = heard,
         toDevice' = toDevice, toController' = toController, subscribed' = subscribed,
         held' = held
  PROVE  SessionInv'
<1>1. PICK r, a : Says(r, a) /\ Session(r, a)
  BY Zenon DEF SessionInv
<1>2. (Greeting' <=> Greeting) /\ (Serving' <=> Serving)
  BY SameModes
<1>3. ASSUME Greets(r, a) PROVE Greets(r, a)'
  BY <1>3, Zenon DEF Greets
<1>4. ASSUME Serves(r, a) PROVE Serves(r, a)'
  <2>1. \A def : Held(def)' = Held(def)
    BY SameHeld
  <2>2. \A ono : TrackedAt(ono)' = TrackedAt(ono)
    BY SameTable
  <2>3. ASSUME NEW i \in 1 .. Len(tracked), NEW object, object = tracked[i].object,
               NEW def, def = tracked[i].def
        PROVE  KnowsOf(object, def, r, a)'
    <3>1. KnowsOf(object, def, r, a)
      BY <1>4, <2>3, Zenon DEF Serves
    <3>2. \/ IsAsked(def, r, pendingGets', subscribed')
          \/ IsTold(object, def, a, pendingGets', subscribed', Held(def)', heard')
      BY <2>1, <3>1, Zenon DEF KnowsOf
    <3> QED
      BY <3>2, SameKnows
  <2> QED
    BY <1>4, <2>2, <2>3, Zenon DEF Serves
<1>5. Session(r, a)'
  BY <1>1, <1>2, <1>3, <1>4, Zenon DEF Session
<1> QED
  BY <1>1, <1>5, SessionHas, SessionGoesOn, Zenon

(* A step of either side, while the connection is up.                      *)
Stays ==
  /\ setup' = setup /\ guid' = guid /\ linked' = linked /\ linked
  /\ deviceGuid' = deviceGuid /\ tracked' = tracked /\ state' # "Disconnected"

(* The session goes on if each mode has what it needs.                     *)
LEMMA SessionStep ==
  ASSUME Stays, NEW r, NEW a,
         Speaks(toDevice', r, Requests), Speaks(toController', a, Frames),
         Numbered(r, a, nextHandle'), Greeting => Greets(r, a)', Serving => Serves(r, a)'
  PROVE  SessionInv'
<1>1. (Greeting' <=> Greeting) /\ (Serving' <=> Serving)
  BY SameModes, Zenon DEF Stays
<1>2. Session(r, a)'
  BY <1>1, Zenon DEF Session, Stays
<1> QED
  BY <1>2, SessionGoesOn, Zenon

LEMMA ServesStep ==
  ASSUME NEW r, NEW a, setup' = setup, tracked' = tracked,
         \A h \in DOMAIN pendingGets' :
           h \in DOMAIN pendingGets /\ pendingGets'[h] = pendingGets[h],
         \A h \in DOMAIN pendingGets : TrackedAt(pendingGets[h]) # {},
         \A k \in 1 .. Len(r) :
           r[k].paramCount = 0 =>
             \E i \in 1 .. Len(tracked) : Queries(r[k], tracked[i].def, pendingGets),
         \A i \in 1 .. Len(tracked) : \A object, def :
           object = tracked[i].object /\ def = tracked[i].def =>
             \/ IsAsked(def, r, pendingGets', subscribed')
             \/ IsTold(object, def, a, pendingGets', subscribed', Held(def)', heard')
  PROVE  Serves(r, a)'
<1>1. \A ono : TrackedAt(ono)' = TrackedAt(ono)
  BY SameTable
<1>2. \A h \in DOMAIN pendingGets' : TrackedAt(pendingGets[h])' # {}
  BY <1>1, Zenon
<1>3. \A msg, def : Queries(msg, def, pendingGets) => Queries(msg, def, pendingGets')
  BY Zenon DEF Queries
<1>4. ASSUME NEW i \in 1 .. Len(tracked), NEW object, object = tracked[i].object,
             NEW def, def = tracked[i].def
      PROVE  KnowsOf(object, def, r, a)'
  <2>1. \/ IsAsked(def, r, pendingGets', subscribed')
        \/ IsTold(object, def, a, pendingGets', subscribed', Held(def)', heard')
    BY <1>4, Zenon
  <2> QED
    BY <2>1, SameKnows
<1>5. \A h \in DOMAIN pendingGets' : TrackedAt(pendingGets[h]) # {}
  BY Zenon
<1>6. (\A h \in DOMAIN pendingGets : TrackedAt(pendingGets[h]) # {})'
  BY <1>1, <1>5, Zenon
<1> QED
  BY <1>3, <1>4, <1>6, Zenon DEF Serves

-----------------------------------------------------------------------------
(* What tells of an object.                                                *)

LEMMA ResponseHas ==
  ASSUME NEW handle, NEW status, NEW paramCount, NEW data, NEW x,
         x = ResponseMessage(handle, status, paramCount, data)
  PROVE  /\ x.type = Response /\ x.handle = handle /\ x.status = status
         /\ x.paramCount = paramCount /\ x.data = data /\ x.type # Notification
         /\ x.type # KeepAlive
BY MessageTypes DEF ResponseMessage

LEMMA NotifiedHas ==
  ASSUME NEW def, NEW data, NEW x, x = Notified(def, data)
  PROVE  x.type = Notification /\ x.ono = def.ono /\ x.data = data /\ x.type # Response
BY MessageTypes DEF Notified, NotificationMessage

LEMMA EmptyTellsNothing ==
  ASSUME NEW x, x.type = Response, x.paramCount = 0, NEW ono, NEW gets
  PROVE  x \notin Telling(ono, gets)
<1>1. Response # Notification
  BY MessageTypes
<1>2. ~ (0 > 0)
  OBVIOUS
<1> QED
  BY <1>1, <1>2, Zenon DEF Telling

LEMMA OthersTellNothing ==
  ASSUME NEW x, x.type # Response, NEW ono, x.type = Notification => x.ono # ono, NEW gets
  PROVE  x \notin Telling(ono, gets)
BY Zenon DEF Telling

(* The device has taken a request that is not about the value of an object.*)
LEMMA KnowsElse ==
  ASSUME NEW object, NEW def, NEW r \in Seq(Messages(Requests)), r # << >>,
         NEW a \in Seq(Messages(Frames)), NEW x \in Messages(Frames), NEW gets, NEW subs,
         NEW then, subs \subseteq then, NEW bytes, NEW told,
         x \notin Telling(def.ono, gets), r[1] \notin Asking(def, gets),
         r[1] \in Subscribing(def.ono) => def.ono \in then,
         \/ IsAsked(def, r, gets, subs)
         \/ IsTold(object, def, a, gets, subs, bytes, told)
  PROVE  \/ IsAsked(def, Tail(r), gets, then)
         \/ IsTold(object, def, Append(a, x), gets, then, bytes, told)
<1>1. CASE IsAsked(def, r, gets, subs)
  BY <1>1, AskedTaken, Zenon
<1>2. CASE IsTold(object, def, a, gets, subs, bytes, told)
  BY <1>2, ToldElse
<1> QED
  BY <1>1, <1>2

(* The GUID has a number of its own.                                       *)
LEMMA GuidIsProperty == IsProperty(GuidDefinition)
<1>1. "Fixed_GUID" \in ObjectNames
  BY GroupNames DEF ObjectNames, DS100Groups
<1> QED
  BY <1>1, 0 \in Int, OcaObjectIsProper, Zenon DEF GuidDefinition

LEMMA GuidIsNoManager == GuidDefinition.ono # SubscriptionManager
<1> DEFINE b == GroupOf("Fixed_GUID").box
           o == ObjectNumber["Fixed_GUID"]
<1>1. "Fixed_GUID" \in ObjectNames
  BY GroupNames DEF ObjectNames, DS100Groups
<1>2. b \in 0 .. Ty2Boxes - 1 /\ o \in 0 .. Ty2Objects - 1
  BY <1>1, GroupOfName, Boxes, Numbers, Zenon
<1>3. GuidDefinition.ono = GetONoTy2(2, 0, 0, b, o)
  BY DEF GuidDefinition, OcaObject, DS100Definition, Definition
<1> HIDE DEF b, o
<1>4. GetONoTy2(2, 0, 0, b, o) = ((((2 * 256) * 256) * 32) + b) * 128 + o
  BY <1>2, SMT DEF GetONoTy2, Field, Types, Records, Ty2Channels, Ty2Boxes, Ty2Objects
<1>5. ((((2 * 256) * 256) * 32) + b) * 128 + o # 4
  BY <1>2, SMT DEF Ty2Boxes, Ty2Objects
<1> QED
  BY <1>3, <1>4, <1>5, SMT DEF SubscriptionManager

-----------------------------------------------------------------------------
(* The steps of the device.                                                *)

DeviceStep ==
  /\ state' = state /\ linked' = linked /\ tracked' = tracked /\ deviceGuid' = deviceGuid
  /\ pendingGets' = pendingGets /\ nextHandle' = nextHandle
  /\ setup' = setup /\ guid' = guid /\ heard' = heard

LEMMA DeviceStays == DeviceTakes \/ DeviceReports \/ DeviceBeats => DeviceStep
<1>1. DeviceTakes => DeviceStep
  BY SMT DEF DeviceTakes, DeviceStep, controllerVars, appVars
<1>2. DeviceReports => DeviceStep
  BY SMT DEF DeviceReports, DeviceStep, controllerVars
<1>3. DeviceBeats => DeviceStep
  BY SMT DEF DeviceBeats, DeviceStep, controllerVars, appVars, deviceVars
<1> QED
  BY <1>1, <1>2, <1>3

(* It takes a request off.                                                 *)
LEMMA Takes ==
  ASSUME NEW r, NEW a, Says(r, a), Session(r, a),
         toDevice # << >>, toDevice' = AfterFirstFrame(toDevice)
  PROVE  /\ r # << >> /\ linked /\ 1 \in 1 .. Len(r)
         /\ UnmarshalOcp1Message(FirstFrame(toDevice)) = r[1]
         /\ Speaks(toDevice', Tail(r), Requests)
         /\ r[1] \in Messages(Requests) /\ IsRequest(r[1]) /\ r[1].handle \in Long \ {0}
         /\ \A k \in 1 .. Len(Tail(r)) : k + 1 \in 1 .. Len(r) /\ Tail(r)[k] = r[k + 1]
<1>1. /\ Speaks(toDevice, r, Requests) /\ r \in Seq(Messages(Requests))
      /\ ~ linked => toDevice = << >>
  BY SessionHas
<1>2. Requests \in SUBSET Frames
  BY RequestsAreFrames
<1>3. /\ r # << >> /\ UnmarshalOcp1Message(FirstFrame(toDevice)) = r[1]
      /\ Speaks(AfterFirstFrame(toDevice), Tail(r), Requests)
  BY <1>1, <1>2, SaidFirst
<1>4. /\ 1 \in 1 .. Len(r) /\ r[1] \in Messages(Requests)
      /\ \A k \in 1 .. Len(Tail(r)) : k + 1 \in 1 .. Len(r) /\ Tail(r)[k] = r[k + 1]
  BY <1>1, <1>3, TailOf
<1>5. IsRequest(r[1])
  BY <1>4, RequestsAre
<1>6. r[1].handle \in Long \ {0}
  BY <1>5, RequestIsSent, Zenon
<1> QED
  BY <1>1, <1>3, <1>4, <1>5, <1>6, Zenon

(* What the session needs once it has taken it.                            *)
LEMMA TakesOn ==
  ASSUME DeviceStep, NEW r, NEW a, Says(r, a), Session(r, a),
         toDevice # << >>, toDevice' = AfterFirstFrame(toDevice),
         NEW then, Speaks(toController', then, Frames), Numbered(Tail(r), then, nextHandle),
         Greeting => Greets(Tail(r), then)',
         Serving => \A i \in 1 .. Len(tracked) : \A object, def :
           object = tracked[i].object /\ def = tracked[i].def =>
             \/ IsAsked(def, Tail(r), pendingGets, subscribed')
             \/ IsTold(object, def, then, pendingGets, subscribed', Held(def)', heard)
  PROVE  SessionInv'
<1>1. /\ Speaks(toDevice', Tail(r), Requests) /\ linked
      /\ \A k \in 1 .. Len(Tail(r)) : k + 1 \in 1 .. Len(r) /\ Tail(r)[k] = r[k + 1]
  BY Takes
<1>2. linked => state # "Disconnected"
  BY SessionHas
<1>3. Stays
  BY <1>1, <1>2, Zenon DEF Stays, DeviceStep
<1>4. ASSUME Serving PROVE Serves(Tail(r), then)'
  <2>1. Serves(r, a)
    BY <1>4, SessionHas
  <2>2. \A h \in DOMAIN pendingGets : TrackedAt(pendingGets[h]) # {}
    BY <2>1, Zenon DEF Serves
  <2>3. \A k \in 1 .. Len(Tail(r)) :
          Tail(r)[k].paramCount = 0 =>
            \E i \in 1 .. Len(tracked) : Queries(Tail(r)[k], tracked[i].def, pendingGets)
    BY <1>1, <2>1, Zenon DEF Serves
  <2>4. /\ setup' = setup /\ tracked' = tracked /\ pendingGets' = pendingGets /\ heard' = heard
    BY Zenon DEF DeviceStep
  <2>5. \A i \in 1 .. Len(tracked) : \A object, def :
           object = tracked[i].object /\ def = tracked[i].def =>
             \/ IsAsked(def, Tail(r), pendingGets', subscribed')
             \/ IsTold(object, def, then, pendingGets', subscribed', Held(def)', heard')
    BY <1>4, <2>4, Zenon
  <2> QED
    BY <2>2, <2>3, <2>4, <2>5, ServesStep, Zenon
<1>5. nextHandle' = nextHandle
  BY Zenon DEF DeviceStep
<1> QED
  BY <1>1, <1>3, <1>4, <1>5, SessionStep, Zenon

(* and replies to it.                                                      *)
LEMMA RepliesWith ==
  ASSUME NEW r, NEW a, Says(r, a), Session(r, a),
         toDevice # << >>, toDevice' = AfterFirstFrame(toDevice),
         NEW status \in {0, 4, 5}, NEW paramCount \in {0, 1},
         NEW data \in Seq(Int), Len(data) <= 3 * (LongestText + 2),
         toController' = toController \o Respond(r[1], status, paramCount, data),
         NEW x, x = ResponseMessage(r[1].handle, status, paramCount, data)
  PROVE  /\ Speaks(toController', Append(a, x), Frames) /\ x \in Messages(Frames)
         /\ Numbered(Tail(r), Append(a, x), nextHandle)
<1>1. /\ r # << >> /\ r[1] \in Messages(Requests) /\ r[1].handle \in Long \ {0}
  BY Takes
<1>2. status \in Octet /\ paramCount \in Octet
  BY SmallNumbers
<1>3. /\ Respond(r[1], status, paramCount, data) \in Frames
      /\ UnmarshalOcp1Message(Respond(r[1], status, paramCount, data)) = x
  BY <1>1, <1>2, ResponseSays
<1>4. /\ Speaks(toController, a, Frames) /\ Numbered(r, a, nextHandle)
      /\ r \in Seq(Messages(Requests)) /\ a \in Seq(Messages(Frames))
  BY SessionHas
<1>5. Speaks(toController', Append(a, x), Frames) /\ x \in Messages(Frames)
  BY <1>3, <1>4, FramesAreSequences, MoreSaid
<1>6. x.type = Response /\ x.handle = r[1].handle
  BY ResponseHas
<1> QED
  BY <1>1, <1>4, <1>5, <1>6, NumberedAnswered

(* A subscription.                                                         *)
LEMMA SubscribeStep ==
  ASSUME DeviceStep, NEW r, NEW a, Says(r, a), Session(r, a), DeviceServes,
         toDevice # << >>, toDevice' = AfterFirstFrame(toDevice), DeviceSubscribes(r[1])
  PROVE  SessionInv'
<1> DEFINE emitter == U32At(r[1].data, 0)
           exists  == DeviceDefinitions(emitter) # {}
           status  == IF exists THEN OK ELSE BadONo
           x       == ResponseMessage(r[1].handle, status, 0, << >>)
<1>1. /\ r[1].ono = SubscriptionManager /\ held' = held
      /\ subscribed' = IF exists THEN subscribed \cup {emitter} ELSE subscribed
      /\ toController' = toController \o Respond(r[1], status, 0, << >>)
  BY Zenon DEF DeviceSubscribes
<1>2. status \in {0, 4, 5} /\ 0 \in {0, 1} /\ << >> \in Seq(Int)
      /\ Len(<< >>) <= 3 * (LongestText + 2)
  BY OneDataFits DEF OK, BadONo
<1>3. /\ Speaks(toController', Append(a, x), Frames) /\ x \in Messages(Frames)
      /\ Numbered(Tail(r), Append(a, x), nextHandle)
  <2> HIDE DEF status
  <2> QED
    BY <1>1, <1>2, RepliesWith
<1>4. x.type = Response /\ x.paramCount = 0
  BY ResponseHas
<1>5. /\ r # << >> /\ 1 \in 1 .. Len(r) /\ r \in Seq(Messages(Requests))
      /\ a \in Seq(Messages(Frames))
      /\ Greeting => Greets(r, a)
      /\ Serving => Serves(r, a)
  <2>1. Greeting => Greets(r, a)
    BY SessionHas
  <2>2. Serving => Serves(r, a)
    BY SessionHas
  <2> QED
    BY <2>1, <2>2, Takes, SessionHas, Zenon
<1> HIDE DEF x, status
<1>6. ~ Greeting
  <2>1. ASSUME Greets(r, a) PROVE r[1].ono = GuidDefinition.ono
    BY <1>5, <2>1, Zenon DEF Greets, Asking
  <2> QED
    BY <1>1, <1>5, <2>1, GuidIsNoManager, Zenon
<1>7. ASSUME Serving, NEW i \in 1 .. Len(tracked), NEW object, object = tracked[i].object,
             NEW def, def = tracked[i].def
      PROVE  \/ IsAsked(def, Tail(r), pendingGets, subscribed')
             \/ IsTold(object, def, Append(a, x), pendingGets, subscribed', Held(def)', heard)
  <2>1. Held(def)' = Held(def)
    BY <1>1, SameHeld, Zenon DEF DeviceStep
  <2>2. /\ def.ono # SubscriptionManager /\ DeviceDefinitions(def.ono) = {def}
    BY <1>7, Zenon DEF DeviceServes, Willing
  <2>3. \/ IsAsked(def, r, pendingGets, subscribed)
        \/ IsTold(object, def, a, pendingGets, subscribed, Held(def), heard)
    BY <1>5, <1>7, Zenon DEF Serves, KnowsOf
  <2>4. x \notin Telling(def.ono, pendingGets)
    BY <1>4, EmptyTellsNothing
  <2>5. r[1] \notin Asking(def, pendingGets)
    BY <1>1, <2>2, Zenon DEF Asking
  <2>6. subscribed \subseteq subscribed'
    BY <1>1
  <2>7. r[1] \in Subscribing(def.ono) => def.ono \in subscribed'
    <3>1. ASSUME r[1] \in Subscribing(def.ono) PROVE emitter = def.ono
      BY <3>1, Zenon DEF Subscribing
    <3> HIDE DEF emitter
    <3>2. DeviceDefinitions(def.ono) # {}
      BY <2>2, Zenon
    <3> QED
      BY <1>1, <3>1, <3>2, Zenon
  <2> HIDE DEF exists, emitter
  <2> QED
    BY <1>3, <1>5, <2>1, <2>3, <2>4, <2>5, <2>6, <2>7, KnowsElse, Zenon
<1>8. Serving => \A i \in 1 .. Len(tracked) : \A object, def :
        object = tracked[i].object /\ def = tracked[i].def =>
          \/ IsAsked(def, Tail(r), pendingGets, subscribed')
          \/ IsTold(object, def, Append(a, x), pendingGets, subscribed', Held(def)', heard)
  BY <1>7
<1> QED
  BY <1>3, <1>6, <1>8, TakesOn

(* What the device answers agrees with what it holds.                      *)
Answering ==
  \A i \in 1 .. Len(tracked) : \A object, def :
    object = tracked[i].object /\ def = tracked[i].def =>
      Agrees(object, def, Held(def), Decoded(object, Answer(def)))

LEMMA Tells ==
  ASSUME NEW x \in Messages(Frames), x.type = Response, x.status = OK, x.paramCount = 1,
         NEW gets, x.handle \in DOMAIN gets, NEW ono, gets[x.handle] = ono
  PROVE  x \in Telling(ono, gets)
<1>1. 1 > 0
  OBVIOUS
<1> QED
  BY <1>1, Zenon DEF Telling

LEMMA GuidIsText == GuidDefinition.type = "STRING"
<1>1. "Fixed_GUID" \in DOMAIN FixedObjects.objects /\ FixedObjects \in DS100Groups
  BY GroupNames DEF DS100Groups
<1>2. "Fixed_GUID" \in ObjectNames
  BY <1>1, Zenon DEF ObjectNames
<1>3. GroupOf("Fixed_GUID") = FixedObjects
  BY <1>1, <1>2, GroupOfName, GroupsAreDisjoint, Zenon
<1>4. GuidDefinition.type = FixedObjects.objects["Fixed_GUID"][1]
  BY <1>3 DEF GuidDefinition, OcaObject, DS100Definition, Definition
<1> QED
  BY <1>4 DEF FixedObjects, TextObject

(* An answer to the query of the GUID.                                     *)
LEMMA GreetsOn ==
  ASSUME DeviceStep, subscribed' = subscribed, NEW r, NEW a \in Seq(Messages(Frames)),
         Greets(r, a),
         NEW x \in Messages(Frames),
         \/ x.type = KeepAlive
         \/ /\ x.type = Response
            /\ x \in Telling(GuidDefinition.ono, pendingGets)
            /\ x.data = DataFromString(guid),
         NEW t, \A k \in 1 .. Len(t) : \E l \in 1 .. Len(r) : t[k] = r[l]
  PROVE  Greets(t, Append(a, x))'
<1> DEFINE Is(m) == \/ m.type = KeepAlive
                    \/ /\ m.type = Response
                       /\ m \in Telling(GuidDefinition.ono, pendingGets)
                       /\ m.data = DataFromString(guid)
<1>1. \A k \in 1 .. Len(a) : Is(a[k])
  BY Zenon DEF Greets
<1>2. Is(x)
  OBVIOUS
<1> HIDE DEF Is
<1>3. \A k \in 1 .. Len(Append(a, x)) : Is(Append(a, x)[k])
  <2> DEFINE all == Append(a, x)
  <2>1. /\ \A k \in 1 .. Len(all) : k \in 1 .. Len(a) \/ k = Len(a) + 1
        /\ all[Len(a) + 1] = x /\ \A k \in 1 .. Len(a) : all[k] = a[k]
    BY AppendOf
  <2> HIDE DEF all
  <2>2. \A k \in 1 .. Len(all) : Is(all[k])
    BY <1>1, <1>2, <2>1, Zenon
  <2> QED
    BY <2>2 DEF all
<1>4. \A k \in 1 .. Len(t) : t[k] \in Asking(GuidDefinition, pendingGets)
  BY Zenon DEF Greets
<1> QED
  BY <1>3, <1>4, Zenon DEF Greets, DeviceStep, Is

(* A query.                                                                *)
LEMMA AnswerStep ==
  ASSUME setup \in Setups, guid \in setup.guids, HeldOK,
         DeviceStep, NEW r, NEW a, Says(r, a), Session(r, a), DeviceServes, Serving => Answering,
         toDevice # << >>, toDevice' = AfterFirstFrame(toDevice), DeviceAnswers(r[1])
  PROVE  SessionInv'
<1> DEFINE asks == {def \in DeviceDefinitions(r[1].ono) :
                      def.getter = r[1].index /\ def.level = r[1].defLevel}
           d == CHOOSE def \in asks : TRUE
           status == IF asks = {} THEN BadONo ELSE OK
           count == IF asks = {} THEN 0 ELSE 1
           data == IF asks = {} THEN << >> ELSE Answer(d)
<1>0. PICK x : x = ResponseMessage(r[1].handle, status, count, data)
  OBVIOUS
<1>1. /\ r[1].ono # SubscriptionManager /\ r[1].paramCount = 0
      /\ held' = held /\ subscribed' = subscribed
      /\ toController' = toController \o Respond(r[1], status, count, data)
  BY Zenon DEF DeviceAnswers
<1>2. /\ r # << >> /\ 1 \in 1 .. Len(r) /\ r \in Seq(Messages(Requests))
      /\ a \in Seq(Messages(Frames)) /\ IsRequest(r[1]) /\ r[1] \in Messages(Requests)
      /\ \A k \in 1 .. Len(Tail(r)) : k + 1 \in 1 .. Len(r) /\ Tail(r)[k] = r[k + 1]
      /\ Greeting => Greets(r, a)
      /\ Serving => Serves(r, a)
  <2>1. Greeting => Greets(r, a)
    BY SessionHas
  <2>2. Serving => Serves(r, a)
    BY SessionHas
  <2> QED
    BY <2>1, <2>2, Takes, SessionHas, Zenon
<1>3. asks # {} => d \in asks
  BY Zenon
<1>4. data \in Seq(Int) /\ Len(data) <= 3 * (LongestText + 2)
  <2>1. CASE asks = {}
    BY <2>1, OneDataFits
  <2>2. CASE asks # {}
    <3>1. d \in DeviceDefinitions(r[1].ono)
      BY <1>3, <2>2
    <3>2. r[1].ono \in Int
      <4>1. r[1].ono \in Long
        BY <1>2, RequestIsSent, Zenon
      <4> QED
        <5>1. \A n \in Long : n \in Int
          BY NumbersOfFields
        <5> QED
          BY <4>1, <5>1, Zenon
    <3> HIDE DEF d
    <3>3. IsHeld(d)
      BY <3>1, <3>2, DeviceHolds, Zenon
    <3>4. Answer(d) \in Seq(Int) /\ Len(Answer(d)) <= 3 * (LongestText + 2)
      BY <3>3, AnswerFits
    <3> HIDE DEF asks
    <3> QED
      BY <2>2, <3>4
  <2> QED
    BY <2>1, <2>2
<1>5. status \in {0, 4, 5} /\ count \in {0, 1}
  BY DEF OK, BadONo
<1> HIDE DEF d, data
<1>6. /\ Speaks(toController', Append(a, x), Frames) /\ x \in Messages(Frames)
      /\ Numbered(Tail(r), Append(a, x), nextHandle)
  <2> HIDE DEF status, count
  <2> QED
    BY <1>0, <1>1, <1>4, <1>5, RepliesWith
<1>7. /\ x.type = Response /\ x.handle = r[1].handle /\ x.status = status
      /\ x.paramCount = count /\ x.data = data
  BY <1>0, ResponseHas
(* One who asks is answered.                                               *)
<1>8. ASSUME NEW def, DeviceDefinitions(def.ono) = {def}, r[1].ono = def.ono,
             r[1].defLevel = def.level, r[1].index = def.getter
      PROVE  x.status = OK /\ x.paramCount = 1 /\ x.data = Answer(def)
  <2>1. asks # {} /\ d = def
    BY <1>3, <1>8
  <2> HIDE DEF asks
  <2> QED
    BY <1>7, <2>1 DEF data
<1>9. ASSUME Greeting PROVE Greets(Tail(r), Append(a, x))'
  <2>1. /\ r[1].ono = GuidDefinition.ono /\ r[1].defLevel = GuidDefinition.level
        /\ r[1].index = GuidDefinition.getter
        /\ r[1].handle \in DOMAIN pendingGets
        /\ pendingGets[r[1].handle] = GuidDefinition.ono
    BY <1>2, <1>9, Zenon DEF Greets, Asking
  <2>2. /\ DeviceDefinitions(GuidDefinition.ono) = {GuidDefinition}
        /\ Held(GuidDefinition) = DataFromString(guid)
    BY <1>9, Zenon DEF DeviceServes, Greeting
  <2>3. Answer(GuidDefinition) = Held(GuidDefinition)
    <3>1. GuidDefinition.type = "STRING"
      BY GuidIsText
    <3> QED
      BY <3>1 DEF Answer
  <2>4. /\ x.status = OK /\ x.paramCount = 1 /\ x.data = DataFromString(guid)
    BY <1>8, <2>1, <2>2, <2>3, Zenon
  <2>5. x \in Telling(GuidDefinition.ono, pendingGets)
    BY <1>6, <1>7, <2>1, <2>4, Tells
  <2>6. \A k \in 1 .. Len(Tail(r)) : \E l \in 1 .. Len(r) : Tail(r)[k] = r[l]
    BY <1>2, Zenon
  <2>7. \/ x.type = KeepAlive
        \/ /\ x.type = Response
           /\ x \in Telling(GuidDefinition.ono, pendingGets)
           /\ x.data = DataFromString(guid)
    BY <1>7, <2>4, <2>5, Zenon
  <2>8. Greets(r, a)
    BY <1>2, <1>9
  <2>9. subscribed' = subscribed /\ a \in Seq(Messages(Frames)) /\ x \in Messages(Frames)
    BY <1>1, <1>2, <1>6
  <2>a. PICK t : t = Tail(r)
    OBVIOUS
  <2>10. \A k \in 1 .. Len(t) : \E l \in 1 .. Len(r) : t[k] = r[l]
    BY <2>6, <2>a
  <2>11. Greets(t, Append(a, x))'
    BY <2>7, <2>8, <2>9, <2>10, GreetsOn, Zenon
  <2> QED
    BY <2>11, <2>a
<1>10. ASSUME Serving, NEW i \in 1 .. Len(tracked), NEW object, object = tracked[i].object,
              NEW def, def = tracked[i].def
       PROVE  \/ IsAsked(def, Tail(r), pendingGets, subscribed')
              \/ IsTold(object, def, Append(a, x), pendingGets, subscribed', Held(def)', heard)
  <2>1. Held(def)' = Held(def)
    BY <1>1, SameHeld, Zenon DEF DeviceStep
  <2>2. DeviceDefinitions(def.ono) = {def}
    BY <1>10, Zenon DEF DeviceServes, Willing
  <2>3. \/ IsAsked(def, r, pendingGets, subscribed)
        \/ IsTold(object, def, a, pendingGets, subscribed, Held(def), heard)
    BY <1>2, <1>10, Zenon DEF Serves, KnowsOf
  <2>4. Agrees(object, def, Held(def), Decoded(object, Answer(def)))
    BY <1>10, Zenon DEF Answering
  <2>5. r[1] \notin Subscribing(def.ono)
    BY <1>1, Zenon DEF Subscribing
  <2>6. ASSUME x \in Telling(def.ono, pendingGets), def.ono \in subscribed
        PROVE  IsTold(object, def, Append(a, x), pendingGets, subscribed, Held(def), heard)
    <3>1. r[1].handle \in DOMAIN pendingGets /\ pendingGets[r[1].handle] = def.ono
      <4>1. x.type # Notification
        BY <1>7, MessageTypes
      <4> QED
        BY <1>7, <2>6, <4>1, Zenon DEF Telling
    <3>2. PICK j \in 1 .. Len(tracked) : Queries(r[1], tracked[j].def, pendingGets)
      BY <1>1, <1>2, <1>10, Zenon DEF Serves
    <3>3. tracked[j].def.ono = def.ono
      BY <3>1, <3>2, Zenon DEF Queries
    <3>4. j = i
      BY <1>10, <3>3, Zenon DEF DeviceServes, Distinct
    <3>5. r[1].ono = def.ono /\ r[1].defLevel = def.level /\ r[1].index = def.getter
      BY <1>10, <3>2, <3>4, Zenon DEF Queries
    <3>6. x.data = Answer(def)
      BY <1>8, <2>2, <3>5, Zenon
    <3>7. Agrees(object, def, Held(def), Decoded(object, x.data))
      BY <2>4, <3>6, Zenon
    <3> QED
      BY <1>2, <1>6, <2>6, <3>7, ToldAnew
  <2>7. CASE IsTold(object, def, a, pendingGets, subscribed, Held(def), heard)
    <3>1. def.ono \in subscribed
      BY <2>7, Zenon DEF IsTold
    <3>2. x \notin Telling(def.ono, pendingGets) =>
            IsTold(object, def, Append(a, x), pendingGets, subscribed, Held(def), heard)
      BY <1>2, <1>6, <2>7, ToldElse
    <3> QED
      BY <1>1, <2>1, <2>6, <3>1, <3>2, Zenon
  <2>8. CASE IsAsked(def, r, pendingGets, subscribed)
    <3>1. \/ r[1] \in Asking(def, pendingGets) /\ def.ono \in subscribed
          \/ IsAsked(def, Tail(r), pendingGets, subscribed)
      BY <1>2, <2>5, <2>8, AskedTaken
    <3>2. ASSUME r[1] \in Asking(def, pendingGets), def.ono \in subscribed
          PROVE  x \in Telling(def.ono, pendingGets)
      <4>1. /\ r[1].ono = def.ono /\ r[1].defLevel = def.level /\ r[1].index = def.getter
            /\ r[1].handle \in DOMAIN pendingGets /\ pendingGets[r[1].handle] = def.ono
        BY <3>2, Zenon DEF Asking
      <4>2. x.status = OK /\ x.paramCount = 1
        BY <1>8, <2>2, <4>1, Zenon
      <4> QED
        BY <1>6, <1>7, <4>1, <4>2, Tells
    <3> QED
      BY <1>1, <2>1, <2>6, <3>1, <3>2, Zenon
  <2> QED
    BY <2>3, <2>7, <2>8
<1>11. Serving => \A i \in 1 .. Len(tracked) : \A object, def :
         object = tracked[i].object /\ def = tracked[i].def =>
           \/ IsAsked(def, Tail(r), pendingGets, subscribed')
           \/ IsTold(object, def, Append(a, x), pendingGets, subscribed', Held(def)', heard)
  BY <1>10
<1> HIDE DEF asks, status, count
<1> QED
  BY <1>6, <1>9, <1>11, TakesOn, Zenon

(* What is held of an object, where a property has got other bytes.        *)
LEMMA HeldNow ==
  ASSUME setup' = setup, guid' = guid, NEW d, NEW data,
         held' = With(held, << d.ono, d.index >>, data)
  PROVE  /\ Held(d)' = data
         /\ \A def : def.ono # d.ono => Held(def)' = Held(def)
<1>1. /\ DOMAIN held' = DOMAIN held \cup {<< d.ono, d.index >>}
      /\ held'[<< d.ono, d.index >>] = data
      /\ \A x \in DOMAIN held : x # << d.ono, d.index >> => held'[x] = held[x]
  BY DEF With
<1>2. Held(d)' = data
  <2>1. << d.ono, d.index >> \in DOMAIN held'
    BY <1>1
  <2> QED
    BY <1>1, <2>1, Zenon DEF Held
<1>3. ASSUME NEW def, def.ono # d.ono PROVE Held(def)' = Held(def)
  <2>1. << def.ono, def.index >> # << d.ono, d.index >>
    BY <1>3
  <2>2. /\ << def.ono, def.index >> \in DOMAIN held' <=> << def.ono, def.index >> \in DOMAIN held
        /\ << def.ono, def.index >> \in DOMAIN held =>
             held'[<< def.ono, def.index >>] = held[<< def.ono, def.index >>]
    BY <1>1, <2>1, Zenon
  <2> QED
    BY <2>2, SameHeld
<1> QED
  BY <1>2, <1>3

(* What is held of an object that is tracked can be read.                  *)
LEMMA HeldIsRead ==
  ASSUME DeviceServes', Serving', setup' = setup, tracked' = tracked,
         NEW i \in 1 .. Len(tracked), NEW object, object = tracked[i].object,
         NEW def, def = tracked[i].def
  PROVE  Agrees(object, def, Held(def)', Decoded(object, Held(def)'))
<1>1. Willing(object, def)'
  BY Zenon DEF DeviceServes
<1>2. Decoded(object, Held(def))'.ok
  BY <1>1, Zenon DEF Willing
<1>3. Decoded(object, Held(def)').ok
  BY <1>2, Zenon DEF Decoded, IsSoundscape
<1> QED
  BY <1>3, Zenon DEF Agrees

(* A set is answered and told of, in either order.                         *)
LEMMA KnowsNow ==
  ASSUME NEW object, NEW def, NEW r \in Seq(Messages(Requests)), r # << >>,
         NEW a \in Seq(Messages(Frames)), NEW x \in Messages(Frames), NEW y \in Messages(Frames),
         NEW gets, NEW subs, NEW bytes, NEW now, NEW told,
         x \notin Telling(def.ono, gets), r[1] \notin Asking(def, gets),
         r[1] \notin Subscribing(def.ono),
         \/ y \notin Telling(def.ono, gets) /\ now = bytes
         \/ y \in Telling(def.ono, gets) /\ Agrees(object, def, now, Decoded(object, y.data)),
         \/ IsAsked(def, r, gets, subs)
         \/ IsTold(object, def, a, gets, subs, bytes, told),
         NEW all \in {Append(Append(a, x), y), Append(Append(a, y), x)}
  PROVE  \/ IsAsked(def, Tail(r), gets, subs)
         \/ IsTold(object, def, all, gets, subs, now, told)
<1>1. CASE IsAsked(def, r, gets, subs)
  BY <1>1, AskedTaken, Zenon
<1>2. CASE IsTold(object, def, a, gets, subs, bytes, told)
  <2>1. def.ono \in subs
    BY <1>2, Zenon DEF IsTold
  <2>2. Append(a, x) \in Seq(Messages(Frames)) /\ Append(a, y) \in Seq(Messages(Frames))
    BY AppendOf
  <2>3. CASE y \notin Telling(def.ono, gets) /\ now = bytes
    <3>1. IsTold(object, def, Append(a, x), gets, subs, bytes, told)
      BY <1>2, ToldElse
    <3>2. IsTold(object, def, Append(Append(a, x), y), gets, subs, bytes, told)
      BY <2>2, <2>3, <3>1, ToldElse
    <3>3. IsTold(object, def, Append(a, y), gets, subs, bytes, told)
      BY <1>2, <2>3, ToldElse
    <3>4. IsTold(object, def, Append(Append(a, y), x), gets, subs, bytes, told)
      BY <2>2, <3>3, ToldElse
    <3> QED
      BY <2>3, <3>2, <3>4
  <2>4. CASE y \in Telling(def.ono, gets) /\ Agrees(object, def, now, Decoded(object, y.data))
    <3>1. IsTold(object, def, Append(Append(a, x), y), gets, subs, now, told)
      BY <2>1, <2>2, <2>4, ToldAnew
    <3>2. IsTold(object, def, Append(a, y), gets, subs, now, told)
      BY <2>1, <2>4, ToldAnew
    <3>3. IsTold(object, def, Append(Append(a, y), x), gets, subs, now, told)
      BY <2>2, <3>2, ToldElse
    <3> QED
      BY <3>1, <3>3
  <2> QED
    BY <2>3, <2>4
<1> QED
  BY <1>1, <1>2

(* The news of an object tells of it.                                      *)
LEMMA TellsOf ==
  ASSUME NEW x \in Messages(Frames), x.type = Notification, NEW ono, x.ono = ono, NEW gets
  PROVE  x \in Telling(ono, gets)
BY Zenon DEF Telling

(* The device tells what it holds now, if it is subscribed to.             *)
LEMMA NotifiesWith ==
  ASSUME setup \in Setups, NEW ono \in Long, NEW d \in DeviceDefinitions(ono),
         NEW data, IsData(data), NEW s, NEW a, Speaks(s, a, Frames)
  PROVE  /\ d.ono = ono
         /\ d.ono \notin subscribed => s \o Notify(d, data) = s
         /\ d.ono \in subscribed =>
              /\ Speaks(s \o Notify(d, data), Append(a, Notified(d, data)), Frames)
              /\ Notified(d, data) \in Messages(Frames)
<1>1. d.ono = ono
  BY MembersHaveNumber
<1>2. ono \in Int
  BY NumbersOfFields
<1>3. IsProperty(d)
  BY <1>2, DeviceHolds, Zenon DEF IsHeld
<1>4. s \in Seq(Int)
  BY FramesAreSequences, SaidIsSeq
<1>5. CASE d.ono \notin subscribed
  <2>1. Notify(d, data) = << >>
    BY <1>5, Zenon DEF Notify
  <2> QED
    BY <1>1, <1>4, <1>5, <2>1, EmptyConcat
<1>6. CASE d.ono \in subscribed
  <2>1. Notify(d, data) =
          GetSerializedData(NotificationMessage(d.ono, d.level, d.index, 1, data))
    BY <1>6, Zenon DEF Notify
  <2>2. /\ Notify(d, data) \in Frames
        /\ UnmarshalOcp1Message(Notify(d, data)) = Notified(d, data)
    BY <1>3, <2>1, NotifySays
  <2>3. /\ Speaks(s \o Notify(d, data), Append(a, Notified(d, data)), Frames)
        /\ Notified(d, data) \in Messages(Frames)
    BY <2>2, FramesAreSequences, MoreSaid
  <2> QED
    BY <1>1, <1>6, <2>3
<1> QED
  BY <1>5, <1>6

(* The messages of a set that is taken: a response, and the news of it for *)
(* those who are subscribed, in either order.                              *)
LEMMA SetReplies ==
  ASSUME setup \in Setups, NEW r, NEW a, Says(r, a), Session(r, a),
         toDevice # << >>, toDevice' = AfterFirstFrame(toDevice),
         NEW d \in DeviceDefinitions(r[1].ono), d.ono \in subscribed, IsData(r[1].data),
         NEW x, x = ResponseMessage(r[1].handle, OK, 0, << >>),
         NEW y, y = Notified(d, r[1].data),
         \/ toController' = (toController \o Respond(r[1], OK, 0, << >>)) \o Notify(d, r[1].data)
         \/ toController' = (toController \o Notify(d, r[1].data)) \o Respond(r[1], OK, 0, << >>)
  PROVE  /\ x \in Messages(Frames) /\ y \in Messages(Frames)
         /\ \E all \in {Append(Append(a, x), y), Append(Append(a, y), x)} :
              Speaks(toController', all, Frames) /\ Numbered(Tail(r), all, nextHandle)
<1>1. /\ r # << >> /\ IsRequest(r[1]) /\ r[1].handle \in Long \ {0}
  BY Takes
<1>a. r[1].ono \in Long
  BY <1>1, RequestIsSent, Zenon
<1>2. /\ Speaks(toController, a, Frames) /\ Numbered(r, a, nextHandle)
      /\ r \in Seq(Messages(Requests)) /\ a \in Seq(Messages(Frames))
  BY SessionHas
<1> DEFINE frame == Respond(r[1], OK, 0, << >>)
           news == Notify(d, r[1].data)
<1>3. frame \in Frames /\ UnmarshalOcp1Message(frame) = x
  <2>1. /\ OK \in Octet /\ 0 \in Octet /\ << >> \in Seq(Int)
        /\ Len(<< >>) <= 3 * (LongestText + 2)
    BY SmallNumbers, OneDataFits DEF OK
  <2> QED
    BY <1>1, <2>1, ResponseSays
<1> HIDE DEF frame
<1>4. x.type = Response /\ x.handle = r[1].handle
  BY ResponseHas
<1>5. y.type # Response
  BY NotifiedHas
<1>6. \A s, m : Speaks(s, m, Frames) =>
        Speaks(s \o news, Append(m, y), Frames) /\ y \in Messages(Frames)
  BY <1>a, NotifiesWith, Zenon
<1> HIDE DEF news
<1>7. \A s, m : Speaks(s, m, Frames) =>
        Speaks(s \o frame, Append(m, x), Frames) /\ x \in Messages(Frames)
  BY <1>3, FramesAreSequences, MoreSaid, Zenon
<1>8. x \in Messages(Frames) /\ y \in Messages(Frames)
  BY <1>2, <1>6, <1>7, Zenon
<1>9. Append(a, x) \in Seq(Messages(Frames)) /\ Append(a, y) \in Seq(Messages(Frames))
  BY <1>2, <1>8, AppendOf
<1>10. Numbered(Tail(r), Append(Append(a, x), y), nextHandle)
  <2>1. Numbered(Tail(r), Append(a, x), nextHandle)
    BY <1>1, <1>2, <1>4, <1>8, NumberedAnswered
  <2> QED
    BY <1>5, <1>8, <1>9, <2>1, NumberedSaid
<1>11. Numbered(Tail(r), Append(Append(a, y), x), nextHandle)
  <2>1. Numbered(r, Append(a, y), nextHandle)
    BY <1>2, <1>5, <1>8, NumberedSaid
  <2> QED
    BY <1>1, <1>2, <1>4, <1>8, <1>9, <2>1, NumberedAnswered
<1>12. CASE toController' = (toController \o frame) \o news
  BY <1>2, <1>6, <1>7, <1>8, <1>10, <1>12, Zenon
<1>13. CASE toController' = (toController \o news) \o frame
  BY <1>2, <1>6, <1>7, <1>8, <1>11, <1>13, Zenon
<1> QED
  BY <1>12, <1>13, Zenon DEF frame, news

(* A set that the device refuses, or whose object nobody has subscribed to *)
(* is only answered.                                                       *)
LEMMA SetQuietly ==
  ASSUME DeviceStep, NEW r, NEW a, Says(r, a), Session(r, a),
         toDevice # << >>, toDevice' = AfterFirstFrame(toDevice),
         r[1].ono # SubscriptionManager, r[1].paramCount # 0, subscribed' = subscribed,
         NEW status \in {0, 4, 5},
         toController' = toController \o Respond(r[1], status, 0, << >>),
         Serving => \A i \in 1 .. Len(tracked) : \A def : def = tracked[i].def =>
           Held(def)' = Held(def) \/ def.ono \notin subscribed
  PROVE  SessionInv'
<1>0. PICK x : x = ResponseMessage(r[1].handle, status, 0, << >>)
  OBVIOUS
<1>1. << >> \in Seq(Int) /\ Len(<< >>) <= 3 * (LongestText + 2) /\ 0 \in {0, 1}
  BY OneDataFits
<1>2. /\ Speaks(toController', Append(a, x), Frames) /\ x \in Messages(Frames)
      /\ Numbered(Tail(r), Append(a, x), nextHandle)
  BY <1>0, <1>1, RepliesWith
<1>3. x.type = Response /\ x.paramCount = 0
  BY <1>0, ResponseHas
<1>4. /\ r # << >> /\ 1 \in 1 .. Len(r) /\ r \in Seq(Messages(Requests))
      /\ a \in Seq(Messages(Frames))
      /\ Greeting => Greets(r, a)
      /\ Serving => Serves(r, a)
  <2>1. Greeting => Greets(r, a)
    BY SessionHas
  <2>2. Serving => Serves(r, a)
    BY SessionHas
  <2> QED
    BY <2>1, <2>2, Takes, SessionHas, Zenon
<1>5. ~ Greeting
  <2>1. ASSUME Greets(r, a) PROVE r[1].paramCount = 0
    BY <1>4, <2>1, Zenon DEF Greets, Asking
  <2> QED
    BY <1>4, <2>1, Zenon
<1>6. ASSUME Serving, NEW i \in 1 .. Len(tracked), NEW object, object = tracked[i].object,
             NEW def, def = tracked[i].def
      PROVE  \/ IsAsked(def, Tail(r), pendingGets, subscribed')
             \/ IsTold(object, def, Append(a, x), pendingGets, subscribed', Held(def)', heard)
  <2>1. \/ IsAsked(def, r, pendingGets, subscribed)
        \/ IsTold(object, def, a, pendingGets, subscribed, Held(def), heard)
    BY <1>4, <1>6, Zenon DEF Serves, KnowsOf
  <2>2. x \notin Telling(def.ono, pendingGets)
    BY <1>3, EmptyTellsNothing
  <2>3. r[1] \notin Asking(def, pendingGets) /\ r[1] \notin Subscribing(def.ono)
    BY Zenon DEF Asking, Subscribing
  <2>4. subscribed \subseteq subscribed
    OBVIOUS
  <2>5. \/ IsAsked(def, Tail(r), pendingGets, subscribed)
        \/ IsTold(object, def, Append(a, x), pendingGets, subscribed, Held(def), heard)
    BY <1>2, <1>4, <2>1, <2>2, <2>3, <2>4, KnowsElse, Zenon
  <2>6. Held(def)' = Held(def) \/ def.ono \notin subscribed
    BY <1>6, Zenon
  <2>7. IsTold(object, def, Append(a, x), pendingGets, subscribed, Held(def), heard)
          => def.ono \in subscribed
    BY Zenon DEF IsTold
  <2> QED
    BY <2>5, <2>6, <2>7, Zenon
<1>7. Serving => \A i \in 1 .. Len(tracked) : \A object, def :
         object = tracked[i].object /\ def = tracked[i].def =>
           \/ IsAsked(def, Tail(r), pendingGets, subscribed')
           \/ IsTold(object, def, Append(a, x), pendingGets, subscribed', Held(def)', heard)
  BY <1>6
<1> QED
  BY <1>2, <1>5, <1>7, TakesOn, Zenon

(* A set that the device takes of an object somebody has subscribed to.    *)
LEMMA SetLoudly ==
  ASSUME setup \in Setups, DeviceStep, NEW r, NEW a, Says(r, a), Session(r, a),
         DeviceServes, DeviceServes',
         toDevice # << >>, toDevice' = AfterFirstFrame(toDevice),
         r[1].ono # SubscriptionManager, r[1].paramCount # 0, subscribed' = subscribed,
         NEW d \in DeviceDefinitions(r[1].ono), d.ono \in subscribed, IsData(r[1].data),
         held' = With(held, << d.ono, d.index >>, r[1].data),
         \/ toController' = (toController \o Respond(r[1], OK, 0, << >>)) \o Notify(d, r[1].data)
         \/ toController' = (toController \o Notify(d, r[1].data)) \o Respond(r[1], OK, 0, << >>)
  PROVE  SessionInv'
<1>0. PICK x, y : /\ x = ResponseMessage(r[1].handle, OK, 0, << >>)
                  /\ y = Notified(d, r[1].data)
  OBVIOUS
<1>1. /\ x \in Messages(Frames) /\ y \in Messages(Frames)
      /\ \E all \in {Append(Append(a, x), y), Append(Append(a, y), x)} :
           Speaks(toController', all, Frames) /\ Numbered(Tail(r), all, nextHandle)
  BY <1>0, SetReplies
<1>2. PICK all \in {Append(Append(a, x), y), Append(Append(a, y), x)} :
        Speaks(toController', all, Frames) /\ Numbered(Tail(r), all, nextHandle)
  BY <1>1
<1>3. /\ x.type = Response /\ x.paramCount = 0
      /\ y.type = Notification /\ y.type # Response /\ y.ono = d.ono /\ y.data = r[1].data
  BY <1>0, ResponseHas, NotifiedHas
<1>4. /\ r # << >> /\ 1 \in 1 .. Len(r) /\ r \in Seq(Messages(Requests))
      /\ a \in Seq(Messages(Frames)) /\ IsRequest(r[1])
      /\ Greeting => Greets(r, a)
      /\ Serving => Serves(r, a)
  <2>1. Greeting => Greets(r, a)
    BY SessionHas
  <2>2. Serving => Serves(r, a)
    BY SessionHas
  <2> QED
    BY <2>1, <2>2, Takes, SessionHas, Zenon
<1>5. ~ Greeting
  <2>1. ASSUME Greets(r, a) PROVE r[1].paramCount = 0
    BY <1>4, <2>1, Zenon DEF Greets, Asking
  <2> QED
    BY <1>4, <2>1, Zenon
<1>6. d.ono = r[1].ono
  <2>1. r[1].ono \in Long
    BY <1>4, RequestIsSent, Zenon
  <2> QED
    BY <2>1, MembersHaveNumber
<1>7. /\ Held(d)' = r[1].data
      /\ \A def : def.ono # d.ono => Held(def)' = Held(def)
  BY HeldNow, Zenon DEF DeviceStep
<1>8. ASSUME Serving, NEW i \in 1 .. Len(tracked), NEW object, object = tracked[i].object,
             NEW def, def = tracked[i].def
      PROVE  \/ IsAsked(def, Tail(r), pendingGets, subscribed')
             \/ IsTold(object, def, all, pendingGets, subscribed', Held(def)', heard)
  <2>1. \/ IsAsked(def, r, pendingGets, subscribed)
        \/ IsTold(object, def, a, pendingGets, subscribed, Held(def), heard)
    BY <1>4, <1>8, Zenon DEF Serves, KnowsOf
  <2>2. x \notin Telling(def.ono, pendingGets)
    BY <1>3, EmptyTellsNothing
  <2>3. r[1] \notin Asking(def, pendingGets) /\ r[1] \notin Subscribing(def.ono)
    BY Zenon DEF Asking, Subscribing
  <2>4. \/ y \notin Telling(def.ono, pendingGets) /\ Held(def)' = Held(def)
        \/ /\ y \in Telling(def.ono, pendingGets)
           /\ Agrees(object, def, Held(def)', Decoded(object, y.data))
    <3>1. CASE def.ono = d.ono
      <4>1. DeviceDefinitions(def.ono) = {def}
        BY <1>8, Zenon DEF DeviceServes, Willing
      <4>2. d = def
        BY <1>6, <3>1, <4>1, Zenon
      <4>3. y \in Telling(def.ono, pendingGets)
        BY <1>1, <1>3, <3>1, TellsOf, Zenon
      <4>4. Serving'
        BY <1>8, SameModes, Zenon DEF DeviceStep
      <4>5. setup' = setup /\ tracked' = tracked
        BY Zenon DEF DeviceStep
      <4>6. Agrees(object, def, Held(def)', Decoded(object, Held(def)'))
        BY <1>8, <4>4, <4>5, HeldIsRead, Zenon
      <4>7. Held(def)' = y.data
        BY <1>3, <1>7, <4>2, Zenon
      <4> QED
        BY <4>3, <4>6, <4>7, Zenon
    <3>2. CASE def.ono # d.ono
      BY <1>3, <1>7, <3>2, OthersTellNothing, Zenon
    <3> QED
      BY <3>1, <3>2
  <2>5. PICK bytes, now : bytes = Held(def) /\ now = Held(def)'
    OBVIOUS
  <2>6. \/ IsAsked(def, Tail(r), pendingGets, subscribed)
        \/ IsTold(object, def, all, pendingGets, subscribed, now, heard)
    <3>1. \/ y \notin Telling(def.ono, pendingGets) /\ now = bytes
          \/ /\ y \in Telling(def.ono, pendingGets)
             /\ Agrees(object, def, now, Decoded(object, y.data))
      BY <2>4, <2>5, Zenon
    <3>2. \/ IsAsked(def, r, pendingGets, subscribed)
          \/ IsTold(object, def, a, pendingGets, subscribed, bytes, heard)
      BY <2>1, <2>5, Zenon
    <3> QED
      BY <1>1, <1>2, <1>4, <2>2, <2>3, <3>1, <3>2, KnowsNow, Zenon
  <2> QED
    BY <2>5, <2>6, Zenon
<1>9. Serving => \A i \in 1 .. Len(tracked) : \A object, def :
         object = tracked[i].object /\ def = tracked[i].def =>
           \/ IsAsked(def, Tail(r), pendingGets, subscribed')
           \/ IsTold(object, def, all, pendingGets, subscribed', Held(def)', heard)
  BY <1>8
<1> QED
  BY <1>2, <1>5, <1>9, TakesOn, Zenon

(* A set, refused or taken.                                                *)
LEMMA SetStep ==
  ASSUME setup \in Setups, DeviceStep, NEW r, NEW a, Says(r, a), Session(r, a),
         DeviceServes, DeviceServes',
         toDevice # << >>, toDevice' = AfterFirstFrame(toDevice), DeviceSets(r[1])
  PROVE  SessionInv'
<1> DEFINE meant == {def \in DeviceDefinitions(r[1].ono) :
                       def.index = 1 /\ def.level = r[1].defLevel}
           d == CHOOSE e \in meant : TRUE
           fits == meant # {} /\ (d.type = "STRING" \/ Len(r[1].data) = Len(Held(d)))
           data == r[1].data
<1>1. /\ r[1].ono # SubscriptionManager /\ r[1].paramCount > 0 /\ subscribed' = subscribed
      /\ held' = IF fits THEN With(held, << d.ono, d.index >>, data) ELSE held
      /\ \/ /\ ~ fits
            /\ toController' = toController \o Respond(r[1], BadFormat, 0, << >>)
         \/ /\ fits
            /\ toController' =
                 (toController \o Respond(r[1], OK, 0, << >>)) \o Notify(d, data)
         \/ /\ fits
            /\ toController' =
                 (toController \o Notify(d, data)) \o Respond(r[1], OK, 0, << >>)
  BY Zenon DEF DeviceSets
<1>2. /\ IsRequest(r[1]) /\ r[1].handle \in Long \ {0}
  BY Takes
<1>3. r[1].ono \in Long /\ r[1].paramCount \in Nat /\ (r[1].paramCount = 0 \/ IsData(data))
  <2>1. r[1].ono \in Long /\ r[1].paramCount \in Octet
    BY <1>2, RequestIsSent, Zenon
  <2>2. \A n \in Octet : n \in Nat
    BY NumbersOfFields
  <2>3. r[1].paramCount = 0 \/ IsData(data)
    BY <1>2, RequestIsSent, Zenon
  <2> QED
    BY <2>1, <2>2, <2>3, Zenon
<1>4. r[1].paramCount # 0
  BY <1>1, <1>3
<1>5. Speaks(toController, a, Frames)
  BY SessionHas
<1>6. fits => d \in DeviceDefinitions(r[1].ono)
  BY Zenon
<1>7. OK = 0 /\ BadFormat = 4
  BY DEF OK, BadFormat
<1> HIDE DEF meant, d, fits
<1>8. CASE ~ fits
  <2>1. held' = held /\ toController' = toController \o Respond(r[1], BadFormat, 0, << >>)
    BY <1>1, <1>8, Zenon
  <2>2. \A def : Held(def)' = Held(def)
    BY <2>1, SameHeld, Zenon DEF DeviceStep
  <2>3. BadFormat \in {0, 4, 5}
    BY <1>7
  <2>4. Serving => \A i \in 1 .. Len(tracked) : \A def : def = tracked[i].def =>
          Held(def)' = Held(def) \/ def.ono \notin subscribed
    BY <2>2, Zenon
  <2> QED
    BY <1>1, <1>4, <2>1, <2>3, <2>4, SetQuietly
<1>9. CASE fits /\ d.ono \notin subscribed
  <2>0. PICK e \in DeviceDefinitions(r[1].ono) : e = d
    BY <1>6, <1>9, Zenon
  <2>1. held' = With(held, << e.ono, e.index >>, data)
    BY <1>1, <1>9, <2>0, Zenon
  <2>2. \A def : def.ono # e.ono => Held(def)' = Held(def)
    BY <2>1, HeldNow, Zenon DEF DeviceStep
  <2>a. PICK ono, bytes : ono = r[1].ono /\ bytes = data
    OBVIOUS
  <2>b. /\ ono \in Long /\ IsData(bytes) /\ e \in DeviceDefinitions(ono)
        /\ e.ono \notin subscribed
    BY <1>3, <1>4, <1>9, <2>0, <2>a, Zenon
  <2>c. ASSUME NEW s, NEW m, Speaks(s, m, Frames) PROVE s \o Notify(e, bytes) = s
    <3>1. setup \in Setups /\ Speaks(s, m, Frames) /\ ono \in Long /\ IsData(bytes)
          /\ e \in DeviceDefinitions(ono)
      BY <2>b, <2>c, Zenon
    <3>2. e.ono \notin subscribed => s \o Notify(e, bytes) = s
      BY ONLY <3>1, NotifiesWith, Zenon
    <3> QED
      BY ONLY <2>b, <3>2, Zenon
  <2>3. \A s, m : Speaks(s, m, Frames) => s \o Notify(e, data) = s
    BY <2>a, <2>c, Zenon
  <2>4. toController' = toController \o Respond(r[1], OK, 0, << >>)
    <3>1. toController \o Notify(e, data) = toController
      BY <1>5, <2>3, Zenon
    <3>2. /\ OK \in Octet /\ 0 \in Octet /\ << >> \in Seq(Int)
          /\ Len(<< >>) <= 3 * (LongestText + 2)
      BY SmallNumbers, OneDataFits DEF OK
    <3>3. Respond(r[1], OK, 0, << >>) \in Frames
      BY <1>2, <3>2, ResponseSays
    <3>4. (toController \o Respond(r[1], OK, 0, << >>)) \o Notify(e, data)
            = toController \o Respond(r[1], OK, 0, << >>)
      BY <1>5, <2>3, <3>3, FramesAreSequences, MoreSaid, Zenon
    <3> QED
      BY <1>1, <1>9, <2>0, <3>1, <3>4, Zenon
  <2>5. OK \in {0, 4, 5}
    BY <1>7
  <2>6. Serving => \A i \in 1 .. Len(tracked) : \A def : def = tracked[i].def =>
          Held(def)' = Held(def) \/ def.ono \notin subscribed
    BY <1>9, <2>0, <2>2, Zenon
  <2> QED
    BY <1>1, <1>4, <2>4, <2>5, <2>6, SetQuietly
<1>10. CASE fits /\ d.ono \in subscribed
  <2>1. PICK e \in DeviceDefinitions(r[1].ono) : e = d
    BY <1>6, <1>10, Zenon
  <2>2. /\ held' = With(held, << e.ono, e.index >>, data) /\ e.ono \in subscribed
        /\ IsData(data) /\ subscribed' = subscribed /\ r[1].ono # SubscriptionManager
    BY <1>1, <1>3, <1>4, <1>10, <2>1, Zenon
  <2>3. \/ toController' = (toController \o Respond(r[1], OK, 0, << >>)) \o Notify(e, data)
        \/ toController' = (toController \o Notify(e, data)) \o Respond(r[1], OK, 0, << >>)
    BY <1>1, <1>10, <2>1, Zenon
  <2> QED
    BY <1>4, <2>2, <2>3, SetLoudly
<1> QED
  BY <1>8, <1>9, <1>10

(* A request taken by the device, of whichever kind.                       *)
LEMMA TakesStep ==
  ASSUME setup \in Setups, guid \in setup.guids, HeldOK, SessionInv, DeviceServes, DeviceServes',
         Serving => Answering, DeviceTakes
  PROVE  SessionInv'
<1>1. PICK r, a : Says(r, a) /\ Session(r, a)
  BY Zenon DEF SessionInv
<1>2. DeviceStep
  BY DeviceStays
<1> DEFINE msg == UnmarshalOcp1Message(FirstFrame(toDevice))
<1>3. /\ toDevice # << >> /\ toDevice' = AfterFirstFrame(toDevice)
      /\ DeviceSubscribes(msg) \/ DeviceAnswers(msg) \/ DeviceSets(msg)
  BY Zenon DEF DeviceTakes
<1>4. msg = r[1]
  BY <1>1, <1>3, Takes
<1> HIDE DEF msg
<1>5. DeviceSubscribes(r[1]) \/ DeviceAnswers(r[1]) \/ DeviceSets(r[1])
  BY <1>3, <1>4, Zenon
<1>6. CASE DeviceSubscribes(r[1])
  BY <1>1, <1>2, <1>3, <1>6, SubscribeStep
<1>7. CASE DeviceAnswers(r[1])
  BY <1>1, <1>2, <1>3, <1>7, AnswerStep
<1>8. CASE DeviceSets(r[1])
  BY <1>1, <1>2, <1>3, <1>8, SetStep
<1> QED
  BY <1>5, <1>6, <1>7, <1>8

(* A step of the device without a request.                                 *)
LEMMA TellsOn ==
  ASSUME DeviceStep, linked, NEW r, NEW a, Says(r, a), Session(r, a), toDevice' = toDevice,
         NEW then, Speaks(toController', then, Frames), Numbered(r, then, nextHandle),
         Greeting => Greets(r, then)',
         Serving => \A i \in 1 .. Len(tracked) : \A object, def :
           object = tracked[i].object /\ def = tracked[i].def =>
             \/ IsAsked(def, r, pendingGets, subscribed')
             \/ IsTold(object, def, then, pendingGets, subscribed', Held(def)', heard)
  PROVE  SessionInv'
<1>1. Speaks(toDevice', r, Requests)
  BY SessionHas, Zenon
<1>2. linked => state # "Disconnected"
  BY SessionHas
<1>3. Stays
  BY <1>2, Zenon DEF Stays, DeviceStep
<1>4. ASSUME Serving PROVE Serves(r, then)'
  <2>1. Serves(r, a)
    BY <1>4, SessionHas
  <2>2. /\ \A h \in DOMAIN pendingGets : TrackedAt(pendingGets[h]) # {}
        /\ \A k \in 1 .. Len(r) :
             r[k].paramCount = 0 =>
               \E i \in 1 .. Len(tracked) : Queries(r[k], tracked[i].def, pendingGets)
    BY <2>1, Zenon DEF Serves
  <2>3. /\ setup' = setup /\ tracked' = tracked /\ pendingGets' = pendingGets /\ heard' = heard
    BY Zenon DEF DeviceStep
  <2>4. \A i \in 1 .. Len(tracked) : \A object, def :
           object = tracked[i].object /\ def = tracked[i].def =>
             \/ IsAsked(def, r, pendingGets', subscribed')
             \/ IsTold(object, def, then, pendingGets', subscribed', Held(def)', heard')
    BY <1>4, <2>3, Zenon
  <2> QED
    BY <2>2, <2>3, <2>4, ServesStep, Zenon
<1>5. nextHandle' = nextHandle
  BY Zenon DEF DeviceStep
<1> QED
  BY <1>1, <1>3, <1>4, <1>5, SessionStep, Zenon

(* A heartbeat.                                                            *)
LEMMA BeatStep ==
  ASSUME SessionInv, DeviceBeats
  PROVE  SessionInv'
<1>1. PICK r, a : Says(r, a) /\ Session(r, a)
  BY Zenon DEF SessionInv
<1>2. DeviceStep
  BY DeviceStays
<1>3. linked /\ toDevice' = toDevice /\ held' = held /\ subscribed' = subscribed
  BY SMT DEF DeviceBeats, deviceVars
<1>4. U16(5) \in Seq(Octet) /\ Len(U16(5)) = 2 /\ U32(5000) \in Seq(Octet) /\ Len(U32(5000)) = 4
  BY FieldSizes, SMT
<1>5. PICK time \in Seq(Octet) :
        /\ Len(time) \in {2, 4}
        /\ toController' = toController \o GetSerializedData(KeepAliveMessage(time))
  <2> DEFINE times == {U16(5), U32(5000)}
  <2>1. \E time \in times :
          toController' = toController \o GetSerializedData(KeepAliveMessage(time))
    BY SMT DEF DeviceBeats
  <2>2. \A time \in times : time \in Seq(Octet) /\ Len(time) \in {2, 4}
    BY <1>4, SMT
  <2> HIDE DEF times
  <2> QED
    BY <2>1, <2>2, Zenon
<1>6. PICK x : x = UnmarshalOcp1Message(GetSerializedData(KeepAliveMessage(time)))
  OBVIOUS
<1>7. x.type = KeepAlive /\ GetSerializedData(KeepAliveMessage(time)) \in Frames
  BY <1>5, <1>6, BeatSays
<1>8. x.type # Response /\ x.type # Notification
  BY <1>7, MessageTypes
<1>9. /\ Speaks(toController, a, Frames) /\ Numbered(r, a, nextHandle)
      /\ r \in Seq(Messages(Requests)) /\ a \in Seq(Messages(Frames))
  BY <1>1, SessionHas
<1>10. Speaks(toController', Append(a, x), Frames) /\ x \in Messages(Frames)
  BY <1>5, <1>6, <1>7, <1>9, FramesAreSequences, MoreSaid
<1>11. Numbered(r, Append(a, x), nextHandle)
  BY <1>8, <1>9, <1>10, NumberedSaid
<1>12. ASSUME Greeting PROVE Greets(r, Append(a, x))'
  <2>1. Greets(r, a)
    BY <1>1, <1>12, SessionHas
  <2>2. \A k \in 1 .. Len(r) : \E l \in 1 .. Len(r) : r[k] = r[l]
    OBVIOUS
  <2> QED
    BY <1>2, <1>3, <1>7, <1>9, <1>10, <2>1, <2>2, GreetsOn
<1>13. ASSUME Serving, NEW i \in 1 .. Len(tracked), NEW object, object = tracked[i].object,
              NEW def, def = tracked[i].def
       PROVE  \/ IsAsked(def, r, pendingGets, subscribed')
              \/ IsTold(object, def, Append(a, x), pendingGets, subscribed', Held(def)', heard)
  <2>1. Serves(r, a)
    BY <1>1, <1>13, SessionHas
  <2>2. \/ IsAsked(def, r, pendingGets, subscribed)
        \/ IsTold(object, def, a, pendingGets, subscribed, Held(def), heard)
    BY <1>13, <2>1, Zenon DEF Serves, KnowsOf
  <2>3. x \notin Telling(def.ono, pendingGets)
    BY <1>8, OthersTellNothing, Zenon
  <2>4. Held(def)' = Held(def)
    BY <1>2, <1>3, SameHeld, Zenon DEF DeviceStep
  <2>5. subscribed \subseteq subscribed
    OBVIOUS
  <2>6. IsTold(object, def, a, pendingGets, subscribed, Held(def), heard)
          => IsTold(object, def, Append(a, x), pendingGets, subscribed, Held(def), heard)
    BY <1>9, <1>10, <2>3, <2>5, ToldElse, Zenon
  <2> QED
    BY <1>3, <2>2, <2>4, <2>6, Zenon
<1>14. Serving => \A i \in 1 .. Len(tracked) : \A object, def :
         object = tracked[i].object /\ def = tracked[i].def =>
           \/ IsAsked(def, r, pendingGets, subscribed')
           \/ IsTold(object, def, Append(a, x), pendingGets, subscribed', Held(def)', heard)
  BY <1>13
<1> QED
  BY <1>1, <1>2, <1>3, <1>10, <1>11, <1>12, <1>14, TellsOn, Zenon

(* A value that changes at the device.                                     *)
LEMMA ReportStep ==
  ASSUME setup \in Setups, TrackedOK, SessionInv, DeviceServes, DeviceServes', DeviceReports
  PROVE  SessionInv'
<1>1. PICK r, a : Says(r, a) /\ Session(r, a)
  BY Zenon DEF SessionInv
<1>2. DeviceStep
  BY DeviceStays
<1>3. PICK o \in 1 .. Len(tracked) : \E def \in DeviceDefinitions(tracked[o].def.ono) :
        \E data \in Reports(def.type, def.level, def.index) :
          /\ held' = With(held, << def.ono, def.index >>, data)
          /\ toController' = toController \o Notify(def, data)
  BY Zenon DEF DeviceReports
<1>4. PICK ono : ono = tracked[o].def.ono
  OBVIOUS
<1>5. PICK e \in DeviceDefinitions(ono) : \E data \in Reports(e.type, e.level, e.index) :
        /\ held' = With(held, << e.ono, e.index >>, data)
        /\ toController' = toController \o Notify(e, data)
  BY <1>3, <1>4, Zenon
<1>6. PICK data \in Reports(e.type, e.level, e.index) :
        /\ held' = With(held, << e.ono, e.index >>, data)
        /\ toController' = toController \o Notify(e, data)
  BY <1>5
<1>7. toDevice' = toDevice /\ subscribed' = subscribed
  BY Zenon DEF DeviceReports
<1>8. ono \in Long /\ ono \in Int
  <2>1. IsProperty(tracked[o].def)
    BY ProperEntries, Zenon DEF TrackedOK
  <2>2. ono \in Long
    BY <1>4, <2>1, PropertyIsTarget, NumbersFit, Zenon DEF IsTarget
  <2> QED
    BY <2>2, NumbersOfFields
<1>9. IsData(data)
  BY <1>8, DeviceHolds, Zenon DEF IsHeld
<1>10. /\ Speaks(toDevice, r, Requests) /\ Speaks(toController, a, Frames)
       /\ r \in Seq(Messages(Requests)) /\ a \in Seq(Messages(Frames))
       /\ Numbered(r, a, nextHandle)
  BY <1>1, SessionHas
<1>11. /\ Greeting => Greets(r, a)
       /\ Serving => Serves(r, a)
       /\ ~ linked => subscribed = {}
  BY <1>1, SessionHas, Zenon
<1>12. e.ono = ono /\ (e.ono \notin subscribed => toController' = toController)
  <2>1. /\ setup \in Setups /\ ono \in Long /\ e \in DeviceDefinitions(ono) /\ IsData(data)
        /\ Speaks(toController, a, Frames)
    BY <1>8, <1>9, <1>10, Zenon
  <2>2. e.ono = ono /\ (e.ono \notin subscribed => toController \o Notify(e, data) = toController)
    BY ONLY <2>1, NotifiesWith, Zenon
  <2> QED
    BY ONLY <1>6, <2>2, Zenon
<1>13. \A def : def.ono # e.ono => Held(def)' = Held(def)
  BY <1>2, <1>6, HeldNow, Zenon DEF DeviceStep
<1>14. CASE ~ linked
  <2>1. toController' = toController
    BY <1>11, <1>12, <1>14, Zenon
  <2>2. linked' = linked /\ pendingGets' = pendingGets
    BY <1>2, Zenon DEF DeviceStep
  <2> QED
    BY <1>7, <1>14, <2>1, <2>2, StillUnlinked, Zenon
<1>15. CASE linked /\ e.ono \notin subscribed
  <2>1. toController' = toController
    BY <1>12, <1>15
  <2>2. ASSUME Greeting PROVE Greets(r, a)'
    BY <1>2, <1>7, <1>11, <2>2, Zenon DEF Greets, DeviceStep
  <2>3. ASSUME Serving, NEW i \in 1 .. Len(tracked), NEW object, object = tracked[i].object,
               NEW def, def = tracked[i].def
        PROVE  \/ IsAsked(def, r, pendingGets, subscribed')
               \/ IsTold(object, def, a, pendingGets, subscribed', Held(def)', heard)
    <3>1. \/ IsAsked(def, r, pendingGets, subscribed)
          \/ IsTold(object, def, a, pendingGets, subscribed, Held(def), heard)
      BY <1>11, <2>3, Zenon DEF Serves, KnowsOf
    <3>2. IsTold(object, def, a, pendingGets, subscribed, Held(def), heard) =>
            def.ono \in subscribed
      BY Zenon DEF IsTold
    <3>3. Held(def)' = Held(def) \/ def.ono \notin subscribed
      BY <1>13, <1>15, Zenon
    <3> QED
      BY <1>7, <3>1, <3>2, <3>3, Zenon
  <2>4. Serving => \A i \in 1 .. Len(tracked) : \A object, def :
          object = tracked[i].object /\ def = tracked[i].def =>
            \/ IsAsked(def, r, pendingGets, subscribed')
            \/ IsTold(object, def, a, pendingGets, subscribed', Held(def)', heard)
    BY <2>3
  <2> QED
    BY <1>1, <1>2, <1>7, <1>10, <1>15, <2>1, <2>2, <2>4, TellsOn, Zenon
<1>16. CASE linked /\ e.ono \in subscribed
  <2>0. PICK y : y = Notified(e, data)
    OBVIOUS
  <2>1. Speaks(toController', Append(a, y), Frames) /\ y \in Messages(Frames)
    BY <1>6, <1>8, <1>9, <1>10, <1>16, <2>0, NotifiesWith
  <2>2. y.type = Notification /\ y.type # Response /\ y.ono = e.ono /\ y.data = data
    BY <2>0, NotifiedHas
  <2>3. Numbered(r, Append(a, y), nextHandle)
    BY <1>10, <2>1, <2>2, NumberedSaid
  <2>4. ~ Greeting
    BY <1>11, <1>16, Zenon DEF Greets
  <2>5. Held(e)' = data
    BY <1>2, <1>6, HeldNow, Zenon DEF DeviceStep
  <2>6. ASSUME Serving, NEW i \in 1 .. Len(tracked), NEW object, object = tracked[i].object,
               NEW def, def = tracked[i].def
        PROVE  \/ IsAsked(def, r, pendingGets, subscribed')
               \/ IsTold(object, def, Append(a, y), pendingGets, subscribed', Held(def)', heard)
    <3>1. \/ IsAsked(def, r, pendingGets, subscribed)
          \/ IsTold(object, def, a, pendingGets, subscribed, Held(def), heard)
      BY <1>11, <2>6, Zenon DEF Serves, KnowsOf
    <3>2. CASE def.ono = e.ono
      <4>1. DeviceDefinitions(def.ono) = {def}
        BY <2>6, Zenon DEF DeviceServes, Willing
      <4>2. e = def
        BY <1>12, <3>2, <4>1, Zenon
      <4>3. y \in Telling(def.ono, pendingGets)
        BY <2>1, <2>2, <3>2, TellsOf, Zenon
      <4>4. Serving' /\ setup' = setup /\ tracked' = tracked
        BY <1>2, <2>6, SameModes, Zenon DEF DeviceStep
      <4>5. Agrees(object, def, Held(def)', Decoded(object, Held(def)'))
        BY <2>6, <4>4, HeldIsRead, Zenon
      <4>6. PICK now : now = Held(def)'
        OBVIOUS
      <4>7. now = y.data
        BY <2>2, <2>5, <4>2, <4>6, Zenon
      <4>8. Agrees(object, def, now, Decoded(object, y.data))
        BY <4>5, <4>6, <4>7, Zenon
      <4>9. IsTold(object, def, Append(a, y), pendingGets, subscribed, now, heard)
        BY <1>10, <1>16, <2>1, <3>2, <4>3, <4>8, ToldAnew, Zenon
      <4> QED
        BY <1>7, <4>6, <4>9, Zenon
    <3>3. CASE def.ono # e.ono
      <4>1. y \notin Telling(def.ono, pendingGets)
        BY <2>2, <3>3, OthersTellNothing, Zenon
      <4>2. Held(def)' = Held(def)
        BY <1>13, <3>3
      <4>3. subscribed \subseteq subscribed
        OBVIOUS
      <4>4. IsTold(object, def, a, pendingGets, subscribed, Held(def), heard)
              => IsTold(object, def, Append(a, y), pendingGets, subscribed, Held(def), heard)
        BY <1>10, <2>1, <4>1, <4>3, ToldElse, Zenon
      <4> QED
        BY <1>7, <3>1, <4>2, <4>4, Zenon
    <3> QED
      BY <3>2, <3>3
  <2>7. Serving => \A i \in 1 .. Len(tracked) : \A object, def :
          object = tracked[i].object /\ def = tracked[i].def =>
            \/ IsAsked(def, r, pendingGets, subscribed')
            \/ IsTold(object, def, Append(a, y), pendingGets, subscribed', Held(def)', heard)
    BY <2>6
  <2> QED
    BY <1>1, <1>2, <1>7, <1>16, <2>1, <2>3, <2>4, <2>7, TellsOn, Zenon
<1> QED
  BY <1>14, <1>15, <1>16

-----------------------------------------------------------------------------
(* The steps of the controller.                                            *)

(* It takes a message off.                                                 *)
LEMMA Hears ==
  ASSUME NEW r, NEW a, Says(r, a), Session(r, a),
         toController # << >>, toController' = AfterFirstFrame(toController)
  PROVE  /\ a # << >> /\ linked /\ 1 \in 1 .. Len(a)
         /\ UnmarshalOcp1Message(FirstFrame(toController)) = a[1]
         /\ Speaks(toController', Tail(a), Frames)
         /\ a[1] \in Messages(Frames) /\ a \in Seq(Messages(Frames))
         /\ Tail(a) \in Seq(Messages(Frames))
         /\ \A k \in 1 .. Len(Tail(a)) : k + 1 \in 1 .. Len(a) /\ Tail(a)[k] = a[k + 1]
<1>1. /\ Speaks(toController, a, Frames) /\ a \in Seq(Messages(Frames))
      /\ ~ linked => toController = << >>
  BY SessionHas
<1>2. Frames \in SUBSET Frames
  OBVIOUS
<1>3. /\ a # << >> /\ UnmarshalOcp1Message(FirstFrame(toController)) = a[1]
      /\ Speaks(AfterFirstFrame(toController), Tail(a), Frames)
  BY <1>1, <1>2, SaidFirst
<1>4. /\ 1 \in 1 .. Len(a) /\ a[1] \in Messages(Frames) /\ Tail(a) \in Seq(Messages(Frames))
      /\ \A k \in 1 .. Len(Tail(a)) : k + 1 \in 1 .. Len(a) /\ Tail(a)[k] = a[k + 1]
  BY <1>1, <1>3, TailOf
<1> QED
  BY <1>1, <1>3, <1>4, Zenon

(* A message that leaves the table and the requests as they are.           *)
LEMMA HearsOn ==
  ASSUME Stays, NEW r, NEW a, Says(r, a), Session(r, a),
         toController # << >>, toController' = AfterFirstFrame(toController),
         toDevice' = toDevice, nextHandle' = nextHandle, subscribed' = subscribed, held' = held,
         \/ pendingGets' = pendingGets
         \/ a[1].type = Response /\ pendingGets' = Without(pendingGets, a[1].handle),
         Greeting => Greets(r, Tail(a))',
         Serving => \A i \in 1 .. Len(tracked) : \A object, def :
           object = tracked[i].object /\ def = tracked[i].def =>
             /\ a[1] \in Telling(def.ono, pendingGets) =>
                  object \in DOMAIN heard' /\ heard'[object] = Decoded(object, a[1].data)
             /\ a[1] \notin Telling(def.ono, pendingGets) =>
                  (object \in DOMAIN heard =>
                     object \in DOMAIN heard' /\ heard'[object] = heard[object])
  PROVE  SessionInv'
<1>1. /\ a # << >> /\ 1 \in 1 .. Len(a) /\ Speaks(toController', Tail(a), Frames)
      /\ a \in Seq(Messages(Frames)) /\ Tail(a) \in Seq(Messages(Frames))
      /\ \A k \in 1 .. Len(Tail(a)) : k + 1 \in 1 .. Len(a) /\ Tail(a)[k] = a[k + 1]
  BY Hears
<1>2. /\ Speaks(toDevice, r, Requests) /\ Numbered(r, a, nextHandle)
      /\ r \in Seq(Messages(Requests))
      /\ Serving => Serves(r, a)
  BY SessionHas
<1>3. /\ Numbered(r, Tail(a), nextHandle)
      /\ a[1].type = Response =>
           \A k \in 1 .. Len(Tail(a)) :
             Tail(a)[k].type = Response => Tail(a)[k].handle # a[1].handle
  BY <1>1, <1>2, NumberedTaken
<1>4. a[1].type = Response => \A k \in 1 .. Len(r) : r[k].handle # a[1].handle
  <2>1. \A j \in 1 .. Len(r) : \A k \in 1 .. Len(a) :
          a[k].type = Response => a[k].handle # r[j].handle
    BY <1>2, NumberedSays
  <2> QED
    BY ONLY <1>1, <2>1, Zenon
<1>5. PICK gets, then : gets = pendingGets /\ then = pendingGets'
  OBVIOUS
<1>6. /\ \A h \in DOMAIN then : h \in DOMAIN gets /\ then[h] = gets[h]
      /\ \A h \in DOMAIN gets :
           (a[1].type = Response => h # a[1].handle) => h \in DOMAIN then /\ then[h] = gets[h]
  <2>1. CASE pendingGets' = pendingGets
    BY <1>5, <2>1, Zenon
  <2>2. CASE a[1].type = Response /\ pendingGets' = Without(pendingGets, a[1].handle)
    <3>1. then = Without(gets, a[1].handle)
      BY <1>5, <2>2
    <3> QED
      BY <2>2, <3>1 DEF Without
  <2> QED
    BY <2>1, <2>2
<1>7. \A k \in 1 .. Len(r) : r[k].handle \in DOMAIN gets =>
        r[k].handle \in DOMAIN then /\ then[r[k].handle] = gets[r[k].handle]
  BY <1>4, <1>6, Zenon
<1>8. ASSUME NEW k \in 1 .. Len(Tail(a)), NEW ono
      PROVE  Tail(a)[k] \in Telling(ono, gets) <=> Tail(a)[k] \in Telling(ono, then)
  <2>1. PICK m : m = Tail(a)[k]
    OBVIOUS
  <2>2. m.type = Response =>
          (m.handle \in DOMAIN gets /\ gets[m.handle] = ono
             <=> m.handle \in DOMAIN then /\ then[m.handle] = ono)
    BY <1>3, <1>6, <2>1, Zenon
  <2>3. m \in Telling(ono, gets) <=> m \in Telling(ono, then)
    BY <2>2, Zenon DEF Telling
  <2> QED
    BY <2>1, <2>3
<1>9. ASSUME Serving, NEW i \in 1 .. Len(tracked), NEW object, object = tracked[i].object,
             NEW def, def = tracked[i].def
      PROVE  \/ IsAsked(def, r, pendingGets', subscribed')
             \/ IsTold(object, def, Tail(a), pendingGets', subscribed', Held(def)', heard')
  <2>1. Held(def)' = Held(def)
    BY SameHeld, Zenon DEF Stays
  <2>2. \/ IsAsked(def, r, gets, subscribed)
        \/ IsTold(object, def, a, gets, subscribed, Held(def), heard)
    BY <1>2, <1>5, <1>9, Zenon DEF Serves, KnowsOf
  <2>3. PICK told, heardOf : told = heard /\ heardOf = heard'
    OBVIOUS
  <2>4. /\ a[1] \in Telling(def.ono, gets) =>
             object \in DOMAIN heardOf /\ heardOf[object] = Decoded(object, a[1].data)
        /\ a[1] \notin Telling(def.ono, gets) =>
             (object \in DOMAIN told =>
                object \in DOMAIN heardOf /\ heardOf[object] = told[object])
    BY <1>5, <1>9, <2>3, Zenon
  <2>5. CASE IsAsked(def, r, gets, subscribed)
    <3>1. IsAsked(def, r, then, subscribed)
      BY <1>2, <1>7, <2>5, AskedSame
    <3> QED
      BY <1>5, <3>1
  <2>6. CASE IsTold(object, def, a, gets, subscribed, Held(def), heard)
    <3>1. PICK subs, bytes : subs = subscribed /\ bytes = Held(def)
      OBVIOUS
    <3>2. IsTold(object, def, a, gets, subs, bytes, told)
      BY <2>3, <2>6, <3>1, Zenon
    <3>3. \A k \in 1 .. Len(Tail(a)) :
            Tail(a)[k] \in Telling(def.ono, gets) <=> Tail(a)[k] \in Telling(def.ono, then)
      BY <1>8
    <3>4. IsTold(object, def, Tail(a), then, subs, bytes, heardOf)
      BY <1>1, <2>4, <3>2, <3>3, ToldTaken
    <3> QED
      BY <1>5, <2>1, <2>3, <3>1, <3>4, Zenon
  <2> QED
    BY <2>2, <2>5, <2>6
<1>10. ASSUME Serving PROVE Serves(r, Tail(a))'
  <2>1. /\ \A h \in DOMAIN pendingGets : TrackedAt(pendingGets[h]) # {}
        /\ \A k \in 1 .. Len(r) :
             r[k].paramCount = 0 =>
               \E i \in 1 .. Len(tracked) : Queries(r[k], tracked[i].def, pendingGets)
    BY <1>2, <1>10, Zenon DEF Serves
  <2>2. \A h \in DOMAIN pendingGets' :
          h \in DOMAIN pendingGets /\ pendingGets'[h] = pendingGets[h]
    BY <1>5, <1>6, Zenon
  <2>3. \A i \in 1 .. Len(tracked) : \A object, def :
          object = tracked[i].object /\ def = tracked[i].def =>
            \/ IsAsked(def, r, pendingGets', subscribed')
            \/ IsTold(object, def, Tail(a), pendingGets', subscribed', Held(def)', heard')
    BY <1>9, <1>10
  <2>4. setup' = setup /\ tracked' = tracked
    BY Zenon DEF Stays
  <2> QED
    BY <2>1, <2>2, <2>3, <2>4, ServesStep, Zenon
<1> QED
  BY <1>1, <1>2, <1>3, <1>10, SessionStep, Zenon

(* A number leads to the only object that has it.                          *)
LEMMA IndexOf ==
  ASSUME Distinct, NEW ono, TrackedAt(ono) # {}
  PROVE  OnoIndex(ono) \in 1 .. Len(tracked) /\ tracked[OnoIndex(ono)].def.ono = ono
<1>1. PICK j \in 1 .. Len(tracked) : tracked[j].def.ono = ono
  BY Zenon DEF TrackedAt
<1>2. TrackedAt(ono) = {j}
  BY <1>1, Zenon DEF TrackedAt, Distinct
<1>3. \A i \in TrackedAt(ono) : i <= j
  BY <1>1, <1>2
<1>4. OnoIndex(ono) \in TrackedAt(ono)
  BY <1>2, <1>3, Zenon DEF OnoIndex
<1> QED
  BY <1>4, Zenon DEF TrackedAt

(* A value is given to the object that has its number, and to no other.    *)
LEMMA Delivered ==
  ASSUME Distinct, NEW ono, TrackedAt(ono) # {}, NEW data, Deliver(ono, data),
         NEW i \in 1 .. Len(tracked), NEW object, object = tracked[i].object,
         NEW def, def = tracked[i].def
  PROVE  /\ def.ono = ono =>
              object \in DOMAIN heard' /\ heard'[object] = Decoded(object, data)
         /\ def.ono # ono =>
              (object \in DOMAIN heard =>
                 object \in DOMAIN heard' /\ heard'[object] = heard[object])
<1>1. PICK j \in 1 .. Len(tracked) : j = OnoIndex(ono) /\ tracked[j].def.ono = ono
  BY IndexOf
<1>2. PICK other, read : other = tracked[j].object /\ read = Decoded(other, data)
  OBVIOUS
<1>3. heard' = With(heard, other, read)
  BY <1>1, <1>2, Zenon DEF Deliver
<1>4. CASE def.ono = ono
  <2>1. i = j
    BY <1>1, <1>4, Zenon DEF Distinct
  <2>2. other = object
    BY <1>2, <2>1
  <2>3. object \in DOMAIN heard' /\ heard'[object] = read
    BY <1>3, <2>2 DEF With
  <2> QED
    BY <1>2, <1>4, <2>2, <2>3, Zenon
<1>5. CASE def.ono # ono
  <2>1. i # j
    BY <1>1, <1>5
  <2>2. other # object
    BY <1>2, <2>1, Zenon DEF Distinct
  <2>3. object \in DOMAIN heard => object \in DOMAIN heard' /\ heard'[object] = heard[object]
    BY <1>3, <2>2 DEF With
  <2> QED
    BY <1>5, <2>3, Zenon
<1> QED
  BY <1>4, <1>5

(* The controller takes a message while the device does nothing.           *)
Hearing ==
  /\ toController # << >> /\ toController' = AfterFirstFrame(toController)
  /\ setup' = setup /\ guid' = guid /\ linked' = linked /\ held' = held
  /\ subscribed' = subscribed

(* An answer does not disconnect.                                          *)
LEMMA StateStays ==
  ASSUME NEW subs, NEW gets, NEW was, NEW got, state # "Disconnected"
  PROVE  StateAfter(subs, gets, was, got) # "Disconnected"
BY DEF StateAfter

LEMMA HearingStays ==
  ASSUME Hearing, NEW r, NEW a, Says(r, a), Session(r, a),
         deviceGuid' = deviceGuid, tracked' = tracked, state' # "Disconnected"
  PROVE  Stays
<1>1. linked
  BY Hears, Zenon DEF Hearing
<1> QED
  BY <1>1, Zenon DEF Hearing, Stays

(* Once there is an answer other than the GUID the GUID is there.          *)
LEMMA GreetedWith ==
  ASSUME NEW r, NEW a, Greets(r, a), 1 \in 1 .. Len(a), DeviceServes, IsSoundscape
  PROVE  \/ a[1].type = KeepAlive
         \/ /\ a[1].type = Response /\ a[1].status = OK /\ a[1].paramCount > 0
            /\ a[1].handle \in DOMAIN pendingGets
            /\ pendingGets[a[1].handle] = GuidDefinition.ono
            /\ TrackedAt(pendingGets[a[1].handle]) = {}
            /\ a[1].data = DataFromString(guid)
<1>1. \/ a[1].type = KeepAlive
      \/ /\ a[1].type = Response
         /\ a[1] \in Telling(GuidDefinition.ono, pendingGets)
         /\ a[1].data = DataFromString(guid)
  BY Zenon DEF Greets
<1>2. Response # Notification
  BY MessageTypes
<1>3. TrackedAt(GuidDefinition.ono) = {}
  BY Zenon DEF DeviceServes
<1> QED
  BY <1>1, <1>2, <1>3, Zenon DEF Telling

(* A notification, for an object or for none; while the GUID is awaited    *)
(* there is none.                                                          *)
LEMMA NotificationHeard ==
  ASSUME Hearing, DeviceServes, NEW r, NEW a, Says(r, a), Session(r, a), TakeNotification(a[1])
  PROVE  SessionInv'
<1>1. /\ 1 \in 1 .. Len(a) /\ linked /\ a[1] \in Messages(Frames)
  BY Hears, Zenon DEF Hearing
<1>2. /\ a[1].type = Notification /\ state' = state /\ deviceGuid' = deviceGuid
      /\ tracked' = tracked /\ pendingGets' = pendingGets /\ nextHandle' = nextHandle
      /\ toDevice' = toDevice
  BY DEF TakeNotification
<1>3. Stays
  BY <1>1, <1>2, HearingStays, SessionHas, Zenon
<1>4. Notification # KeepAlive /\ Notification # Response
  BY MessageTypes
<1>5. ~ Greeting
  BY <1>1, <1>2, <1>4, GreetedWith, SessionHas, Zenon DEF Greeting
<1>6. ASSUME Serving, NEW i \in 1 .. Len(tracked), NEW object, object = tracked[i].object,
             NEW def, def = tracked[i].def
      PROVE  /\ a[1] \in Telling(def.ono, pendingGets) =>
                  object \in DOMAIN heard' /\ heard'[object] = Decoded(object, a[1].data)
             /\ a[1] \notin Telling(def.ono, pendingGets) =>
                  (object \in DOMAIN heard =>
                     object \in DOMAIN heard' /\ heard'[object] = heard[object])
  <2>1. a[1] \in Telling(def.ono, pendingGets) <=> def.ono = a[1].ono
    BY <1>1, <1>2, <1>4, Zenon DEF Telling
  <2>2. CASE TrackedAt(a[1].ono) # {}
    <3>1. Deliver(a[1].ono, a[1].data)
      BY <2>2, Zenon DEF TakeNotification
    <3>2. Distinct
      BY Zenon DEF DeviceServes
    <3>3. PICK ono, data : ono = a[1].ono /\ data = a[1].data
      OBVIOUS
    <3>4. TrackedAt(ono) # {} /\ Deliver(ono, data)
      BY <2>2, <3>1, <3>3, Zenon
    <3>5. /\ def.ono = ono =>
               object \in DOMAIN heard' /\ heard'[object] = Decoded(object, data)
          /\ def.ono # ono =>
               (object \in DOMAIN heard =>
                  object \in DOMAIN heard' /\ heard'[object] = heard[object])
      BY <1>6, <3>2, <3>4, Delivered
    <3> QED
      BY ONLY <2>1, <3>3, <3>5, Zenon
  <2>3. CASE TrackedAt(a[1].ono) = {}
    <3>1. heard' = heard
      BY <2>3 DEF TakeNotification
    <3>2. def.ono # a[1].ono
      BY <1>6, <2>3, Zenon DEF TrackedAt
    <3> QED
      BY <2>1, <3>1, <3>2, Zenon
  <2> QED
    BY <2>2, <2>3
<1>7. Serving => \A i \in 1 .. Len(tracked) : \A object, def :
        object = tracked[i].object /\ def = tracked[i].def =>
          /\ a[1] \in Telling(def.ono, pendingGets) =>
               object \in DOMAIN heard' /\ heard'[object] = Decoded(object, a[1].data)
          /\ a[1] \notin Telling(def.ono, pendingGets) =>
               (object \in DOMAIN heard =>
                  object \in DOMAIN heard' /\ heard'[object] = heard[object])
  BY <1>6
<1>8. /\ toController # << >> /\ toController' = AfterFirstFrame(toController)
      /\ held' = held /\ subscribed' = subscribed
  BY Zenon DEF Hearing
<1> QED
  BY <1>2, <1>3, <1>5, <1>7, <1>8, HearsOn, Zenon

(* A heartbeat.                                                            *)
LEMMA BeatHeard ==
  ASSUME Hearing, NEW r, NEW a, Says(r, a), Session(r, a), TakeKeepAlive(a[1])
  PROVE  SessionInv'
<1>1. /\ 1 \in 1 .. Len(a) /\ linked
      /\ \A k \in 1 .. Len(Tail(a)) : k + 1 \in 1 .. Len(a) /\ Tail(a)[k] = a[k + 1]
  BY Hears, Zenon DEF Hearing
<1>2. /\ a[1].type = KeepAlive /\ state' = state /\ deviceGuid' = deviceGuid
      /\ tracked' = tracked /\ pendingGets' = pendingGets /\ nextHandle' = nextHandle
      /\ toDevice' = toDevice /\ heard' = heard
  BY DEF TakeKeepAlive
<1>3. Stays
  BY <1>1, <1>2, HearingStays, SessionHas, Zenon
<1>4. Notification # KeepAlive /\ KeepAlive # Response
  BY MessageTypes
<1>5. ASSUME NEW ono PROVE a[1] \notin Telling(ono, pendingGets)
  BY <1>2, <1>4, Zenon DEF Telling
<1>6. PICK t : t = Tail(a)
  OBVIOUS
<1>7. ASSUME Greeting PROVE Greets(r, t)'
  <2>1. Greets(r, a)
    BY <1>7, SessionHas
  <2>2. subscribed' = subscribed /\ guid' = guid
    BY Zenon DEF Hearing
  <2>3. \A k \in 1 .. Len(t) : k + 1 \in 1 .. Len(a) /\ t[k] = a[k + 1]
    BY <1>1, <1>6
  <2>4. \A k \in 1 .. Len(t) :
          \/ t[k].type = KeepAlive
          \/ /\ t[k].type = Response
             /\ t[k] \in Telling(GuidDefinition.ono, pendingGets)
             /\ t[k].data = DataFromString(guid)
    BY <2>1, <2>3, Zenon DEF Greets
  <2> QED
    BY <1>2, <2>1, <2>2, <2>4, Zenon DEF Greets
<1>8. Serving => \A i \in 1 .. Len(tracked) : \A object, def :
        object = tracked[i].object /\ def = tracked[i].def =>
          /\ a[1] \in Telling(def.ono, pendingGets) =>
               object \in DOMAIN heard' /\ heard'[object] = Decoded(object, a[1].data)
          /\ a[1] \notin Telling(def.ono, pendingGets) =>
               (object \in DOMAIN heard =>
                  object \in DOMAIN heard' /\ heard'[object] = heard[object])
  BY <1>2, <1>5, Zenon
<1>9. /\ toController # << >> /\ toController' = AfterFirstFrame(toController)
      /\ held' = held /\ subscribed' = subscribed
  BY Zenon DEF Hearing
<1>10. Greeting => Greets(r, Tail(a))'
  BY <1>6, <1>7
<1> QED
  BY <1>2, <1>3, <1>8, <1>9, <1>10, HearsOn, Zenon

(* An answer without a value, which is no query's: the device answers each *)
(* with one.                                                               *)
LEMMA AcknowledgementHeard ==
  ASSUME Hearing, DeviceServes, NEW r, NEW a, Says(r, a), Session(r, a), TakeAcknowledgement(a[1])
  PROVE  SessionInv'
<1>1. 1 \in 1 .. Len(a) /\ linked /\ state # "Disconnected"
  BY Hears, SessionHas, Zenon DEF Hearing
<1>2. /\ a[1].type = Response /\ deviceGuid' = deviceGuid
      /\ a[1].handle \in DOMAIN pendingGets => a[1].status # OK \/ a[1].paramCount = 0
      /\ pendingGets' = Without(pendingGets, a[1].handle)
      /\ tracked' = tracked /\ nextHandle' = nextHandle
      /\ toDevice' = toDevice /\ heard' = heard
  BY DEF TakeAcknowledgement
<1>3. state' # "Disconnected"
  BY <1>1, StateStays, Zenon DEF TakeAcknowledgement
<1>4. Stays
  BY <1>2, <1>3, HearingStays, Zenon
<1>5. Notification # Response /\ KeepAlive # Response
  BY MessageTypes
<1>6. a[1].paramCount = 0 => ~ (a[1].paramCount > 0)
  OBVIOUS
<1>7. ASSUME NEW ono PROVE a[1] \notin Telling(ono, pendingGets)
  BY <1>2, <1>5, <1>6, Zenon DEF Telling
<1>8. ~ Greeting
  BY <1>1, <1>2, <1>5, <1>6, GreetedWith, SessionHas, Zenon DEF Greeting
<1>9. Serving => \A i \in 1 .. Len(tracked) : \A object, def :
        object = tracked[i].object /\ def = tracked[i].def =>
          /\ a[1] \in Telling(def.ono, pendingGets) =>
               object \in DOMAIN heard' /\ heard'[object] = Decoded(object, a[1].data)
          /\ a[1] \notin Telling(def.ono, pendingGets) =>
               (object \in DOMAIN heard =>
                  object \in DOMAIN heard' /\ heard'[object] = heard[object])
  BY <1>2, <1>7, Zenon
<1>10. /\ toController # << >> /\ toController' = AfterFirstFrame(toController)
       /\ held' = held /\ subscribed' = subscribed
  BY Zenon DEF Hearing
<1> QED
  BY <1>2, <1>4, <1>8, <1>9, <1>10, HearsOn, Zenon

(* A value that was asked for.                                             *)
LEMMA ValueHeard ==
  ASSUME Hearing, DeviceServes, NEW r, NEW a, Says(r, a), Session(r, a), TakeValue(a[1])
  PROVE  SessionInv'
<1>1. /\ 1 \in 1 .. Len(a) /\ linked /\ state # "Disconnected" /\ a[1] \in Messages(Frames)
  BY Hears, SessionHas, Zenon DEF Hearing
<1>2. /\ a[1].type = Response /\ a[1].status = OK /\ a[1].paramCount > 0
      /\ deviceGuid' = deviceGuid /\ a[1].handle \in DOMAIN pendingGets
      /\ TrackedAt(pendingGets[a[1].handle]) # {}
      /\ Deliver(pendingGets[a[1].handle], a[1].data)
      /\ pendingGets' = Without(pendingGets, a[1].handle)
      /\ tracked' = tracked /\ nextHandle' = nextHandle
      /\ toDevice' = toDevice
  BY DEF TakeValue
<1>3. state' # "Disconnected"
  BY <1>1, StateStays, Zenon DEF TakeValue
<1>4. Stays
  BY <1>2, <1>3, HearingStays, Zenon
<1>5. Notification # Response /\ KeepAlive # Response
  BY MessageTypes
<1>6. ~ Greeting
  BY <1>1, <1>2, <1>5, GreetedWith, SessionHas, Zenon DEF Greeting
<1>7. ASSUME Serving, NEW i \in 1 .. Len(tracked), NEW object, object = tracked[i].object,
             NEW def, def = tracked[i].def
      PROVE  /\ a[1] \in Telling(def.ono, pendingGets) =>
                  object \in DOMAIN heard' /\ heard'[object] = Decoded(object, a[1].data)
             /\ a[1] \notin Telling(def.ono, pendingGets) =>
                  (object \in DOMAIN heard =>
                     object \in DOMAIN heard' /\ heard'[object] = heard[object])
  <2>1. PICK ono, data : ono = pendingGets[a[1].handle] /\ data = a[1].data
    OBVIOUS
  <2>2. a[1] \in Telling(def.ono, pendingGets) <=> def.ono = ono
    BY <1>1, <1>2, <1>5, <2>1, Zenon DEF Telling
  <2>3. Distinct /\ TrackedAt(ono) # {} /\ Deliver(ono, data)
    BY <1>2, <2>1, Zenon DEF DeviceServes
  <2>4. /\ def.ono = ono =>
             object \in DOMAIN heard' /\ heard'[object] = Decoded(object, data)
        /\ def.ono # ono =>
             (object \in DOMAIN heard =>
                object \in DOMAIN heard' /\ heard'[object] = heard[object])
    BY <1>7, <2>3, Delivered
  <2> QED
    BY ONLY <2>1, <2>2, <2>4, Zenon
<1>8. Serving => \A i \in 1 .. Len(tracked) : \A object, def :
        object = tracked[i].object /\ def = tracked[i].def =>
          /\ a[1] \in Telling(def.ono, pendingGets) =>
               object \in DOMAIN heard' /\ heard'[object] = Decoded(object, a[1].data)
          /\ a[1] \notin Telling(def.ono, pendingGets) =>
               (object \in DOMAIN heard =>
                  object \in DOMAIN heard' /\ heard'[object] = heard[object])
  BY <1>7
<1>9. /\ toController # << >> /\ toController' = AfterFirstFrame(toController)
      /\ held' = held /\ subscribed' = subscribed
  BY Zenon DEF Hearing
<1> QED
  BY <1>2, <1>4, <1>6, <1>8, <1>9, HearsOn, Zenon

-----------------------------------------------------------------------------
(* Requests for some entries: to subscribe each, then to query each.       *)
Requesting(more, entries, next) ==
  LET n == Len(entries)
  IN  /\ Len(more) = 2 * n
      /\ \A i \in 1 .. n :
           /\ more[i] = AddSubscriptionCommand(entries[i].def, next + i - 1)
           /\ more[n + i] = GetValueCommand(entries[i].def, next + n + i - 1)

(* The requests are frames, one after the other,                           *)
LEMMA RequestsSaid ==
  ASSUME NEW s, NEW m, Speaks(s, m, Requests), NEW n \in Nat,
         NEW messages, messages = [i \in 1 .. n |-> messages[i]],
         \A i \in 1 .. n : IsRequest(messages[i])
  PROVE  /\ Speaks(s \o Concatenated(messages), m \o messages, Requests)
         /\ messages \in Seq(Messages(Requests)) /\ Len(messages) = n
<1> DEFINE more == [i \in DOMAIN messages |-> GetSerializedData(messages[i])]
<1>1. more = [i \in 1 .. n |-> more[i]]
  BY SMT
<1>2. ASSUME NEW i \in 1 .. n
      PROVE  /\ more[i] \in Requests /\ UnmarshalOcp1Message(more[i]) = messages[i]
             /\ messages[i] \in Messages(Requests)
  <2>1. more[i] = GetSerializedData(messages[i])
    BY SMT
  <2>2. more[i] \in Requests /\ UnmarshalOcp1Message(more[i]) = messages[i]
    BY <2>1, RequestSays, Zenon
  <2> QED
    BY <2>2, Zenon DEF Messages
<1>3. Concatenated(messages) = Seqs!FlattenSeq(more)
  BY Zenon DEF Concatenated
<1> HIDE DEF more
<1>4. Speaks(s \o Seqs!FlattenSeq(more), m \o [i \in 1 .. n |-> UnmarshalOcp1Message(more[i])],
             Requests)
  <2>1. \A i \in 1 .. n : more[i] \in Requests
    BY <1>2
  <2> QED
    BY <1>1, <2>1, FramesAreSequences, SaidMany, Zenon
<1>5. [i \in 1 .. n |-> UnmarshalOcp1Message(more[i])] = messages
  BY <1>2
<1>6. messages \in [1 .. n -> Messages(Requests)]
  BY <1>2
<1>7. messages \in Seq(Messages(Requests)) /\ Len(messages) = n
  BY <1>6, MappedIsSeq
<1> QED
  BY <1>3, <1>4, <1>5, <1>7, Zenon

LEMMA Joined ==
  ASSUME NEW T, NEW n \in Nat, NEW s \in Seq(T), NEW t \in Seq(T), Len(s) = n, Len(t) = n
  PROVE  /\ s \o t \in Seq(T) /\ Len(s \o t) = 2 * n
         /\ \A i \in 1 .. n : (s \o t)[i] = s[i] /\ (s \o t)[n + i] = t[i]
OBVIOUS

(* with handles of their own from the next one on.                         *)
LEMMA Requested ==
  ASSUME HandlesOK, NEW entries, AreProper(entries), NEW gets, SubscribeAndQuery(entries, gets),
         HandlesFit', NEW r, Speaks(toDevice, r, Requests)
  PROVE  \E more \in Seq(Messages(Requests)) :
           Requesting(more, entries, nextHandle) /\ Speaks(toDevice', r \o more, Requests)
<1> DEFINE n == Len(entries)
           subs == [i \in 1 .. n |-> AddSubscriptionCommand(entries[i].def, nextHandle + i - 1)]
           queries == [i \in 1 .. n |-> GetValueCommand(entries[i].def, nextHandle + n + i - 1)]
<1>1. n \in Nat /\ \A i \in 1 .. n : IsProperty(entries[i].def)
  BY ProperEntries
<1>2. /\ toDevice' = (toDevice \o Concatenated(subs)) \o Concatenated(queries)
      /\ nextHandle' = nextHandle + 2 * n
  BY Zenon DEF SubscribeAndQuery
<1>3. nextHandle \in Nat
  BY DEF HandlesOK
<1> HIDE DEF n
<1>4. nextHandle' \in Nat /\ nextHandle' >= nextHandle
  BY <1>1, <1>2, <1>3
<1>5. \A h \in nextHandle .. nextHandle' - 1 : h \in Long \ {0}
  BY <1>4, HandlesOfStep, Zenon
<1>6. ASSUME NEW i \in 1 .. n
      PROVE  /\ IsRequest(AddSubscriptionCommand(entries[i].def, nextHandle + i - 1))
             /\ IsRequest(GetValueCommand(entries[i].def, nextHandle + n + i - 1))
  <2> DEFINE def == entries[i].def
             a == nextHandle + i - 1
             b == nextHandle + n + i - 1
  <2>1. IsTarget(def) /\ def.getter \in 1 .. MaxUint16
    <3>1. IsProperty(def)
      BY <1>1
    <3> HIDE DEF def
    <3> QED
      BY <3>1, PropertyIsTarget, Zenon DEF IsProperty
  <2>2. a \in nextHandle .. nextHandle' - 1 /\ b \in nextHandle .. nextHandle' - 1
    BY <1>1, <1>2, <1>3
  <2> HIDE DEF def, a, b
  <2>3. a \in Long \ {0} /\ b \in Long \ {0}
    BY <1>5, <2>2, Zenon
  <2>4. IsRequest(AddSubscriptionCommand(def, a)) /\ IsRequest(GetValueCommand(def, b))
    BY <2>1, <2>3, CommandsAreRequests, Zenon
  <2> QED
    BY <2>4 DEF def, a, b
<1>7. subs = [i \in 1 .. n |-> subs[i]] /\ \A i \in 1 .. n : IsRequest(subs[i])
  BY <1>6
<1>8. queries = [i \in 1 .. n |-> queries[i]] /\ \A i \in 1 .. n : IsRequest(queries[i])
  BY <1>6
<1>9. \A i \in 1 .. n :
        /\ subs[i] = AddSubscriptionCommand(entries[i].def, nextHandle + i - 1)
        /\ queries[i] = GetValueCommand(entries[i].def, nextHandle + n + i - 1)
  OBVIOUS
<1> HIDE DEF subs, queries
<1>10. /\ Speaks(toDevice \o Concatenated(subs), r \o subs, Requests)
       /\ subs \in Seq(Messages(Requests)) /\ Len(subs) = n
  BY <1>1, <1>7, RequestsSaid
<1>11. /\ Speaks(toDevice', (r \o subs) \o queries, Requests)
       /\ queries \in Seq(Messages(Requests)) /\ Len(queries) = n
  BY <1>1, <1>2, <1>8, <1>10, RequestsSaid, Zenon
<1>12. r \in Seq(Messages(Requests))
  BY FramesAreSequences, SaidIsSeq, Zenon
<1> DEFINE more == subs \o queries
           T == Messages(Requests)
<1> HIDE DEF T
<1>13. (r \o subs) \o queries = r \o more
  BY <1>10, <1>11, <1>12, JoinsAssociate DEF T
<1>14. /\ more \in Seq(T) /\ Len(more) = 2 * n
       /\ \A i \in 1 .. n : more[i] = subs[i] /\ more[n + i] = queries[i]
  BY <1>1, <1>10, <1>11, Joined DEF T
<1> HIDE DEF more
<1>15. Requesting(more, entries, nextHandle)
  BY <1>9, <1>14, Zenon DEF Requesting, n
<1>16. more \in Seq(Messages(Requests)) /\ Speaks(toDevice', r \o more, Requests)
  BY <1>11, <1>13, <1>14, Zenon DEF T
<1> QED
  BY <1>15, <1>16, Zenon

LEMMA RequestFields ==
  ASSUME NEW def, NEW g, NEW handle, NEW s, s = AddSubscriptionCommand(def, g),
         NEW q, q = GetValueCommand(def, handle)
  PROVE  /\ s.handle = g /\ s.paramCount = 5 /\ s.ono = SubscriptionManager
         /\ s.data = Octets!DataFromOnoForSubscription(def.ono)
         /\ q.handle = handle /\ q.paramCount = 0 /\ q.ono = def.ono /\ q.defLevel = def.level
         /\ q.index = def.getter
BY DEF AddSubscriptionCommand, GetValueCommand, CommandMessage

LEMMA RequestedHandles ==
  ASSUME NEW entries, Len(entries) \in Nat, NEW more, NEW next \in Nat,
         Requesting(more, entries, next)
  PROVE  /\ \A j \in 1 .. Len(more) : more[j].handle = next + j - 1
         /\ \A j \in 1 .. Len(more) : j \notin 1 .. Len(entries) =>
              /\ j - Len(entries) \in 1 .. Len(entries)
              /\ Len(entries) + (j - Len(entries)) = j
<1>1. PICK n : n = Len(entries)
  OBVIOUS
<1>2. /\ n \in Nat /\ Len(more) = 2 * n
      /\ \A i \in 1 .. n :
           /\ more[i] = AddSubscriptionCommand(entries[i].def, next + i - 1)
           /\ more[n + i] = GetValueCommand(entries[i].def, next + n + i - 1)
  BY <1>1, Zenon DEF Requesting
<1>3. \A i \in 1 .. n :
        more[i].handle = next + i - 1 /\ more[n + i].handle = next + n + i - 1
  <2> SUFFICES ASSUME NEW i \in 1 .. n
               PROVE  more[i].handle = next + i - 1 /\ more[n + i].handle = next + n + i - 1
    OBVIOUS
  <2>1. PICK s, q, g, h :
          s = more[i] /\ q = more[n + i] /\ g = next + i - 1 /\ h = next + n + i - 1
    OBVIOUS
  <2>2. s = AddSubscriptionCommand(entries[i].def, g) /\ q = GetValueCommand(entries[i].def, h)
    BY <1>2, <2>1, Zenon
  <2>3. s.handle = g /\ q.handle = h
    BY ONLY <2>2, RequestFields
  <2> QED
    BY ONLY <2>1, <2>3, Zenon
<1>4. ASSUME NEW j \in 1 .. 2 * n
      PROVE  /\ more[j].handle = next + j - 1
             /\ j \notin 1 .. n => j - n \in 1 .. n /\ n + (j - n) = j
  <2>1. \/ j \in 1 .. n
        \/ j - n \in 1 .. n /\ n + (j - n) = j /\ next + n + (j - n) - 1 = next + j - 1
    BY <1>2
  <2>2. CASE j \in 1 .. n
    BY <1>3, <2>2
  <2>3. CASE j - n \in 1 .. n /\ n + (j - n) = j /\ next + n + (j - n) - 1 = next + j - 1
    <3>1. more[n + (j - n)].handle = next + n + (j - n) - 1
      BY <1>3, <2>3
    <3> QED
      BY <2>3, <3>1, Zenon
  <2> QED
    BY <2>1, <2>2, <2>3
<1> QED
  BY <1>1, <1>2, <1>4, Zenon

(* From nothing pending, all are asked for.                                *)
LEMMA AllAsked ==
  ASSUME HandlesOK, setup' = setup, NEW entries, tracked' = entries, AreProper(entries),
         NEW gets, DOMAIN gets = {}, SubscribeAndQuery(entries, gets),
         NEW more \in Seq(Messages(Requests)), Requesting(more, entries, nextHandle),
         NEW a
  PROVE  Serves(more, a)'
<1>1. PICK n, next : n = Len(entries) /\ next = nextHandle
  OBVIOUS
<1>2. /\ n \in Nat /\ next \in Nat /\ \A i \in 1 .. n : IsProperty(entries[i].def)
  BY <1>1, ProperEntries DEF HandlesOK
<1>3. PICK then : then = pendingGets'
  OBVIOUS
<1>4. /\ DOMAIN then = next + n .. next + 2 * n - 1
      /\ \A h \in DOMAIN then : then[h] = entries[h - next - n + 1].def.ono
  BY <1>1, <1>3 DEF SubscribeAndQuery
<1>5. \A h \in DOMAIN then :
        h - next - n + 1 \in 1 .. n /\ then[h] = entries[h - next - n + 1].def.ono
  BY <1>2, <1>4
<1>6. ASSUME NEW i \in 1 .. n
      PROVE  /\ next + n + i - 1 \in DOMAIN then
             /\ then[next + n + i - 1] = entries[i].def.ono
  <2>1. /\ next + n + i - 1 \in next + n .. next + 2 * n - 1
        /\ (next + n + i - 1) - next - n + 1 = i
    BY <1>2
  <2> QED
    BY <1>4, <2>1, Zenon
<1>7. /\ Len(more) = 2 * n
      /\ \A i \in 1 .. n :
           /\ more[i] = AddSubscriptionCommand(entries[i].def, next + i - 1)
           /\ more[n + i] = GetValueCommand(entries[i].def, next + n + i - 1)
  BY <1>1, Zenon DEF Requesting
<1>8. \A k \in 1 .. Len(more) : more[k] \in Messages(Requests)
  OBVIOUS
<1>9. ASSUME NEW i \in 1 .. n, NEW def, def = entries[i].def
      PROVE  /\ more[i] \in Subscribing(def.ono) /\ more[i].paramCount # 0
             /\ more[n + i] \in Asking(def, then) /\ Queries(more[n + i], def, then)
  <2>1. PICK s, q, g, h :
          s = more[i] /\ q = more[n + i] /\ g = next + i - 1 /\ h = next + n + i - 1
    OBVIOUS
  <2>2. s = AddSubscriptionCommand(def, g) /\ q = GetValueCommand(def, h)
    BY <1>7, <1>9, <2>1, Zenon
  <2>3. /\ s.handle = g /\ s.paramCount = 5 /\ s.ono = SubscriptionManager
        /\ s.data = Octets!DataFromOnoForSubscription(def.ono)
        /\ q.handle = h /\ q.paramCount = 0 /\ q.ono = def.ono /\ q.defLevel = def.level
        /\ q.index = def.getter
    BY ONLY <2>2, RequestFields
  <2>4. h \in DOMAIN then /\ then[h] = def.ono
    BY <1>6, <1>9, <2>1, Zenon
  <2>5. i \in 1 .. Len(more) /\ n + i \in 1 .. Len(more)
    BY <1>2, <1>7
  <2>6. s \in Messages(Requests) /\ q \in Messages(Requests)
    BY <1>8, <2>1, <2>5, Zenon
  <2>7. def.ono \in Long
    <3>1. IsProperty(def)
      BY <1>2, <1>9, Zenon
    <3> QED
      BY <3>1, PropertyIsTarget, NumbersFit, Zenon DEF IsTarget
  <2>8. U32At(s.data, 0) = def.ono
    BY <2>3, <2>7, SubscriptionNames, Zenon
  <2>9. s \in Subscribing(def.ono)
    BY <2>3, <2>6, <2>8, Zenon DEF Subscribing
  <2>10. q \in Asking(def, then) /\ Queries(q, def, then)
    BY <2>3, <2>4, <2>6, Zenon DEF Asking, Queries
  <2>11. s.paramCount # 0
    BY ONLY <2>3
  <2> QED
    BY <2>1, <2>9, <2>10, <2>11, Zenon
<1>10. ASSUME NEW i \in 1 .. n, NEW def, def = entries[i].def
       PROVE  IsAsked(def, more, then, subscribed')
  <2>1. PICK subs, T : subs = subscribed' /\ T = Messages(Requests)
    OBVIOUS
  <2>2. more \in Seq(T)
    BY <2>1
  <2>3. more[i] \in Subscribing(def.ono) /\ more[n + i] \in Asking(def, then)
    BY <1>9, <1>10
  <2>4. AfterIn(more, Asking(def, then), Subscribing(def.ono), def.ono \in subs)
    BY <1>2, <1>7, <2>2, <2>3, AfterMade
  <2> QED
    BY <2>1, <2>4, Zenon DEF IsAsked
<1>11. \A i \in 1 .. n : KnowsOf(entries[i].object, entries[i].def, more, a)'
  <2> SUFFICES ASSUME NEW i \in 1 .. n, NEW object, object = entries[i].object,
                      NEW def, def = entries[i].def
               PROVE  KnowsOf(object, def, more, a)'
    OBVIOUS
  <2>1. IsAsked(def, more, pendingGets', subscribed')
    BY <1>3, <1>10, Zenon
  <2> QED
    BY <2>1, SameKnows
<1>12. (\A h \in DOMAIN pendingGets : TrackedAt(pendingGets[h]) # {})'
  <2> SUFFICES ASSUME NEW h \in DOMAIN then PROVE TrackedAt(then[h])' # {}
    BY <1>3
  <2>1. PICK i : i = h - next - n + 1
    OBVIOUS
  <2>2. i \in 1 .. n /\ then[h] = entries[i].def.ono
    BY <1>5, <2>1, Zenon
  <2>3. TrackedAt(then[h])' = {j \in 1 .. Len(entries) : entries[j].def.ono = then[h]}
    BY DEF TrackedAt
  <2> QED
    BY <1>1, <2>2, <2>3, Zenon
<1>13. (\A k \in 1 .. Len(more) :
          more[k].paramCount = 0 =>
            \E i \in 1 .. Len(tracked) : Queries(more[k], tracked[i].def, pendingGets))'
  <2> SUFFICES ASSUME NEW k \in 1 .. Len(more), more[k].paramCount = 0
               PROVE  \E i \in 1 .. n : Queries(more[k], entries[i].def, then)
    BY <1>1, <1>3
  <2>1. k \notin 1 .. n
    BY <1>9
  <2>2. /\ Len(entries) \in Nat /\ k \notin 1 .. Len(entries)
    BY <1>1, <1>2, <2>1
  <2>3. PICK i : i = k - Len(entries)
    OBVIOUS
  <2>4. i \in 1 .. Len(entries) /\ Len(entries) + i = k
    BY <1>1, <1>2, <2>2, <2>3, RequestedHandles
  <2> QED
    BY <1>1, <1>9, <2>4, Zenon
<1> QED
  BY <1>1, <1>11, <1>12, <1>13, Zenon DEF Serves

-----------------------------------------------------------------------------
(* The steps that ask.                                                     *)

(* A session that has nothing to remember.                                 *)
LEMMA SessionAnew ==
  ASSUME NEW r, NEW a, Speaks(toDevice', r, Requests), Speaks(toController', a, Frames),
         linked', state' # "Disconnected", Numbered(r, a, nextHandle'),
         Greeting' => Greets(r, a)', Serving' => Serves(r, a)'
  PROVE  SessionInv'
<1>1. Session(r, a)'
  BY Zenon DEF Session
<1> QED
  BY <1>1, SessionGoesOn, Zenon

LEMMA NothingSaid ==
  ASSUME NEW r, NEW a, Says(r, a), Session(r, a), ~ linked
  PROVE  /\ r = << >> /\ a = << >> /\ toDevice = << >> /\ toController = << >>
         /\ subscribed = {} /\ DOMAIN pendingGets = {}
<1>1. /\ toDevice = << >> /\ toController = << >> /\ subscribed = {} /\ DOMAIN pendingGets = {}
      /\ Speaks(toDevice, r, Requests) /\ Speaks(toController, a, Frames)
  BY SessionHas, Zenon
<1>2. Requests \in SUBSET Frames /\ Frames \in SUBSET Frames
  BY RequestsAreFrames
<1> QED
  BY <1>1, <1>2, NothingIsSaid, Zenon

(* Of a controller of objects it knows,                                    *)
LEMMA ServedStep ==
  ASSUME HandlesOK, TrackedOK, HandlesFit', SessionInv, Established, ~ IsSoundscape
  PROVE  SessionInv'
<1>1. PICK r, a : Says(r, a) /\ Session(r, a)
  BY Zenon DEF SessionInv
<1>2. /\ ~ linked /\ linked' = TRUE /\ SubscribeAndQuery(tracked, pendingGets)
      /\ setup' = setup /\ tracked' = tracked /\ subscribed' = subscribed
      /\ toController' = toController
  BY DEF Established, appVars
<1>3. /\ r = << >> /\ a = << >> /\ toController = << >>
      /\ subscribed = {} /\ DOMAIN pendingGets = {}
  <2>1. ~ linked
    BY <1>2
  <2> QED
    BY ONLY <1>1, <2>1, NothingSaid
<1>4. Speaks(toDevice, r, Requests) /\ Speaks(toController, a, Frames)
  BY <1>1, SessionHas
<1>5. PICK entries, gets : entries = tracked /\ gets = pendingGets
  OBVIOUS
<1>6. AreProper(entries) /\ SubscribeAndQuery(entries, gets) /\ DOMAIN gets = {}
  BY <1>2, <1>3, <1>5 DEF TrackedOK
<1>7. PICK more \in Seq(Messages(Requests)) :
        Requesting(more, entries, nextHandle) /\ Speaks(toDevice', r \o more, Requests)
  BY <1>4, <1>6, Requested
<1>8. r \o more = more
  BY <1>3
<1>9. Serves(more, a)'
  BY <1>2, <1>5, <1>6, <1>7, AllAsked, Zenon
<1>10. Numbered(more, a, nextHandle')
  <2>1. Len(entries) \in Nat /\ nextHandle \in Nat
    BY <1>6, ProperEntries DEF HandlesOK
  <2>2. \A j \in 1 .. Len(more) : more[j].handle = nextHandle + j - 1
    BY <1>7, <2>1, RequestedHandles
  <2>3. nextHandle' = nextHandle + Len(more)
    BY <1>6, <1>7, Zenon DEF SubscribeAndQuery, Requesting
  <2>4. Numbered(r, a, nextHandle) /\ r \in Seq(Messages(Requests)) /\ a \in Seq(Messages(Frames))
    BY <1>1, SessionHas
  <2>5. Numbered(r \o more, a, nextHandle + Len(more))
    BY <2>1, <2>2, <2>4, NumberedMore
  <2> QED
    BY <1>8, <2>3, <2>5, Zenon
<1>11. state' # "Disconnected"
  BY <1>6 DEF SubscribeAndQuery
<1>12. ~ Greeting'
  BY <1>2 DEF Greeting, IsSoundscape
<1> QED
  BY <1>2, <1>4, <1>7, <1>8, <1>9, <1>10, <1>11, <1>12, SessionAnew, Zenon

(* of one that asks for the GUID,                                          *)
LEMMA GreetedStep ==
  ASSUME HandlesOK, HandlesFit', SessionInv, Established, IsSoundscape
  PROVE  SessionInv'
<1>1. PICK r, a : Says(r, a) /\ Session(r, a)
  BY Zenon DEF SessionInv
<1>2. /\ ~ linked /\ linked' = TRUE /\ AskForGuid /\ state = "Connecting"
      /\ setup' = setup /\ subscribed' = subscribed /\ toController' = toController
  BY DEF Established, appVars
<1>3. /\ r = << >> /\ a = << >> /\ toController = << >>
      /\ subscribed = {} /\ DOMAIN pendingGets = {}
  <2>1. ~ linked
    BY <1>2
  <2> QED
    BY ONLY <1>1, <2>1, NothingSaid
<1>4. Speaks(toDevice, r, Requests) /\ Speaks(toController, a, Frames)
  BY <1>1, SessionHas
<1>5. PICK msg, next : msg = GetValueCommand(GuidDefinition, nextHandle) /\ next = nextHandle
  OBVIOUS
<1>6. /\ toDevice' = toDevice \o GetSerializedData(msg) /\ nextHandle' = next + 1
      /\ state' = state /\ deviceGuid' = NoGuid
      /\ pendingGets' = With(pendingGets, next, GuidDefinition.ono)
  BY <1>2, <1>5, Zenon DEF AskForGuid
<1>7. next \in Nat
  BY <1>5 DEF HandlesOK
<1>8. IsRequest(msg)
  <2>1. nextHandle' \in Nat /\ nextHandle' >= nextHandle
        /\ nextHandle \in nextHandle .. nextHandle' - 1
    BY <1>5, <1>6, <1>7
  <2>2. next \in Long \ {0}
    BY <1>5, <2>1, HandlesOfStep, Zenon
  <2>3. IsTarget(GuidDefinition) /\ GuidDefinition.getter \in 1 .. MaxUint16
    BY GuidIsProperty, PropertyIsTarget, Zenon DEF IsProperty
  <2> QED
    BY <1>5, <2>2, <2>3, CommandsAreRequests, Zenon
<1>9. PICK t : t = << msg >>
  OBVIOUS
<1>10. Speaks(toDevice', t, Requests) /\ msg \in Messages(Requests)
  <2>1. GetSerializedData(msg) \in Requests /\ msg = UnmarshalOcp1Message(GetSerializedData(msg))
    BY <1>8, RequestSays
  <2>2. Speaks(toDevice', Append(r, msg), Requests) /\ msg \in Messages(Requests)
    BY <1>4, <1>6, <2>1, FramesAreSequences, MoreSaid, Zenon
  <2>3. Append(r, msg) = t
    BY <1>3, <1>9
  <2> QED
    BY <2>2, <2>3, Zenon
<1>11. /\ msg.handle = next /\ msg.paramCount = 0 /\ msg.ono = GuidDefinition.ono
       /\ msg.defLevel = GuidDefinition.level /\ msg.index = GuidDefinition.getter
  BY <1>5 DEF GetValueCommand, CommandMessage
<1>12. /\ Len(t) = 1 /\ t[1] = msg /\ \A k \in 1 .. Len(t) : k = 1
       /\ Len(a) = 0 /\ \A k \in 1 .. Len(a) : FALSE
  BY <1>3, <1>9
<1>13. Numbered(t, a, nextHandle')
  <2>1. next \in 0 .. (next + 1) - 1
    BY <1>7
  <2> QED
    BY <1>6, <1>11, <1>12, <2>1, Zenon DEF Numbered
<1>14. PICK gets, ono : gets = pendingGets' /\ ono = GuidDefinition.ono
  OBVIOUS
<1>15. /\ \A h : h \in DOMAIN gets <=> h = next
       /\ gets[next] = ono
  BY <1>3, <1>6, <1>14 DEF With
<1>16. msg \in Asking(GuidDefinition, gets)
  BY <1>10, <1>11, <1>14, <1>15, Zenon DEF Asking
<1>17. Greets(t, a)'
  <2>1. state' = "Connecting" /\ subscribed' = {}
    BY <1>2, <1>3, <1>6
  <2>2. (\A g, h \in DOMAIN pendingGets : g = h)'
    BY <1>14, <1>15
  <2>3. (\A h \in DOMAIN pendingGets : pendingGets[h] = GuidDefinition.ono)'
    BY <1>14, <1>15, Zenon
  <2>4. (\A k \in 1 .. Len(t) : t[k] \in Asking(GuidDefinition, pendingGets))'
    BY <1>12, <1>14, <1>16, Zenon
  <2> QED
    BY <1>12, <2>1, <2>2, <2>3, <2>4, Zenon DEF Greets
<1>18. ~ Serving'
  BY <1>2, <1>6 DEF Serving, IsSoundscape
<1>19. state' # "Disconnected"
  BY <1>2, <1>6
<1> QED
  BY <1>2, <1>4, <1>10, <1>13, <1>17, <1>18, <1>19, SessionAnew, Zenon

(* and of one that hears the GUID, on which it depends what there is.      *)
LEMMA GuidAnswered ==
  ASSUME NEW r, NEW a, Greets(r, a), Says(r, a), Numbered(r, a, nextHandle),
         1 \in 1 .. Len(a), a[1].type = Response, a[1].handle \in DOMAIN pendingGets
  PROVE  /\ r = << >> /\ DOMAIN Without(pendingGets, a[1].handle) = {}
         /\ a[1].data = DataFromString(guid)
         /\ pendingGets[a[1].handle] = GuidDefinition.ono
<1>1. /\ \A g, h \in DOMAIN pendingGets : g = h
      /\ \A h \in DOMAIN pendingGets : pendingGets[h] = GuidDefinition.ono
      /\ \A k \in 1 .. Len(r) : r[k] \in Asking(GuidDefinition, pendingGets)
      /\ a[1].type = KeepAlive \/ a[1].data = DataFromString(guid)
  BY Zenon DEF Greets
<1>2. Response # KeepAlive
  BY MessageTypes
<1>3. \A j \in 1 .. Len(r) : \A k \in 1 .. Len(a) :
        a[k].type = Response => a[k].handle # r[j].handle
  BY NumberedSays
<1>4. \A k \in 1 .. Len(r) : r[k].handle \in DOMAIN pendingGets
  BY <1>1, Zenon DEF Asking
<1>5. \A k \in 1 .. Len(r) : FALSE
  BY <1>1, <1>3, <1>4, Zenon
<1>6. r \in Seq(Messages(Requests))
  BY FramesAreSequences, SaidIsSeq, Zenon DEF Says
<1>7. r = << >>
  BY <1>5, <1>6
<1>8. DOMAIN Without(pendingGets, a[1].handle) = {}
  BY <1>1 DEF Without
<1> QED
  BY <1>1, <1>2, <1>7, <1>8, Zenon

LEMMA AcceptedIsSomething ==
  ASSUME NEW g, IsAcceptedGuid(g)
  PROVE  g # << >>
<1>1. Len(<< >>) = 0 /\ ~ (0 = 8)
  OBVIOUS
<1>2. Len(g) = 8
  BY Zenon DEF IsAcceptedGuid
<1> QED
  BY <1>1, <1>2, Zenon

(* Until then there is one query, and one answer at most.                  *)
LEMMA GuidTaken ==
  ASSUME Hearing, DeviceServes, setup \in Setups, guid \in setup.guids, HandlesOK, TrackedOK',
         HandlesFit', NEW r, NEW a, Says(r, a), Session(r, a), TakeGuid(a[1])
  PROVE  SessionInv'
<1>1. /\ 1 \in 1 .. Len(a) /\ linked /\ state # "Disconnected"
      /\ Speaks(toController', Tail(a), Frames) /\ a \in Seq(Messages(Frames)) /\ a # << >>
      /\ Tail(a) \in Seq(Messages(Frames))
  BY Hears, SessionHas, Zenon DEF Hearing
<1>2. /\ IsSoundscape /\ a[1].type = Response /\ a[1].handle \in DOMAIN pendingGets
      /\ TrackedAt(pendingGets[a[1].handle]) = {}
  BY DEF TakeGuid
<1>3. PICK t : t = Tail(a)
  OBVIOUS
<1>4. /\ Speaks(toDevice, r, Requests) /\ r \in Seq(Messages(Requests))
      /\ Numbered(r, a, nextHandle)
      /\ Greeting => Greets(r, a)
      /\ Serving => Serves(r, a)
  BY SessionHas
<1>5. ~ Serving
  BY <1>2, <1>4, Zenon DEF Serves
<1>6. Greeting <=> RevisionIsKnown
  BY <1>1, <1>2, <1>5, Zenon DEF Greeting, Serving
<1>7. Numbered(r, t, nextHandle)
  BY <1>1, <1>3, <1>4, NumberedTaken
<1>8. linked' /\ setup' = setup /\ (RevisionIsKnown' <=> RevisionIsKnown)
  <2>1. linked' = linked /\ setup' = setup /\ guid' = guid
    BY Zenon DEF Hearing
  <2> QED
    BY <1>1, <2>1, Zenon DEF RevisionIsKnown, IsSoundscape
<1>9. ASSUME Greeting
      PROVE  /\ r = << >> /\ DOMAIN Without(pendingGets, a[1].handle) = {}
             /\ a[1].data = DataFromString(guid)
             /\ pendingGets[a[1].handle] = GuidDefinition.ono
  BY <1>1, <1>2, <1>4, <1>9, GuidAnswered
<1>10. CASE /\ deviceGuid' = DataToString(a[1].data).value
            /\ IsAcceptedGuid(DataToString(a[1].data).value)
            /\ SubscribeAndQuery(tracked', Without(pendingGets, a[1].handle))
  <2>1. PICK entries, gets : entries = tracked' /\ gets = Without(pendingGets, a[1].handle)
    OBVIOUS
  <2>2. AreProper(entries) /\ SubscribeAndQuery(entries, gets)
    BY <1>10, <2>1 DEF TrackedOK
  <2>3. PICK more \in Seq(Messages(Requests)) :
          Requesting(more, entries, nextHandle) /\ Speaks(toDevice', r \o more, Requests)
    BY <1>4, <2>2, Requested
  <2>4. Numbered(r \o more, t, nextHandle')
    <3>1. Len(entries) \in Nat /\ nextHandle \in Nat
      BY <2>2, ProperEntries DEF HandlesOK
    <3>2. \A j \in 1 .. Len(more) : more[j].handle = nextHandle + j - 1
      BY <2>3, <3>1, RequestedHandles
    <3>3. nextHandle' = nextHandle + Len(more)
      BY <2>2, <2>3, Zenon DEF SubscribeAndQuery, Requesting
    <3>4. t \in Seq(Messages(Frames))
      BY <1>1, <1>3
    <3>5. Numbered(r \o more, t, nextHandle + Len(more))
      BY <1>4, <1>7, <2>3, <3>1, <3>2, <3>4, NumberedMore
    <3> QED
      BY <3>3, <3>5, Zenon
  <2>5. ~ Greeting'
    <3>1. \A g : IsAcceptedGuid(g) => g # << >>
      BY AcceptedIsSomething
    <3> QED
      BY <1>10, <3>1, Zenon DEF Greeting, NoGuid
  <2>6. ASSUME Serving' PROVE Serves(r \o more, t)'
    <3>1. RevisionIsKnown'
      BY <2>6 DEF Serving
    <3>2. r = << >> /\ DOMAIN gets = {}
      BY <1>6, <1>8, <1>9, <2>1, <3>1, Zenon
    <3>3. Serves(more, t)'
      BY <1>8, <2>1, <2>2, <2>3, <3>2, AllAsked, Zenon
    <3>4. r \o more = more
      BY <2>3, <3>2
    <3> QED
      BY <3>3, <3>4, Zenon
  <2>7. state' # "Disconnected"
    BY <2>2 DEF SubscribeAndQuery
  <2> QED
    BY <1>1, <1>3, <1>8, <2>3, <2>4, <2>5, <2>6, <2>7, SessionAnew, Zenon
<1>11. CASE /\ ~ /\ pendingGets[a[1].handle] = GuidDefinition.ono
                 /\ DataToString(a[1].data).ok
                 /\ DataToString(a[1].data).value # deviceGuid
                 /\ IsAcceptedGuid(DataToString(a[1].data).value)
            /\ state' = StateAfter(pendingSubs, DOMAIN Without(pendingGets, a[1].handle),
                                   FALSE, TRUE)
            /\ UNCHANGED << deviceGuid, toDevice, nextHandle >>
  <2>1. ~ Greeting
    <3> SUFFICES ASSUME Greeting PROVE FALSE
      OBVIOUS
    <3>1. guid \in Seq(Int)
      BY SetupsAssumption, Zenon
    <3>2. DataToString(a[1].data) = Read(TRUE, guid)
      BY <1>9, <3>1, StringIsRead, Zenon
    <3>3. DataToString(a[1].data).ok /\ DataToString(a[1].data).value = guid
      BY <3>2 DEF Read
    <3>4. IsAcceptedGuid(guid) /\ deviceGuid = NoGuid
      BY <1>2, <1>6, Zenon DEF RevisionIsKnown, Greeting
    <3>5. guid # NoGuid
      BY <3>4, AcceptedIsSomething, Zenon DEF NoGuid
    <3> QED
      BY <1>9, <1>11, <3>3, <3>4, <3>5, Zenon
  <2>2. ~ RevisionIsKnown'
    BY <1>6, <1>8, <2>1, Zenon
  <2>3. ~ Greeting' /\ ~ Serving'
    BY <2>2, Zenon DEF Greeting, Serving
  <2>4. state' # "Disconnected"
    BY <1>1, <1>11, StateStays, Zenon
  <2> QED
    BY <1>1, <1>3, <1>4, <1>7, <1>8, <1>11, <2>3, <2>4, SessionAnew, Zenon
<1>12. tracked' = tracked'
  OBVIOUS
<1> QED
  BY <1>10, <1>11, Zenon DEF TakeGuid

(* A message taken by the controller, of whichever kind.                   *)
LEMMA HearsStep ==
  ASSUME setup \in Setups, guid \in setup.guids, HandlesOK, TrackedOK', HandlesFit',
         SessionInv, DeviceServes, ProcessMessage
  PROVE  SessionInv'
<1>1. PICK r, a : Says(r, a) /\ Session(r, a)
  BY Zenon DEF SessionInv
<1>2. PICK msg : /\ msg = UnmarshalOcp1Message(FirstFrame(toController))
                 /\ TakeNotification(msg) \/ TakeKeepAlive(msg) \/ TakeAcknowledgement(msg)
                      \/ TakeValue(msg) \/ TakeGuid(msg)
  BY DEF ProcessMessage
<1>3. Hearing
  BY DEF ProcessMessage, Hearing, deviceVars
<1>4. msg = a[1]
  BY <1>1, <1>2, <1>3, Hears, Zenon DEF Hearing
<1>5. CASE TakeNotification(msg)
  <2>1. TakeNotification(a[1])
    BY <1>4, <1>5, Zenon
  <2> QED
    BY <1>1, <1>3, <2>1, NotificationHeard
<1>6. CASE TakeKeepAlive(msg)
  <2>1. TakeKeepAlive(a[1])
    BY <1>4, <1>6, Zenon
  <2> QED
    BY <1>1, <1>3, <2>1, BeatHeard
<1>7. CASE TakeAcknowledgement(msg)
  <2>1. TakeAcknowledgement(a[1])
    BY <1>4, <1>7, Zenon
  <2> QED
    BY <1>1, <1>3, <2>1, AcknowledgementHeard
<1>8. CASE TakeValue(msg)
  <2>1. TakeValue(a[1])
    BY <1>4, <1>8, Zenon
  <2> QED
    BY <1>1, <1>3, <2>1, ValueHeard
<1>9. CASE TakeGuid(msg)
  <2>1. TakeGuid(a[1])
    BY <1>4, <1>9, Zenon
  <2> QED
    BY <1>1, <1>3, <2>1, GuidTaken
<1> QED
  BY <1>2, <1>5, <1>6, <1>7, <1>8, <1>9

(* A set, between whatever else is under way.                              *)
LEMMA SetsStep ==
  ASSUME setup \in Setups, HandlesOK, HandlesFit', SessionInv, SetObjectValue
  PROVE  SessionInv'
<1>1. PICK r, a : Says(r, a) /\ Session(r, a)
  BY Zenon DEF SessionInv
<1>2. /\ state = "Connected" /\ linked /\ nextHandle' = nextHandle + 1
      /\ setup' = setup /\ state' = state /\ linked' = linked /\ deviceGuid' = deviceGuid
      /\ tracked' = tracked /\ pendingGets' = pendingGets /\ heard' = heard
      /\ toController' = toController /\ guid' = guid /\ held' = held /\ subscribed' = subscribed
  BY DEF SetObjectValue, deviceVars
<1>3. Stays
  BY <1>2 DEF Stays
<1>4. PICK msg : /\ IsRequest(msg) /\ msg.handle = nextHandle /\ msg.paramCount = 1
                 /\ toDevice' = toDevice \o GetSerializedData(msg)
  <2> DEFINE Variant(object, value) ==
               IF setup.kind = "amp" THEN AmpSetVariant(object[1], value) ELSE value
  <2>1. PICK object \in setup.targets, value \in setup.values :
          LET def == TargetDefinition(object)
              data == ToParamData(Variant(object, value), def.type).value
          IN  /\ def # NoDefinition
              /\ toDevice' = toDevice \o GetSerializedData(SetValueCommand(def, nextHandle, data))
    BY Zenon DEF SetObjectValue
  <2> DEFINE def == TargetDefinition(object)
             data == ToParamData(Variant(object, value), def.type).value
  <2>2. IsTarget(def) /\ IsSetValue(Variant(object, value))
    BY <2>1, SetIsTarget
  <2>3. IsData(data)
    <3> HIDE DEF Variant
    <3>1. def.type \in DataTypes
      BY <2>2, Zenon DEF IsTarget
    <3> QED
      BY <2>2, <3>1, ParamsAreData, Zenon
  <2>4. toDevice' = toDevice \o GetSerializedData(SetValueCommand(def, nextHandle, data))
    BY <2>1, Zenon
  <2>5. nextHandle \in Nat /\ nextHandle' = nextHandle + 1
    BY <1>2 DEF HandlesOK
  <2>6. nextHandle' \in Nat /\ nextHandle' >= nextHandle
        /\ nextHandle \in nextHandle .. nextHandle' - 1
    BY <2>5
  <2>7. nextHandle \in Long \ {0}
    BY <2>6, HandlesOfStep, Zenon
  <2> HIDE DEF def, data
  <2>8. IsRequest(SetValueCommand(def, nextHandle, data))
    BY <2>2, <2>3, <2>7, CommandsAreRequests, Zenon
  <2>9. /\ SetValueCommand(def, nextHandle, data).handle = nextHandle
        /\ SetValueCommand(def, nextHandle, data).paramCount = 1
    BY DEF SetValueCommand, CommandMessage
  <2> QED
    BY <2>4, <2>8, <2>9, Zenon
<1>5. /\ Speaks(toDevice, r, Requests) /\ Speaks(toController, a, Frames)
      /\ r \in Seq(Messages(Requests)) /\ a \in Seq(Messages(Frames))
      /\ Numbered(r, a, nextHandle)
      /\ Greeting => Greets(r, a)
      /\ Serving => Serves(r, a)
  BY <1>1, SessionHas
<1>6. PICK more, t : more = << msg >> /\ t = Append(r, msg)
  OBVIOUS
<1>7. Speaks(toDevice', t, Requests) /\ msg \in Messages(Requests)
  <2>1. GetSerializedData(msg) \in Requests /\ msg = UnmarshalOcp1Message(GetSerializedData(msg))
    BY <1>4, RequestSays
  <2> QED
    BY <1>4, <1>5, <1>6, <2>1, FramesAreSequences, MoreSaid, Zenon
<1>8. /\ more \in Seq(Messages(Requests)) /\ Len(more) = 1 /\ more[1] = msg
      /\ \A j \in 1 .. Len(more) : j = 1
  BY <1>6, <1>7
<1>9. t = r \o more
  <2>1. PICK T : T = Messages(Requests)
    OBVIOUS
  <2> QED
    BY <1>5, <1>6, <1>7, <2>1
<1>10. Numbered(t, a, nextHandle')
  <2>1. nextHandle \in Nat /\ nextHandle + 1 - 1 = nextHandle
    BY DEF HandlesOK
  <2>2. \A j \in 1 .. Len(more) : more[j].handle = nextHandle + j - 1
    BY <1>4, <1>8, <2>1, Zenon
  <2>3. Numbered(r \o more, a, nextHandle + Len(more))
    BY <1>5, <1>8, <2>1, <2>2, NumberedMore
  <2> QED
    BY <1>2, <1>8, <1>9, <2>3, Zenon
<1>11. ~ Greeting
  BY <1>2, <1>5 DEF Greets
<1>12. ASSUME Serving PROVE Serves(t, a)'
  <2>1. /\ \A h \in DOMAIN pendingGets : TrackedAt(pendingGets[h]) # {}
        /\ \A k \in 1 .. Len(r) :
             r[k].paramCount = 0 =>
               \E i \in 1 .. Len(tracked) : Queries(r[k], tracked[i].def, pendingGets)
    BY <1>5, <1>12, Zenon DEF Serves
  <2>2. \A h \in DOMAIN pendingGets' :
          h \in DOMAIN pendingGets /\ pendingGets'[h] = pendingGets[h]
    BY <1>2, Zenon
  <2>3. \A k \in 1 .. Len(t) :
          t[k].paramCount = 0 =>
            \E i \in 1 .. Len(tracked) : Queries(t[k], tracked[i].def, pendingGets)
    <3>1. \A k \in 1 .. Len(t) :
            (k \in 1 .. Len(r) /\ t[k] = r[k]) \/ t[k] = msg
      <4>1. /\ t[Len(r) + 1] = msg /\ \A k \in 1 .. Len(r) : t[k] = r[k]
            /\ \A k \in 1 .. Len(t) : k \in 1 .. Len(r) \/ k = Len(r) + 1
        BY <1>5, <1>6, <1>7, AppendOf
      <4> QED
        BY ONLY <4>1, Zenon
    <3>2. ~ (msg.paramCount = 0)
      BY <1>4
    <3> QED
      BY <2>1, <3>1, <3>2, Zenon
  <2>4. ASSUME NEW i \in 1 .. Len(tracked), NEW object, object = tracked[i].object,
               NEW def, def = tracked[i].def
        PROVE  \/ IsAsked(def, t, pendingGets', subscribed')
               \/ IsTold(object, def, a, pendingGets', subscribed', Held(def)', heard')
    <3>1. \/ IsAsked(def, r, pendingGets, subscribed)
          \/ IsTold(object, def, a, pendingGets, subscribed, Held(def), heard)
      BY <1>5, <1>12, <2>4, Zenon DEF Serves, KnowsOf
    <3>2. IsAsked(def, r, pendingGets, subscribed) => IsAsked(def, t, pendingGets, subscribed)
      BY <1>5, <1>8, <1>9, AskedMore, Zenon
    <3>3. Held(def)' = Held(def)
      BY <1>2, SameHeld, Zenon
    <3> QED
      BY <1>2, <3>1, <3>2, <3>3, Zenon
  <2>5. \A i \in 1 .. Len(tracked) : \A object, def :
          object = tracked[i].object /\ def = tracked[i].def =>
            \/ IsAsked(def, t, pendingGets', subscribed')
            \/ IsTold(object, def, a, pendingGets', subscribed', Held(def)', heard')
    BY <2>4
  <2> QED
    BY <1>2, <2>1, <2>2, <2>3, <2>5, ServesStep, Zenon
<1> QED
  BY <1>2, <1>3, <1>5, <1>7, <1>10, <1>11, <1>12, SessionStep, Zenon

-----------------------------------------------------------------------------
(* The session, at first, after each step, and when all is quiet.          *)

(* Nothing is under way at first.                                          *)
LEMMA InitSession == Init => SessionInv
<1> SUFFICES ASSUME Init PROVE SessionInv
  OBVIOUS
<1>1. /\ ~ linked /\ subscribed = {} /\ DOMAIN pendingGets = {}
      /\ toDevice = << >> /\ toController = << >>
  BY DEF Init, EmptyMap
<1>2. ~ Greeting /\ ~ Serving
  BY <1>1, Zenon DEF Greeting, Serving
<1>3. Len(<< >>) = 0 /\ 1 .. 0 = {}
  OBVIOUS
<1>4. Numbered(<< >>, << >>, nextHandle)
  BY <1>3, Zenon DEF Numbered
<1>5. Session(<< >>, << >>)
  BY <1>1, <1>2, <1>4, Zenon DEF Session
<1>6. Speaks(<< >>, << >>, Requests) /\ Speaks(<< >>, << >>, Frames)
  BY FramesAreSequences, SaidOnce, Zenon DEF Speaks, IsSaying
<1>7. Says(<< >>, << >>)
  BY <1>1, <1>6, Zenon DEF Says
<1> QED
  BY <1>5, <1>7, Zenon DEF SessionInv

(* Each step keeps the session.                                            *)
LEMMA NextSession ==
  ASSUME Inv, Inv', FramedInv, HandlesFit, HandlesFit', DeviceServes, DeviceServes',
         Serving => Answering, SessionInv, [Next]_vars
  PROVE  SessionInv'
<1>0. /\ setup \in Setups /\ guid \in setup.guids /\ HandlesOK /\ TrackedOK /\ TrackedOK'
      /\ HeldOK
  BY Zenon DEF Inv, KnownInv, FramedInv, Framed
<1>1. CASE Configure
  <2>1. CASE SetActiveRemoteObjects \/ SetAmpType \/ TrackObject
    <3>1. state = "Disconnected"
      BY <2>1 DEF SetActiveRemoteObjects, SetAmpType, TrackObject
    <3>2. ~ linked
      BY <3>1, Zenon DEF SessionInv, Session
    <3>3. UNCHANGED << linked, subscribed, pendingGets, toDevice, toController >>
      BY <1>1 DEF Configure, deviceVars
    <3> QED
      BY <3>2, <3>3, StillUnlinked
  <2>2. CASE SetDeviceIOSize
    <3>1. /\ setup' = setup /\ state' = state /\ linked' = linked /\ guid' = guid
          /\ deviceGuid' = deviceGuid /\ tracked' = tracked /\ pendingGets' = pendingGets
          /\ nextHandle' = nextHandle /\ heard' = heard /\ toDevice' = toDevice
          /\ toController' = toController /\ subscribed' = subscribed /\ held' = held
      BY <1>1, <2>2 DEF Configure, deviceVars, appVars, SetDeviceIOSize
    <3> QED
      BY <3>1, SessionSame, Zenon
  <2> QED
    BY <1>1, <2>1, <2>2 DEF Configure
<1>2. CASE Connect
  <2>1. state = "Disconnected"
    BY <1>2 DEF Connect
  <2>2. ~ linked
    BY <2>1, Zenon DEF SessionInv, Session
  <2>3. UNCHANGED << linked, subscribed, pendingGets, toDevice, toController >>
    BY <1>2 DEF Connect, deviceVars
  <2> QED
    BY <2>2, <2>3, StillUnlinked
<1>3. CASE Established
  <2>1. CASE IsSoundscape
    BY <1>0, <1>3, <2>1, GreetedStep
  <2>2. CASE ~ IsSoundscape
    BY <1>0, <1>3, <2>2, ServedStep
  <2> QED
    BY <2>1, <2>2
<1>4. CASE ConnectionLost \/ Disconnect
  <2>1. /\ ~ linked' /\ subscribed' = {} /\ DOMAIN pendingGets' = {}
        /\ toDevice' = << >> /\ toController' = << >>
    BY <1>4 DEF ConnectionLost, Disconnect, Cut, EmptyMap
  <2> QED
    BY <2>1, Unlinked
<1>5. CASE DeviceTakes
  BY <1>0, <1>5, TakesStep
<1>6. CASE DeviceReports
  BY <1>0, <1>6, ReportStep
<1>7. CASE DeviceBeats
  BY <1>7, BeatStep
<1>8. CASE ProcessMessage
  BY <1>0, <1>8, HearsStep
<1>9. CASE SetObjectValue
  BY <1>0, <1>9, SetsStep
<1>10. ASSUME \/ \E type \in setup.reads : ReadAs(type)
              \/ UNCHANGED vars
       PROVE  SessionInv'
  <2>1. /\ setup' = setup /\ state' = state /\ linked' = linked /\ guid' = guid
        /\ deviceGuid' = deviceGuid /\ tracked' = tracked /\ pendingGets' = pendingGets
        /\ nextHandle' = nextHandle /\ heard' = heard /\ toDevice' = toDevice
        /\ toController' = toController /\ subscribed' = subscribed /\ held' = held
    BY <1>10 DEF ReadAs, controllerVars, deviceVars, vars, appVars
  <2> QED
    BY <2>1, SessionSame, Zenon
<1> QED
  BY <1>1, <1>2, <1>3, <1>4, <1>5, <1>6, <1>7, <1>8, <1>9, <1>10 DEF Next

(* When nothing is under way, every object was heard.                      *)
LEMMA QuietIsHeard ==
  ASSUME SessionInv
  PROVE  ConnectedMeansHeard
<1> SUFFICES ASSUME Quiet, RevisionIsKnown, NEW i \in 1 .. Len(tracked),
                    NEW object, object = tracked[i].object, NEW def, def = tracked[i].def
             PROVE  /\ def.ono \in subscribed /\ object \in DOMAIN heard /\ heard[object].ok
                    /\ Essence(def, heard[object].value) =
                         Essence(def, Decoded(object, Held(def)).value)
  BY Zenon DEF ConnectedMeansHeard
<1>1. PICK r, a : Says(r, a) /\ Session(r, a)
  BY Zenon DEF SessionInv
<1>2. state = "Connected" /\ linked /\ toDevice = << >> /\ toController = << >>
  BY DEF Quiet
<1>3. r = << >> /\ a = << >>
  <2>1. Speaks(<< >>, r, Requests) /\ Speaks(<< >>, a, Frames)
    BY <1>1, <1>2, Zenon DEF Says
  <2>2. Requests \in SUBSET Frames /\ Frames \in SUBSET Frames
    BY RequestsAreFrames
  <2> QED
    BY <2>1, <2>2, NothingIsSaid, Zenon
<1>4. ~ Greeting
  BY <1>1, <1>2 DEF Session, Greets
<1>5. Serving
  BY <1>2, <1>4, Zenon DEF Greeting, Serving
<1>6. KnowsOf(object, def, r, a)
  BY <1>1, <1>5, Zenon DEF Session, Serves
<1>7. 1 .. Len(<< >>) = {}
  OBVIOUS
<1>8. ~ IsAsked(def, r, pendingGets, subscribed)
  BY <1>3, <1>7, Zenon DEF IsAsked, AfterIn
<1>9. IsTold(object, def, a, pendingGets, subscribed, Held(def), heard)
  BY <1>6, <1>8, Zenon DEF KnowsOf
<1>10. /\ def.ono \in subscribed /\ object \in DOMAIN heard
       /\ Agrees(object, def, Held(def), heard[object])
  BY <1>3, <1>7, <1>9, Zenon DEF IsTold, LastIn
<1> QED
  BY <1>10, Zenon DEF Agrees

-----------------------------------------------------------------------------
(* A query is answered with the value, and with more for those who look.   *)

(* The first n bytes make the number.                                      *)
LEMMA SameNumber ==
  ASSUME NEW n \in Nat, NEW d, NEW e, \A i \in 1 .. n : d[i] \in Int /\ e[i] = d[i]
  PROVE  NumberIn(n, d) = NumberIn(n, e)
<1>1. PICK u : RunsTo(ByteSize, u, n, d) /\ NumberOf(ByteSize, n, d) = u[n]
  BY ByteSizeIsPositive, NumberIsDefined
<1>2. PICK v : RunsTo(ByteSize, v, n, e) /\ NumberOf(ByteSize, n, e) = v[n]
  <2>1. \A i \in 1 .. n : e[i] \in Int
    OBVIOUS
  <2> QED
    BY <2>1, ByteSizeIsPositive, NumberIsDefined
<1> DEFINE S == {i \in Nat : i <= n => u[i] = v[i]}
<1>3. 0 \in S
  BY <1>1, <1>2 DEF RunsTo
<1>4. ASSUME NEW i \in S PROVE i + 1 \in S
  <2>1. i \in Nat /\ i + 1 \in Nat
    OBVIOUS
  <2> SUFFICES ASSUME i + 1 <= n PROVE u[i + 1] = v[i + 1]
    BY <2>1
  <2>2. i \in 0 .. n - 1 /\ i + 1 \in 1 .. n /\ i <= n
    BY <2>1
  <2>3. u[i + 1] = u[i] * ByteSize + d[i + 1] /\ v[i + 1] = v[i] * ByteSize + e[i + 1]
    BY <1>1, <1>2, <2>2, Zenon DEF RunsTo
  <2>4. u[i] = v[i] /\ d[i + 1] = e[i + 1]
    BY <2>2, Zenon
  <2> QED
    BY <2>3, <2>4, Zenon
<1> HIDE DEF S
<1>5. n \in S
  BY <1>3, <1>4, SetInduction, Zenon
<1>6. u[n] = v[n]
  BY <1>5 DEF S
<1> QED
  BY <1>1, <1>2, <1>6, BytesAreDigits, Zenon

(* A reader that finds enough of them does not look at the rest.           *)
LEMMA SameReading ==
  ASSUME NEW n \in Nat, NEW d \in Seq(Int), NEW e \in Seq(Int), n <= Len(d), Len(d) <= Len(e),
         \A i \in 1 .. Len(d) : e[i] = d[i]
  PROVE  ReadUnsigned(n, e) = ReadUnsigned(n, d) /\ ReadSigned(n, e) = ReadSigned(n, d)
<1>1. Len(d) >= n /\ Len(e) >= n
  OBVIOUS
<1>2. \A i \in 1 .. n : d[i] \in Int /\ e[i] = d[i]
  OBVIOUS
<1>3. NumberIn(n, d) = NumberIn(n, e)
  BY <1>2, SameNumber, Zenon
<1> QED
  BY <1>1, <1>3, Zenon DEF ReadUnsigned, ReadSigned

(* A value that is neither a text nor a position is read from its first    *)
(* bytes.                                                                  *)
LEMMA SameVariant ==
  ASSUME NEW d \in Seq(Int), NEW e \in Seq(Int), 1 < Len(d), Len(d) <= Len(e),
         \A i \in 1 .. Len(d) : e[i] = d[i],
         NEW type, type \notin {"STRING", "BLOB", "DB_POSITION"}, VariantFromData(d, type).ok
  PROVE  VariantFromData(e, type) = VariantFromData(d, type)
<1>1. \A t, r : FromRead(t, r).ok = r.ok
  BY DEF FromRead, Read
<1>2. \A n \in Nat : Len(d) < n => ~ ReadUnsigned(n, d).ok /\ ~ ReadSigned(n, d).ok
  BY DEF ReadUnsigned, ReadSigned, Read
<1>3. ASSUME NEW n \in Nat, ReadUnsigned(n, d).ok
      PROVE  ReadUnsigned(n, e) = ReadUnsigned(n, d)
  BY <1>2, <1>3, SameReading
<1>4. ASSUME NEW n \in Nat, ReadSigned(n, d).ok
      PROVE  ReadSigned(n, e) = ReadSigned(n, d)
  BY <1>2, <1>4, SameReading
<1>5. type # "BOOLEAN"
  <2> SUFFICES ASSUME type = "BOOLEAN" PROVE FALSE
    OBVIOUS
  <2>1. VariantFromData(d, type) = FromRead(type, DataToBool(d))
    BY DEF VariantFromData
  <2>2. Len(d) # 1
    OBVIOUS
  <2>3. \A x, y : Read(x, y).ok = x
    BY DEF Read
  <2>4. ~ DataToBool(d).ok
    BY <2>2, <2>3, Zenon DEF DataToBool
  <2> QED
    BY <1>1, <2>1, <2>4, Zenon
<1>6. 1 \in Nat /\ 2 \in Nat /\ 4 \in Nat /\ 8 \in Nat
  OBVIOUS
<1>7. CASE type \in NumberTypes
  <2>1. ASSUME NEW n \in {1, 2, 4, 8},
               \/ \A x : VariantFromData(x, type) = FromRead(type, ReadUnsigned(n, x))
               \/ \A x : VariantFromData(x, type) = FromRead(type, ReadSigned(n, x))
        PROVE  VariantFromData(e, type) = VariantFromData(d, type)
    <3>1. n \in Nat
      OBVIOUS
    <3>2. CASE \A x : VariantFromData(x, type) = FromRead(type, ReadUnsigned(n, x))
      <4>1. /\ VariantFromData(d, type) = FromRead(type, ReadUnsigned(n, d))
            /\ VariantFromData(e, type) = FromRead(type, ReadUnsigned(n, e))
        BY ONLY <3>2
      <4>2. ReadUnsigned(n, d).ok
        BY ONLY VariantFromData(d, type).ok, <1>1, <4>1
      <4>3. ReadUnsigned(n, e) = ReadUnsigned(n, d)
        BY ONLY <1>3, <3>1, <4>2
      <4> QED
        BY ONLY <4>1, <4>3
    <3>3. CASE \A x : VariantFromData(x, type) = FromRead(type, ReadSigned(n, x))
      <4>1. /\ VariantFromData(d, type) = FromRead(type, ReadSigned(n, d))
            /\ VariantFromData(e, type) = FromRead(type, ReadSigned(n, e))
        BY ONLY <3>3
      <4>2. ReadSigned(n, d).ok
        BY ONLY VariantFromData(d, type).ok, <1>1, <4>1
      <4>3. ReadSigned(n, e) = ReadSigned(n, d)
        BY ONLY <1>4, <3>1, <4>2
      <4> QED
        BY ONLY <4>1, <4>3
    <3> QED
      BY <2>1, <3>2, <3>3, Zenon
  <2>2. CASE type = "INT32"
    <3>1. \A x : VariantFromData(x, type) = FromRead(type, ReadSigned(4, x))
      BY <2>2 DEF VariantFromData, DataToInt32
    <3> QED
      BY <2>1, <3>1
  <2>3. CASE type = "UINT8"
    <3>1. \A x : VariantFromData(x, type) = FromRead(type, ReadUnsigned(1, x))
      BY <2>3 DEF VariantFromData, DataToUint8
    <3> QED
      BY <2>1, <3>1
  <2>4. CASE type = "UINT16"
    <3>1. \A x : VariantFromData(x, type) = FromRead(type, ReadUnsigned(2, x))
      BY <2>4 DEF VariantFromData, DataToUint16
    <3> QED
      BY <2>1, <3>1
  <2>5. CASE type = "UINT32"
    <3>1. \A x : VariantFromData(x, type) = FromRead(type, ReadUnsigned(4, x))
      BY <2>5 DEF VariantFromData, DataToUint32
    <3> QED
      BY <2>1, <3>1
  <2>6. CASE type = "UINT64"
    <3>1. \A x : VariantFromData(x, type) = FromRead(type, ReadUnsigned(8, x))
      BY <2>6 DEF VariantFromData, DataToUint64
    <3> QED
      BY <2>1, <3>1
  <2>7. CASE type = "FLOAT32"
    <3>1. \A x : VariantFromData(x, type) = FromRead(type, ReadSigned(4, x))
      BY <2>7 DEF VariantFromData, DataToFloat
    <3> QED
      BY <2>1, <3>1
  <2>8. CASE type = "FLOAT64"
    <3>1. \A x : VariantFromData(x, type) = FromRead(type, ReadSigned(8, x))
      BY <2>8 DEF VariantFromData, DataToDouble
    <3> QED
      BY <2>1, <3>1
  <2> QED
    BY <1>7, <2>2, <2>3, <2>4, <2>5, <2>6, <2>7, <2>8 DEF NumberTypes, Integral, Floating
<1>8. CASE type \notin NumberTypes
  <2>1. VariantFromData(d, type) = Read(FALSE, NoVariant)
    BY <1>5, <1>8 DEF VariantFromData, NumberTypes, Integral, Floating
  <2> QED
    BY <2>1 DEF Read
<1> QED
  BY <1>7, <1>8

-----------------------------------------------------------------------------
(* What is read as a text is one at the device, and an object of the       *)
(* application's own is read as what its definition says.                  *)
Matched(object, def) ==
  /\ IsSoundscape /\ object[1] \in Texts => def.type = "STRING"
  /\ setup.kind = "plain" => setup.defs[object[2][1]].type = def.type

MatchedOK == \A i \in 1 .. Len(tracked) : Matched(tracked[i].object, tracked[i].def)

(* A text has the same name as an identifier and as an object,             *)
LEMMA TextNames ==
  ASSUME NEW roi \in Texts
  PROVE  OcaName(roi) = roi /\ roi # "Positioning_SpeakerPosition"
BY DEF Texts, OcaName, Renamed

(* and is one in its group.                                                *)
LEMMA TextsInGroups ==
  ASSUME NEW g \in DS100Groups, NEW name \in DOMAIN g.objects, name \in Texts
  PROVE  g.objects[name][1] = "STRING"
<1>1. TextObject[1] = "STRING" /\ TextSensor[1] = "STRING"
  BY DEF TextObject, TextSensor
<1> QED
  BY <1>1 DEF DS100Groups, Texts,
   FixedObjects, SettingsObjects, MatrixSettingsObjects, ReverbSettingsObjects, StatusObjects,
   ErrorObjects, MatrixInputObjects, MatrixNodeObjects, MatrixOutputObjects,
   PositioningSourceObjects, FunctionGroupObjects, ReverbInputObjects,
   ReverbInputProcessingObjects, CoordinateMappingSettingsObjects, CoordinateMappingObjects,
   SceneObjects, SoundObjectRoutingObjects, PositioningSpeakerObjects

(* So it is at every address of the map.                                   *)
LEMMA KnownIsMatched ==
  ASSUME NEW obj, IsEntry(obj), NEW def, KnownAs(obj, def), obj[1] \in Texts
  PROVE  def.type = "STRING"
<1> DEFINE name == obj[1]
<1>1. OcaName(name) = name /\ name # "Positioning_SpeakerPosition"
  BY TextNames, Zenon
<1>2. name \in ObjectNames
  BY <1>1, EntryFields, Zenon
<1>3. GroupOf(name) \in DS100Groups /\ name \in DOMAIN GroupOf(name).objects
  BY <1>2, GroupOfName, Zenon
<1>4. GroupOf(name).objects[name][1] = "STRING"
  BY <1>3, TextsInGroups, Zenon
<1>5. def = MappedDefinition(name, obj[2])
  BY <1>1, Zenon DEF KnownAs
<1>6. def = OcaObject(name, RecordAt(name, obj[2]), ChannelAt(name, obj[2]))
  BY <1>1, <1>5, MappedObject, Zenon
<1>7. \A r, c : OcaObject(name, r, c).type = GroupOf(name).objects[name][1]
  BY DEF OcaObject, DS100Definition, Definition
<1> QED
  BY <1>4, <1>6, <1>7, Zenon

-----------------------------------------------------------------------------
(* The objects tracked are matched: those of a DS100 come from the map,    *)
LEMMA ActiveAreMatched ==
  ASSUME NEW map, \A obj \in DOMAIN map : IsEntry(obj) /\ KnownAs(obj, map[obj]),
         setup \in Setups, IsSoundscape,
         NEW i \in 1 .. Len(ActiveEntries(map))
  PROVE  Matched(ActiveEntries(map)[i].object, ActiveEntries(map)[i].def)
<1>1. Len(setup.active) \in Nat
  BY SetupIsProper
<1> DEFINE S == {Entry(obj, map[obj]) : obj \in DOMAIN map}
           entries == ActiveEntries(map)
<1>2. entries \in Seq(S)
  BY <1>1, ActiveAreEntries
<1>3. \A e \in S : IsEntry(e.object) /\ KnownAs(e.object, e.def)
  BY DEF Entry
<1> HIDE DEF S, entries
<1>4. i \in 1 .. Len(entries)
  BY DEF entries
<1>5. entries[i] \in S
  BY <1>2, <1>4
<1>6. IsEntry(entries[i].object) /\ KnownAs(entries[i].object, entries[i].def)
  BY <1>3, <1>5, Zenon
<1>7. entries[i].object[1] \in Texts => entries[i].def.type = "STRING"
  BY <1>6, KnownIsMatched, Zenon
<1>8. setup.kind # "plain"
  BY DEF IsSoundscape
<1> QED
  BY <1>7, <1>8, Zenon DEF Matched, entries

(* those of a plain controller from the application, one by one,           *)
LEMMA PlainIsMatched ==
  ASSUME setup' = setup, setup \in Setups, TrackedOK, MatchedOK, TrackObject
  PROVE  MatchedOK'
<1>1. PICK S : tracked \in Seq(S)
  BY DEF TrackedOK, AreProper
<1> DEFINE i == Len(tracked) + 1
           e == Entry(<< "Plain", At(i) >>, setup.defs[i])
<1>2. tracked' = Append(tracked, e) /\ setup.kind = "plain"
  BY Zenon DEF TrackObject
<1>3. ~ IsSoundscape /\ ~ IsSoundscape'
  BY <1>2 DEF IsSoundscape
<1>4. e.object[2][1] = i /\ e.def = setup.defs[i]
  BY DEF Entry, At
<1>5. Matched(e.object, e.def)
  BY <1>3, <1>4, Zenon DEF Matched
<1> HIDE DEF e
<1>6. /\ Len(tracked') = i /\ tracked'[i] = e
      /\ \A j \in 1 .. Len(tracked) : tracked'[j] = tracked[j]
  BY <1>1, <1>2
<1> SUFFICES ASSUME NEW j \in 1 .. Len(tracked')
             PROVE  Matched(tracked[j].object, tracked[j].def)'
  BY DEF MatchedOK
<1>7. Matched(tracked'[j].object, tracked'[j].def)
  <2>1. CASE j = i
    BY <1>5, <1>6, <2>1
  <2>2. CASE j # i
    <3>1. j \in 1 .. Len(tracked)
      BY <1>1, <1>6, <2>2
    <3>2. Matched(tracked[j].object, tracked[j].def)
      BY <3>1 DEF MatchedOK
    <3>3. tracked'[j] = tracked[j]
      BY <1>6, <3>1
    <3> QED
      BY <3>2, <3>3
  <2> QED
    BY <2>1, <2>2
<1> QED
  BY <1>7, <1>3, Zenon DEF Matched

(* and of an amplifier there is nothing to say.                            *)
LEMMA AmpIsMatched == ASSUME setup.kind = "amp" PROVE MatchedOK
BY DEF MatchedOK, Matched, IsSoundscape

LEMMA InitMatched == Init => MatchedOK
BY DEF Init, MatchedOK

(* What is configured is for good.                                         *)
LEMMA SetupStays == [Next]_vars => setup' = setup
<1> SUFFICES ASSUME [Next]_vars PROVE setup' = setup
  OBVIOUS
<1>1. CASE Configure \/ Connect \/ Established \/ ConnectionLost \/ Disconnect
  BY <1>1 DEF Configure, Connect, Established, ConnectionLost, Disconnect, Cut, appVars
<1>2. CASE ProcessMessage \/ DeviceTakes \/ DeviceReports \/ DeviceBeats
  BY <1>2 DEF ProcessMessage, DeviceTakes, DeviceReports, DeviceBeats, appVars
<1>3. CASE SetObjectValue \/ \E type \in setup.reads : ReadAs(type)
  BY <1>3 DEF SetObjectValue, ReadAs, appVars
<1>4. CASE UNCHANGED vars
  BY <1>4 DEF vars, appVars
<1> QED
  BY <1>1, <1>2, <1>3, <1>4 DEF Next

(* A step keeps what is tracked, or replaces it by such objects.           *)
LEMMA MatchedStep == Inv /\ KnownInv' /\ MatchedOK /\ [Next]_vars => MatchedOK'
<1> SUFFICES ASSUME Inv, KnownInv', MatchedOK, [Next]_vars PROVE MatchedOK'
  OBVIOUS
<1>0. TrackedOK /\ KnownInv /\ setup \in Setups /\ setup' = setup
  BY SetupStays DEF Inv, KnownInv
<1>1. ASSUME UNCHANGED tracked PROVE MatchedOK'
  BY <1>0, <1>1, Zenon DEF MatchedOK, Matched, IsSoundscape
<1>2. ASSUME NEW map, \A obj \in DOMAIN map : IsEntry(obj) /\ KnownAs(obj, map[obj]),
             IsSoundscape, tracked' = ActiveEntries(map)
      PROVE  MatchedOK'
  <2>1. PICK entries : entries = ActiveEntries(map)
    OBVIOUS
  <2>2. \A i \in 1 .. Len(entries) : Matched(entries[i].object, entries[i].def)
    BY <1>0, <1>2, <2>1, ActiveAreMatched, Zenon
  <2>3. tracked' = entries
    BY <1>2, <2>1
  <2> QED
    BY <1>0, <2>2, <2>3, Zenon DEF MatchedOK, Matched, IsSoundscape
<1>3. CASE Configure
  <2>1. CASE SetActiveRemoteObjects
    BY <1>0, <1>2, <2>1, Zenon DEF SetActiveRemoteObjects, KnownInv
  <2>2. CASE SetAmpType
    <3>1. setup'.kind = "amp"
      BY <1>0, <2>2 DEF SetAmpType
    <3> QED
      BY <3>1 DEF MatchedOK, Matched, IsSoundscape
  <2>3. CASE TrackObject
    BY <1>0, <2>3, PlainIsMatched, Zenon
  <2>4. CASE SetDeviceIOSize
    BY <1>1, <2>4 DEF SetDeviceIOSize
  <2> QED
    BY <1>3, <2>1, <2>2, <2>3, <2>4 DEF Configure
<1>4. CASE ProcessMessage
  <2>1. PICK msg : TakeNotification(msg) \/ TakeKeepAlive(msg) \/ TakeAcknowledgement(msg)
                     \/ TakeValue(msg) \/ TakeGuid(msg)
    BY <1>4 DEF ProcessMessage
  <2>2. CASE TakeNotification(msg) \/ TakeKeepAlive(msg) \/ TakeAcknowledgement(msg)
               \/ TakeValue(msg)
    BY <1>1, <2>2 DEF TakeNotification, TakeKeepAlive, TakeAcknowledgement, TakeValue
  <2>3. CASE TakeGuid(msg)
    <3>1. CASE tracked' = ActiveEntries(known')
      <4>1. PICK map : map = known'
        OBVIOUS
      <4>2. \A obj \in DOMAIN map : IsEntry(obj) /\ KnownAs(obj, map[obj])
        <5>1. \A obj \in DOMAIN known' : IsEntry(obj) /\ KnownAs(obj, known'[obj])
          BY DEF KnownInv
        <5> QED
          BY <4>1, <5>1, Zenon
      <4>3. IsSoundscape /\ tracked' = ActiveEntries(map)
        BY <2>3, <3>1, <4>1, TakesGuid, Zenon
      <4> QED
        BY <1>2, <4>2, <4>3, Zenon
    <3> QED
      BY <1>1, <2>3, <3>1, TakesGuid
  <2> QED
    BY <2>1, <2>2, <2>3
<1>5. CASE Connect \/ Established \/ ConnectionLost \/ Disconnect
  BY <1>1, <1>5 DEF Connect, Established, ConnectionLost, Disconnect, Cut
<1>6. CASE DeviceTakes \/ DeviceReports \/ DeviceBeats
  BY <1>1, <1>6 DEF DeviceTakes, DeviceReports, DeviceBeats, controllerVars
<1>7. CASE SetObjectValue \/ \E type \in setup.reads : ReadAs(type)
  BY <1>1, <1>7 DEF SetObjectValue, ReadAs, controllerVars
<1>8. CASE UNCHANGED vars
  BY <1>1, <1>8 DEF vars, controllerVars
<1> QED
  BY <1>3, <1>4, <1>5, <1>6, <1>7, <1>8 DEF Next

-----------------------------------------------------------------------------
(* A value, and the value with its bounds.                                 *)
Thrice(d) == d \o d \o d

(* It begins with the value.                                               *)
LEMMA ThriceBegins ==
  ASSUME NEW d \in Seq(Int)
  PROVE  /\ Thrice(d) \in Seq(Int) /\ Len(Thrice(d)) = 3 * Len(d)
         /\ \A i \in 1 .. Len(d) : Thrice(d)[i] = d[i]
<1>1. PICK two : two = d \o d
  OBVIOUS
<1>2. two \in Seq(Int) /\ Len(two) = Len(d) + Len(d) /\ \A i \in 1 .. Len(d) : two[i] = d[i]
  BY <1>1
<1>3. PICK e : e = two \o d
  OBVIOUS
<1>4. e \in Seq(Int) /\ Len(e) = Len(two) + Len(d) /\ \A i \in 1 .. Len(two) : e[i] = two[i]
  <2>1. two \in Seq(Int)
    BY <1>2
  <2> QED
    BY ONLY <1>3, <2>1, d \in Seq(Int)
<1>5. Len(d) \in Nat
  OBVIOUS
<1>6. Len(e) = 3 * Len(d) /\ \A i \in 1 .. Len(d) : e[i] = d[i]
  <2>1. \A i \in 1 .. Len(d) : i \in 1 .. Len(two)
    BY <1>2, <1>5
  <2>2. Len(e) = 3 * Len(d)
    BY <1>2, <1>4, <1>5
  <2> QED
    BY <1>2, <1>4, <2>1, <2>2, Zenon
<1>7. Thrice(d) = e
  BY <1>1, <1>3, Zenon DEF Thrice
<1> QED
  BY <1>4, <1>6, <1>7, Zenon

(* The device answers one or the other.                                    *)
LEMMA AnswerIs ==
  ASSUME NEW def
  PROVE  \/ Answer(def) = Held(def)
         \/ /\ Answer(def) = Thrice(Held(def))
            /\ \/ def.type = "FLOAT32"
               \/ def.type = "DB_POSITION" /\ Len(Held(def)) = 12
BY Zenon DEF Answer, Thrice

(* The numbers of an amplifier are read from the first bytes,              *)
LEMMA SameAmp ==
  ASSUME NEW d \in Seq(Int), 4 <= Len(d), NEW e \in Seq(Int), Len(d) <= Len(e),
         \A i \in 1 .. Len(d) : e[i] = d[i], NEW quantity
  PROVE  AmpDecoded(quantity, e) = AmpDecoded(quantity, d)
<1>1. /\ 1 \in Nat /\ 2 \in Nat /\ 4 \in Nat
      /\ 1 <= Len(d) /\ 2 <= Len(d) /\ 4 <= Len(d)
  OBVIOUS
<1>2. /\ DataToUint16(e) = DataToUint16(d) /\ DataToUint8(e) = DataToUint8(d)
      /\ DataToFloat(e) = DataToFloat(d)
  BY <1>1, SameReading DEF DataToUint16, DataToUint8, DataToFloat
<1>3. DataToBool(e) = DataToBool(d)
  <2>1. Len(d) # 1 /\ Len(e) # 1
    OBVIOUS
  <2> QED
    BY <2>1 DEF DataToBool
<1>4. CASE quantity = "Power"
  BY <1>2, <1>4 DEF AmpDecoded
<1>5. CASE quantity = "Mute"
  BY <1>2, <1>5 DEF AmpDecoded
<1>6. CASE quantity \in {"Gain", "Headroom"}
  BY <1>2, <1>6 DEF AmpDecoded
<1>7. CASE quantity \notin {"Power", "Mute", "Gain", "Headroom"}
  BY <1>3, <1>7 DEF AmpDecoded
<1> QED
  BY <1>4, <1>5, <1>6, <1>7

(* and a position from the first twelve.                                   *)
LEMMA SamePosition ==
  ASSUME NEW d \in Seq(Int), Len(d) = 12, NEW def, def.type = "DB_POSITION",
         VariantFromData(d, "DB_POSITION").ok
  PROVE  /\ VariantFromData(Thrice(d), "DB_POSITION").ok
         /\ Essence(def, VariantFromData(Thrice(d), "DB_POSITION").value) =
              Essence(def, VariantFromData(d, "DB_POSITION").value)
<1>1. PICK e : e = Thrice(d)
  OBVIOUS
<1>2. e \in Seq(Int) /\ Len(e) = 36 /\ \A i \in 1 .. 12 : e[i] = d[i]
  <2>1. /\ e \in Seq(Int) /\ Len(e) = 3 * Len(d) /\ \A i \in 1 .. Len(d) : e[i] = d[i]
    BY <1>1, ThriceBegins
  <2> QED
    BY <2>1
<1>3. \A x \in {d, e} : VariantFromData(x, "DB_POSITION") = Read(TRUE, << "BLOB", x >>)
  BY <1>2 DEF VariantFromData
<1>4. \A x \in {d, e} : Essence(def, << "BLOB", x >>) = SubSeq(x, 1, 12)
  <2>1. ASSUME NEW x, Len(x) = 12 \/ Len(x) = 36
        PROVE  Essence(def, << "BLOB", x >>) = SubSeq(x, 1, 12)
    <3>1. << "BLOB", x >>[2] = x
      OBVIOUS
    <3>2. Len(x) # 24
      <4>1. 12 # 24 /\ 36 # 24
        OBVIOUS
      <4> QED
        BY <2>1, <4>1, Zenon
    <3> QED
      BY <3>1, <3>2, Zenon DEF Essence
  <2>2. \A x \in {d, e} : Len(x) = 12 \/ Len(x) = 36
    BY <1>2
  <2> QED
    BY <2>1, <2>2, Zenon
<1>5. SubSeq(e, 1, 12) = SubSeq(d, 1, 12)
  BY <1>2
<1>6. \A v : Read(TRUE, v).ok /\ Read(TRUE, v).value = v
  BY DEF Read
<1> QED
  BY <1>1, <1>3, <1>4, <1>5, <1>6, Zenon

(* What an object's values are read as.                                    *)
ReadingType(object) ==
  IF IsSoundscape THEN DataTypeForRoi(object[1]) ELSE setup.defs[object[2][1]].type

(* Nothing of a DS100 is read as bytes, and as a text only what is one.    *)
LEMMA RoiTypes ==
  ASSUME NEW roi
  PROVE  /\ DataTypeForRoi(roi) # "BLOB"
         /\ DataTypeForRoi(roi) = "STRING" => roi \in Texts
<1>1. CASE roi \in PolaritiesAndMutes \cup {"Error_GnrlErr"}
  BY <1>1 DEF DataTypeForRoi
<1>2. CASE roi \in Switches /\ roi \notin PolaritiesAndMutes \cup {"Error_GnrlErr"}
  BY <1>2 DEF DataTypeForRoi
<1>3. CASE /\ roi \in Whole /\ roi \notin Switches
           /\ roi \notin PolaritiesAndMutes \cup {"Error_GnrlErr"}
  BY <1>3 DEF DataTypeForRoi
<1>4. CASE /\ roi \in Levels /\ roi \notin Whole /\ roi \notin Switches
           /\ roi \notin PolaritiesAndMutes \cup {"Error_GnrlErr"}
  BY <1>4 DEF DataTypeForRoi
<1>5. CASE roi \in Texts
  <2>1. \A v \in {"UINT8", "UINT16", "INT32", "FLOAT32", "STRING", "DB_POSITION", "NONE"} :
          v # "BLOB"
    OBVIOUS
  <2> QED
    BY <1>1, <1>2, <1>3, <1>4, <1>5 DEF DataTypeForRoi
<1>6. CASE /\ roi \notin Texts /\ roi \notin Levels /\ roi \notin Whole /\ roi \notin Switches
           /\ roi \notin PolaritiesAndMutes \cup {"Error_GnrlErr"}
  BY <1>6 DEF DataTypeForRoi
<1> QED
  BY <1>1, <1>2, <1>3, <1>4, <1>5, <1>6, Zenon

(* What is answered with its bounds is read neither as text nor as bytes.  *)
LEMMA ReadAsMatched ==
  ASSUME NEW object, NEW def, Matched(object, def), setup.kind # "amp", setup \in Setups,
         def.type \in {"FLOAT32", "DB_POSITION"}
  PROVE  /\ ReadingType(object) \notin {"STRING", "BLOB"}
         /\ \A data : Decoded(object, data) = VariantFromData(data, ReadingType(object))
<1>1. CASE IsSoundscape
  <2>1. ReadingType(object) = DataTypeForRoi(object[1])
    BY <1>1, Zenon DEF ReadingType
  <2>2. object[1] \notin Texts
    BY <1>1 DEF Matched
  <2>3. \A data : Decoded(object, data) = VariantFromData(data, DataTypeForRoi(object[1]))
    BY <1>1 DEF Decoded, IsSoundscape
  <2>4. DataTypeForRoi(object[1]) \notin {"STRING", "BLOB"}
    BY <2>2, RoiTypes, Zenon
  <2> QED
    BY <2>1, <2>3, <2>4, Zenon
<1>2. CASE ~ IsSoundscape
  <2>1. setup.kind = "plain"
    BY <1>2, SetupIsProper DEF IsSoundscape
  <2>2. ReadingType(object) = def.type
    BY <1>2, <2>1 DEF ReadingType, Matched
  <2>3. \A data : Decoded(object, data) = VariantFromData(data, setup.defs[object[2][1]].type)
    BY <1>2, <2>1 DEF Decoded
  <2>4. setup.defs[object[2][1]].type = def.type
    BY <2>1, Zenon DEF Matched
  <2> QED
    BY <2>2, <2>3, <2>4
<1> QED
  BY <1>1, <1>2

(* So whoever is answered reads what the device holds,                     *)
LEMMA AnswerAgrees ==
  ASSUME setup \in Setups, guid \in setup.guids, HeldOK,
         NEW object, NEW def, def.ono \in Int, Willing(object, def), Matched(object, def)
  PROVE  Agrees(object, def, Held(def), Decoded(object, Answer(def)))
<1>1. PICK d : d = Held(def)
  OBVIOUS
<1>2. d \in Seq(Int)
  <2>1. def \in DeviceDefinitions(def.ono)
    BY DEF Willing
  <2>2. IsHeld(def)
    BY <2>1, DeviceHolds
  <2>3. IsData(Held(def))
    BY <2>2, HeldIsData
  <2> QED
    BY <1>1, <2>3 DEF IsData
<1>3. Decoded(object, d).ok
  BY <1>1 DEF Willing
<1> SUFFICES Agrees(object, def, d, Decoded(object, Answer(def)))
  BY <1>1
<1>4. CASE Answer(def) = d
  BY <1>3, <1>4, Zenon DEF Agrees
<1>5. CASE Answer(def) = Thrice(d) /\ def.type \in {"FLOAT32", "DB_POSITION"}
           /\ (Len(d) = 4 \/ (Len(d) = 12 /\ def.type = "DB_POSITION"))
  <2>1. PICK e : e = Thrice(d)
    OBVIOUS
  <2>2. /\ e \in Seq(Int) /\ Len(e) = 3 * Len(d) /\ \A i \in 1 .. Len(d) : e[i] = d[i]
    BY <1>2, <2>1, ThriceBegins
  <2>3. 4 <= Len(d) /\ 1 < Len(d) /\ Len(d) <= Len(e)
    <3>1. Len(d) = 4 \/ Len(d) = 12
      BY <1>5
    <3>2. CASE Len(d) = 4
      BY ONLY <2>2, <3>2
    <3>3. CASE Len(d) = 12
      BY ONLY <2>2, <3>3
    <3> QED
      BY <3>1, <3>2, <3>3
  <2> SUFFICES Agrees(object, def, d, Decoded(object, e))
    BY <1>5, <2>1
  <2>4. CASE setup.kind = "amp"
    <3>1. \A x : Decoded(object, x) = Read(TRUE, AmpDecoded(object[1], x))
      BY <2>4 DEF Decoded, IsSoundscape
    <3>2. AmpDecoded(object[1], e) = AmpDecoded(object[1], d)
      BY <1>2, <2>2, <2>3, SameAmp
    <3>3. Decoded(object, e) = Decoded(object, d)
      BY <3>1, <3>2
    <3> QED
      BY <1>3, <3>3, Zenon DEF Agrees
  <2>5. CASE setup.kind # "amp"
    <3>1. PICK type : type = ReadingType(object)
      OBVIOUS
    <3>2. /\ type \notin {"STRING", "BLOB"}
          /\ \A data : Decoded(object, data) = VariantFromData(data, type)
      BY <1>5, <2>5, <3>1, ReadAsMatched, Zenon
    <3>3. VariantFromData(d, type).ok
      BY <1>3, <3>2
    <3>4. CASE type # "DB_POSITION"
      <4>1. VariantFromData(e, type) = VariantFromData(d, type)
        <5>1. type \notin {"STRING", "BLOB", "DB_POSITION"}
          BY <3>2, <3>4
        <5> QED
          BY ONLY <5>1, <1>2, <2>2, <2>3, <3>3, SameVariant
      <4>2. Decoded(object, e) = Decoded(object, d)
        BY <3>2, <4>1, Zenon
      <4> QED
        BY <1>3, <4>2, Zenon DEF Agrees
    <3>5. CASE type = "DB_POSITION"
      <4>1. Len(d) # 4
        <5>1. CASE Len(d) = 4
          <6>1. VariantFromData(d, "DB_POSITION") = Read(FALSE, NoVariant)
            BY <1>2, <5>1 DEF VariantFromData
          <6>2. ~ Read(FALSE, NoVariant).ok
            BY DEF Read
          <6> QED
            BY <3>3, <3>5, <6>1, <6>2
        <5> QED
          BY <5>1
      <4>2. Len(d) = 12 /\ def.type = "DB_POSITION"
        BY <1>5, <4>1
      <4>3. /\ VariantFromData(e, "DB_POSITION").ok
            /\ Essence(def, VariantFromData(e, "DB_POSITION").value) =
                 Essence(def, VariantFromData(d, "DB_POSITION").value)
        <5>1. VariantFromData(d, "DB_POSITION").ok
          BY <3>3, <3>5
        <5> QED
          BY <1>2, <2>1, <4>2, <5>1, SamePosition, Zenon
      <4> QED
        BY <3>2, <3>5, <4>3, Zenon DEF Agrees
    <3> QED
      BY <3>4, <3>5
  <2> QED
    BY <2>4, <2>5
<1>6. def.type = "FLOAT32" => Len(d) = 4
  BY <1>1, Zenon DEF Willing
<1>7. \/ Answer(def) = d
      \/ /\ Answer(def) = Thrice(d)
         /\ \/ def.type = "FLOAT32"
            \/ def.type = "DB_POSITION" /\ Len(d) = 12
  BY <1>1, AnswerIs
<1> QED
  BY <1>4, <1>5, <1>6, <1>7

(* and the controller, of each object it tracks.                           *)
LEMMA ServingAnswers ==
  ASSUME setup \in Setups, guid \in setup.guids, HeldOK, TrackedOK, DeviceServes, MatchedOK,
         Serving
  PROVE  Answering
<1> SUFFICES ASSUME NEW i \in 1 .. Len(tracked), NEW object, object = tracked[i].object,
                    NEW def, def = tracked[i].def
             PROVE  Agrees(object, def, Held(def), Decoded(object, Answer(def)))
  BY Zenon DEF Answering
<1>1. Willing(object, def)
  BY Zenon DEF DeviceServes
<1>2. Matched(object, def)
  BY Zenon DEF MatchedOK
<1>3. IsProperty(def)
  <2>1. PICK S : tracked \in Seq(S) /\ \A e \in S : IsProperty(e.def)
    BY DEF TrackedOK, AreProper
  <2>2. tracked[i] \in S
    BY <2>1
  <2> QED
    BY <2>1, <2>2
<1>4. def.ono \in Int
  BY <1>3 DEF IsProperty
<1> QED
  BY <1>1, <1>2, <1>4, AnswerAgrees

-----------------------------------------------------------------------------
(* The controller that is connected has heard what the device holds, if    *)
(* the device serves it: the objects tracked have numbers of their own and *)
(* none is the one that holds the GUID, the device has each under the      *)
(* definition it is tracked by, and what it holds of it can be read.       *)
ServedInv == Inv /\ FramedInv /\ MatchedOK /\ SessionInv

LEMMA NextServed ==
  ASSUME ServedInv, HandlesFit, HandlesFit', DeviceServes, DeviceServes', [Next]_vars
  PROVE  ServedInv'
<1>1. Inv /\ FramedInv /\ MatchedOK /\ SessionInv
  BY Zenon DEF ServedInv
<1>2. Inv'
  BY <1>1, NextInv, Zenon
<1>3. FramedInv'
  BY <1>1, <1>2, NextFramed, Zenon
<1>4. KnownInv' /\ MatchedOK'
  <2>1. KnownInv'
    BY <1>2, Zenon DEF Inv
  <2> QED
    BY <1>1, <2>1, MatchedStep, Zenon
<1>5. Serving => Answering
  <2>1. setup \in Setups /\ guid \in setup.guids /\ HeldOK /\ TrackedOK
    BY <1>1, Zenon DEF Inv, KnownInv, FramedInv, Framed
  <2> QED
    BY <1>1, <2>1, ServingAnswers, Zenon
<1>6. SessionInv'
  BY <1>1, <1>2, <1>5, NextSession, Zenon
<1> QED
  BY <1>2, <1>3, <1>4, <1>6, Zenon DEF ServedInv

THEOREM ConnectedHasHeard ==
  Spec /\ [](HandlesFit /\ DeviceServes) => []ConnectedMeansHeard
<1>1. Init => ServedInv
  BY InitInv, InitFramed, InitMatched, InitSession, Zenon DEF ServedInv
<1>2. ASSUME ServedInv, HandlesFit /\ DeviceServes, (HandlesFit /\ DeviceServes)', [Next]_vars
      PROVE  ServedInv'
  <2>1. HandlesFit /\ HandlesFit' /\ DeviceServes /\ DeviceServes'
    BY <1>2
  <2> QED
    BY <1>2, <2>1, NextServed
<1>3. ServedInv => ConnectedMeansHeard
  BY QuietIsHeard, Zenon DEF ServedInv
<1> QED
  BY <1>1, <1>2, <1>3, PTL DEF Spec

-----------------------------------------------------------------------------
(* An object is tracked under the definition it is set through.            *)

(* An amplifier and a plain controller make the one from the other.        *)
Named(object, def) ==
  /\ object[1] # NotAsked.object[1]
  /\ setup.kind # "plain" => def.index = 1
  /\ setup.kind = "amp" => def = AmpObjectDefinition(setup.ampType, object[1], object[2][1])
  /\ setup.kind = "plain" => def = setup.defs[object[2][1]]
NamedOK == \A i \in 1 .. Len(tracked) : Named(tracked[i].object, tracked[i].def)

(* A DS100 has two tables, which agree once the GUID is known and has      *)
(* patched the one that what is tracked is taken from.                     *)
SizedOK == IsSoundscape => DOMAIN known \subseteq KnownObjects(ioSize[1], ioSize[2])
ListedIn(stack, object, def) ==
  def = GetObjectDefinition(object[1], object[2], TRUE, stack)
Listed(object, def) == ListedIn(stackIdent, object, def)
ListedOK ==
  IsSoundscape /\ linked /\ deviceGuid # NoGuid =>
    \A i \in 1 .. Len(tracked) : Listed(tracked[i].object, tracked[i].def)

(* No identifier is in two rows of a table.                                *)
LEMMA IdentsApart ==
  ASSUME NEW roi
  PROVE  LET Single == InputObjects \cup OutputObjects \cup GroupObjects \cup ZoneObjects
             Paired == RoutingObjects
                         \cup {"CoordinateMapping_SourcePosition", "ReverbInput_Gain"}
             Remapped == SourceSplits \cup MappedSplits \cup SceneCommands
         IN  /\ roi \in DeviceObjects =>
                  /\ roi \notin AreaObjects /\ roi \notin NodeObjects /\ roi \notin SpeakerObjects
                  /\ roi \notin Single /\ roi \notin Paired /\ roi \notin Remapped
             /\ roi \in AreaObjects =>
                  /\ roi \notin NodeObjects /\ roi \notin SpeakerObjects
                  /\ roi \notin Single /\ roi \notin Paired /\ roi \notin Remapped
             /\ roi \in NodeObjects =>
                  /\ roi \notin SpeakerObjects
                  /\ roi \notin Single /\ roi \notin Paired /\ roi \notin Remapped
             /\ roi \in SpeakerObjects =>
                  roi \notin Single /\ roi \notin Paired /\ roi \notin Remapped
             /\ roi \in Single => roi \notin Paired /\ roi \notin Remapped
             /\ roi \in Paired => roi \notin Remapped
BY DEF DeviceObjects, AreaObjects, NodeObjects, SpeakerObjects, InputObjects, OutputObjects,
   GroupObjects, ZoneObjects, RoutingObjects, SourceSplits, MappedSplits, SceneCommands

(* The tables agree on every object of the map but for the speakers,       *)
LEMMA TablesAgree ==
  ASSUME NEW inputs \in 1 .. MaxInputs, NEW outputs \in 1 .. MaxOutputs,
         NEW obj \in KnownObjects(inputs, outputs), NEW stack,
         obj[1] # "Positioning_SpeakerPosition" \/ ~ (stack < 1)
  PROVE  MappedDefinition(obj[1], obj[2]) = GetObjectDefinition(obj[1], obj[2], TRUE, stack)
<1> DEFINE roi == obj[1]
           addr == obj[2]
           Single == InputObjects \cup OutputObjects \cup GroupObjects \cup ZoneObjects
           Paired == RoutingObjects
                       \cup {"CoordinateMapping_SourcePosition", "ReverbInput_Gain"}
<1>0. \/ obj \in DeviceObjects \X {Unindexed}
      \/ obj \in SingleIdents \X {At(ch) : ch \in 1 .. 128}
      \/ obj \in PairedIdents \X ((1 .. 128) \X (1 .. 128))
  BY Addresses
<1>a. ~ (roi = "Positioning_SpeakerPosition" /\ stack < 1)
  OBVIOUS
<1>1. CASE obj \in DeviceObjects \X {Unindexed}
  <2>1. roi \in DeviceObjects /\ addr[1] = 0 /\ addr[2] = 0
    BY <1>1 DEF Unindexed, NotUsed
  <2>2. roi \notin NodeObjects /\ roi \notin AreaObjects
    BY <2>1 DEF DeviceObjects, NodeObjects, AreaObjects
  <2>3. MappedDefinition(roi, addr) = RemoteDefinition(roi, 0, 0)
    BY <2>1, <2>2, Zenon DEF MappedDefinition
  <2>4. GetObjectDefinition(roi, addr, TRUE, stack) = RemoteDefinition(roi, 0, 0)
    BY <2>1, IdentsApart, Zenon DEF GetObjectDefinition
  <2> QED
    BY <2>3, <2>4
<1>2. CASE obj \in SingleIdents \X {At(ch) : ch \in 1 .. 128} /\ roi \in AreaObjects
  <2>1. roi \notin NodeObjects /\ roi \notin DeviceObjects
    BY <1>2 DEF DeviceObjects, NodeObjects, AreaObjects
  <2>2. MappedDefinition(roi, addr) = RemoteDefinition(roi, addr[1], 0)
    BY <1>2, <2>1, Zenon DEF MappedDefinition
  <2>3. GetObjectDefinition(roi, addr, TRUE, stack) = RemoteDefinition(roi, addr[1], 0)
    BY <1>2, <2>1, IdentsApart, Zenon DEF GetObjectDefinition
  <2> QED
    BY <2>2, <2>3
<1>3. CASE obj \in SingleIdents \X {At(ch) : ch \in 1 .. 128} /\ roi \notin AreaObjects
  <2>1. (roi \in Single \/ roi \in SpeakerObjects) /\ addr[2] = 0
    BY <1>3 DEF SingleIdents, At, NotUsed
  <2>2. /\ roi \notin NodeObjects /\ roi \notin DeviceObjects
        /\ ~ (roi \in Single /\ roi \in SpeakerObjects)
    BY <2>1 DEF DeviceObjects, NodeObjects, InputObjects, OutputObjects, SpeakerObjects,
       GroupObjects, ZoneObjects
  <2>3. MappedDefinition(roi, addr) = RemoteDefinition(roi, 0, addr[1])
    BY <1>3, <2>1, <2>2, Zenon DEF MappedDefinition
  <2>4. GetObjectDefinition(roi, addr, TRUE, stack) = RemoteDefinition(roi, 0, addr[1])
    BY <1>3, <1>a, <2>1, <2>2, IdentsApart, Zenon DEF GetObjectDefinition
  <2> QED
    BY <2>3, <2>4
<1>4. CASE obj \in PairedIdents \X ((1 .. 128) \X (1 .. 128)) /\ roi \in NodeObjects
  <2>1. roi \notin AreaObjects /\ roi \notin DeviceObjects
    BY <1>4 DEF DeviceObjects, NodeObjects, AreaObjects
  <2>2. MappedDefinition(roi, addr) = RemoteDefinition(roi, addr[1], addr[2])
    BY <1>4, <2>1, Zenon DEF MappedDefinition
  <2>3. GetObjectDefinition(roi, addr, TRUE, stack) = RemoteDefinition(roi, addr[1], addr[2])
    BY <1>4, <2>1, IdentsApart, Zenon DEF GetObjectDefinition
  <2> QED
    BY <2>2, <2>3
<1>5. CASE obj \in PairedIdents \X ((1 .. 128) \X (1 .. 128)) /\ roi \notin NodeObjects
  <2>1. roi \in Paired
    BY <1>5 DEF PairedIdents
  <2>2. roi \notin AreaObjects /\ roi \notin DeviceObjects /\ roi \notin Single
        /\ roi \notin SpeakerObjects
    BY <2>1 DEF DeviceObjects, AreaObjects, RoutingObjects, InputObjects, OutputObjects,
       SpeakerObjects, GroupObjects, ZoneObjects
  <2>3. MappedDefinition(roi, addr) = RemoteDefinition(roi, addr[2], addr[1])
    BY <1>5, <2>2, Zenon DEF MappedDefinition
  <2>4. GetObjectDefinition(roi, addr, TRUE, stack) = RemoteDefinition(roi, addr[2], addr[1])
    BY <1>5, <1>a, <2>1, <2>2, IdentsApart, Zenon DEF GetObjectDefinition
  <2> QED
    BY <2>3, <2>4
<1> QED
  BY <1>0, <1>1, <1>2, <1>3, <1>4, <1>5

(* and on those in the map that a GUID has patched.                        *)
LEMMA PatchedIsListed ==
  ASSUME NEW inputs \in 1 .. MaxInputs, NEW outputs \in 1 .. MaxOutputs,
         NEW map, DOMAIN map \subseteq KnownObjects(inputs, outputs),
         \A obj \in DOMAIN map : KnownAs(obj, map[obj]),
         NEW stack \in 0 .. 1, NEW new, new = PatchedONosMap(map, stack, outputs)
  PROVE  /\ DOMAIN new \subseteq KnownObjects(inputs, outputs)
         /\ \A obj \in DOMAIN new : ListedIn(stack, obj, new[obj])
<1> DEFINE ids == IF stack >= 1 THEN SpeakerObjects ELSE {"Positioning_SpeakerPosition"}
           patched == ids \X {At(ch) : ch \in 1 .. outputs}
           speakers == SpeakerObjects \X {At(ch) : ch \in 1 .. outputs}
<1>1. /\ DOMAIN new = DOMAIN map \cup patched
      /\ \A obj \in DOMAIN new :
           new[obj] = IF obj \notin patched THEN map[obj]
                      ELSE IF stack >= 1 THEN MappedDefinition(obj[1], obj[2])
                      ELSE LegacySpeakerPosition(obj[2][1])
  BY DEF PatchedONosMap
<1>2. patched \subseteq speakers
  BY DEF SpeakerObjects
<1>3. speakers \subseteq KnownObjects(inputs, outputs)
  <2> DEFINE all == (OutputObjects \cup SpeakerObjects) \X {At(ch) : ch \in 1 .. outputs}
  <2>1. speakers \subseteq all
    OBVIOUS
  <2> HIDE DEF speakers
  <2>2. all \subseteq KnownObjects(inputs, outputs)
    BY Zenon DEF KnownObjects
  <2> QED
    BY <2>1, <2>2, Zenon
<1>4. DOMAIN new \subseteq KnownObjects(inputs, outputs)
  BY <1>1, <1>2, <1>3, Zenon
<1>5. ASSUME NEW obj \in KnownObjects(inputs, outputs), obj[1] = "Positioning_SpeakerPosition"
      PROVE  obj \in patched
  <2>1. "Positioning_SpeakerPosition" \in ids
    BY DEF SpeakerObjects
  <2>2. obj \in (OutputObjects \cup SpeakerObjects) \X {At(ch) : ch \in 1 .. outputs}
    <3> DEFINE single(rois, count) == rois \X {At(ch) : ch \in 1 .. count}
               paired(rois, count1, count2) == rois \X ((1 .. count1) \X (1 .. count2))
               groups == FunctionGroupCount(outputs)
    <3>1. \/ obj \in DeviceObjects \X {Unindexed}
          \/ obj \in single(InputObjects, inputs)
          \/ obj \in paired({"CoordinateMapping_SourcePosition"}, inputs, 4)
          \/ obj \in paired(RoutingObjects, inputs, groups)
          \/ obj \in paired(NodeObjects, inputs, outputs)
          \/ obj \in single(OutputObjects \cup SpeakerObjects, outputs)
          \/ obj \in single(GroupObjects, groups)
          \/ obj \in single(ZoneObjects, 4)
          \/ obj \in paired({"ReverbInput_Gain"}, 4, inputs)
          \/ obj \in single(AreaObjects, 4)
      BY Zenon DEF KnownObjects, MaxReverbZones
    <3>2. \A rois, count : obj \in single(rois, count) => obj[1] \in rois
      OBVIOUS
    <3>3. \A rois, count1, count2 : obj \in paired(rois, count1, count2) => obj[1] \in rois
      OBVIOUS
    <3>4. obj \in DeviceObjects \X {Unindexed} => obj[1] \in DeviceObjects
      OBVIOUS
    <3> HIDE DEF single, paired, groups
    <3>5. /\ obj[1] \notin DeviceObjects /\ obj[1] \notin InputObjects
          /\ obj[1] \notin {"CoordinateMapping_SourcePosition"} /\ obj[1] \notin RoutingObjects
          /\ obj[1] \notin NodeObjects /\ obj[1] \notin GroupObjects /\ obj[1] \notin ZoneObjects
          /\ obj[1] \notin {"ReverbInput_Gain"} /\ obj[1] \notin AreaObjects
      BY <1>5 DEF DeviceObjects, InputObjects, RoutingObjects, NodeObjects, GroupObjects,
         ZoneObjects, AreaObjects
    <3>6. obj \in single(OutputObjects \cup SpeakerObjects, outputs)
      BY <3>1, <3>2, <3>3, <3>4, <3>5, Zenon
    <3> QED
      BY <3>6 DEF single
  <2> HIDE DEF ids
  <2> QED
    BY <1>5, <2>1, <2>2
<1>6. ASSUME NEW obj \in DOMAIN new
      PROVE  new[obj] = GetObjectDefinition(obj[1], obj[2], TRUE, stack)
  <2>0. obj \in KnownObjects(inputs, outputs)
    BY <1>4
  <2>1. CASE obj \notin patched
    <3>1. obj[1] # "Positioning_SpeakerPosition"
      BY <1>5, <2>0, <2>1, Zenon
    <3>2. new[obj] = map[obj] /\ obj \in DOMAIN map
      BY <1>1, <2>1, Zenon
    <3>3. map[obj] = MappedDefinition(obj[1], obj[2])
      BY <3>1, <3>2, Zenon DEF KnownAs
    <3> QED
      BY <2>0, <3>1, <3>2, <3>3, TablesAgree
  <2>2. CASE obj \in patched /\ stack >= 1
    <3>1. new[obj] = MappedDefinition(obj[1], obj[2])
      BY <1>1, <2>2, Zenon
    <3>2. ~ (stack < 1)
      BY <2>2
    <3> QED
      BY <2>0, <3>1, <3>2, TablesAgree
  <2>3. CASE obj \in patched /\ ~ (stack >= 1)
    <3>1. new[obj] = LegacySpeakerPosition(obj[2][1])
      BY <1>1, <2>3, Zenon
    <3>2. obj[1] = "Positioning_SpeakerPosition" /\ stack < 1
      BY <2>3
    <3>3. obj[1] \in SpeakerObjects
      BY <3>2 DEF SpeakerObjects
    <3>4. GetObjectDefinition(obj[1], obj[2], TRUE, stack) = LegacySpeakerPosition(obj[2][1])
      BY <3>2, <3>3, IdentsApart, Zenon DEF GetObjectDefinition
    <3> QED
      BY <3>1, <3>4
  <2> HIDE DEF patched
  <2> QED
    BY <2>1, <2>2, <2>3
<1> QED
  BY <1>4, <1>6, Zenon DEF ListedIn

(* What an application may ask for has a name.                             *)
LEMMA IdentsAreNames == NotAsked.object[1] \notin MapIdents \cup AmpQuantities \cup {"Plain"}
BY DEF NotAsked, MapIdents, DeviceObjects, InputObjects, NodeObjects, RoutingObjects,
   SpeakerObjects, OutputObjects, GroupObjects, ZoneObjects, AreaObjects, AmpQuantities

(* What the tables list is the first property of its object.               *)
LEMMA MapIsFirst == \A obj, def : KnownAs(obj, def) => def.index = 1
<1>1. \A name, record, channel : OcaObject(name, record, channel).index = 1
  BY DEF OcaObject, DS100Definition, Definition
<1>2. \A roi, addr : MappedDefinition(roi, addr).index = 1
  BY <1>1, Zenon DEF MappedDefinition, RemoteDefinition
<1>3. \A ch : LegacySpeakerPosition(ch).index = 1
  BY <1>1, Zenon DEF LegacySpeakerPosition
<1> QED
  BY <1>2, <1>3 DEF KnownAs

LEMMA AmpIsFirst ==
  ASSUME NEW ampType, NEW quantity \in AmpQuantities, NEW ch
  PROVE  AmpObjectDefinition(ampType, quantity, ch).index = 1
<1>1. \A c, o, type, class : AmpDefinition(c, o, type, class).index = 1
  BY DEF AmpDefinition, Definition
<1> QED
  BY <1>1 DEF AmpObjectDefinition, AmpQuantities, PowerDefinition, GainDefinition,
     MuteDefinition, StatusDefinition, GrHeadDefinition

(* The objects of a DS100 that are tracked are in the map,                 *)
LEMMA ActiveAreListed ==
  ASSUME NEW map, \A obj \in DOMAIN map : IsEntry(obj) /\ KnownAs(obj, map[obj]), setup \in Setups, IsSoundscape,
         NEW i \in 1 .. Len(ActiveEntries(map))
  PROVE  /\ ActiveEntries(map)[i].object \in DOMAIN map
         /\ ActiveEntries(map)[i].def = map[ActiveEntries(map)[i].object]
         /\ Named(ActiveEntries(map)[i].object, ActiveEntries(map)[i].def)
<1>1. Len(setup.active) \in Nat
  BY SetupIsProper
<1> DEFINE S == {Entry(obj, map[obj]) : obj \in DOMAIN map}
           entries == ActiveEntries(map)
<1>2. entries \in Seq(S)
  BY <1>1, ActiveAreEntries
<1>3. \A e \in S : e.object \in DOMAIN map /\ e.def = map[e.object]
  BY DEF Entry
<1> HIDE DEF S, entries
<1>4. i \in 1 .. Len(entries)
  BY DEF entries
<1>5. entries[i] \in S
  BY <1>2, <1>4
<1>6. entries[i].object \in DOMAIN map /\ entries[i].def = map[entries[i].object]
  BY <1>3, <1>5, Zenon
<1>7. entries[i].object[1] \in MapIdents
  BY <1>6, Zenon DEF IsEntry
<1>8. entries[i].object[1] # NotAsked.object[1]
  BY <1>7, IdentsAreNames, Zenon
<1>9. setup.kind # "plain" /\ setup.kind # "amp"
  BY DEF IsSoundscape
<1>10. entries[i].def.index = 1
  BY <1>6, MapIsFirst, Zenon
<1> QED
  BY <1>6, <1>8, <1>9, <1>10, Zenon DEF Named, entries

(* those of an amplifier are its quantities,                               *)
LEMMA AmpIsNamed ==
  ASSUME setup \in Setups, setup' = setup, SetAmpType
  PROVE  NamedOK'
<1> DEFINE objects == AmpObjects(setup.channels)
           O == AmpQuantities \X (Int \X Int)
<1>1. setup.ampType \in AmpTypes /\ setup.channels \in Nat /\ setup.kind = "amp"
  BY SetupIsProper DEF SetAmpType
<1>2. objects \in Seq(O)
  BY <1>1, AmpObjectsAreQuantities
<1>3. tracked' = [i \in 1 .. Len(objects) |->
                    Entry(objects[i], AmpObjectDefinition(setup.ampType, objects[i][1],
                                                          objects[i][2][1]))]
  BY Zenon DEF SetAmpType
<1> HIDE DEF objects, O
<1>4. Len(objects) \in Nat
  BY <1>2
<1>5. Len(tracked') = Len(objects)
  BY <1>3, <1>4
<1> SUFFICES ASSUME NEW i \in 1 .. Len(tracked')
             PROVE  Named(tracked[i].object, tracked[i].def)'
  BY Zenon DEF NamedOK
<1>6. i \in 1 .. Len(objects)
  BY <1>5
<1>7. /\ tracked'[i].object = objects[i]
      /\ tracked'[i].def = AmpObjectDefinition(setup.ampType, objects[i][1], objects[i][2][1])
  BY <1>3, <1>6 DEF Entry
<1>8. objects[i] \in O
  BY <1>2, <1>6
<1>9. objects[i][1] \in AmpQuantities
  BY <1>8 DEF O
<1>10. objects[i][1] # NotAsked.object[1]
  BY <1>9, IdentsAreNames, Zenon
<1>11. setup'.kind # "plain"
  BY <1>1
<1>12. setup'.ampType = setup.ampType
  OBVIOUS
<1>13. tracked'[i].def.index = 1
  <2>1. AmpObjectDefinition(setup.ampType, objects[i][1], objects[i][2][1]).index = 1
    BY <1>9, AmpIsFirst
  <2> QED
    BY <1>7, <2>1
<1> QED
  BY <1>7, <1>10, <1>11, <1>12, <1>13, Zenon DEF Named

(* and those of a plain controller come one by one.                        *)
LEMMA PlainIsNamed ==
  ASSUME setup' = setup, setup \in Setups, TrackedOK, NamedOK, TrackObject
  PROVE  NamedOK'
<1>1. PICK S : tracked \in Seq(S)
  BY DEF TrackedOK, AreProper
<1> DEFINE i == Len(tracked) + 1
           e == Entry(<< "Plain", At(i) >>, setup.defs[i])
<1>2. tracked' = Append(tracked, e) /\ setup.kind = "plain"
  BY Zenon DEF TrackObject
<1>3. e.object[2][1] = i /\ e.def = setup.defs[i] /\ e.object[1] = "Plain"
  BY DEF Entry, At
<1>4. setup.kind = "plain" /\ setup.kind # "amp"
  BY <1>2
<1>a. "Plain" # NotAsked.object[1]
  BY IdentsAreNames, Zenon
<1>5. Named(e.object, e.def)
  BY <1>3, <1>4, <1>a, Zenon DEF Named
<1> HIDE DEF e
<1>6. /\ Len(tracked') = i /\ tracked'[i] = e
      /\ \A j \in 1 .. Len(tracked) : tracked'[j] = tracked[j]
  BY <1>1, <1>2
<1> SUFFICES ASSUME NEW j \in 1 .. Len(tracked')
             PROVE  Named(tracked[j].object, tracked[j].def)'
  BY Zenon DEF NamedOK
<1>7. Named(tracked'[j].object, tracked'[j].def)
  <2>1. CASE j = i
    BY <1>5, <1>6, <2>1
  <2>2. CASE j # i
    <3>1. j \in 1 .. Len(tracked)
      BY <1>1, <1>6, <2>2
    <3>2. Named(tracked[j].object, tracked[j].def)
      BY <3>1 DEF NamedOK
    <3>3. tracked'[j] = tracked[j]
      BY <1>6, <3>1
    <3> QED
      BY <3>2, <3>3
  <2> QED
    BY <2>1, <2>2
<1> QED
  BY <1>7, Zenon DEF Named

LEMMA InitTargets == Init => NamedOK /\ SizedOK /\ ListedOK
<1> SUFFICES ASSUME Init PROVE NamedOK /\ SizedOK /\ ListedOK
  OBVIOUS
<1>1. NamedOK
  BY DEF Init, NamedOK
<1>2. ListedOK
  BY DEF Init, ListedOK
<1>3. SizedOK
  BY DEF Init, SizedOK, KnownONosMap
<1> QED
  BY <1>1, <1>2, <1>3

(* What a step does to the tables and to what is tracked: nothing, or it   *)
(* configures, while nothing is linked, or the GUID has come.              *)
TablesStay == UNCHANGED << ioSize, known, tracked >>

LEMMA TablesStep ==
  ASSUME [Next]_vars
  PROVE  \/ TablesStay
         \/ Configure
         \/ ioSize' = ioSize /\ \E msg : TakeGuid(msg)
<1>1. CASE ProcessMessage
  <2>1. PICK msg : TakeNotification(msg) \/ TakeKeepAlive(msg) \/ TakeAcknowledgement(msg)
                     \/ TakeValue(msg) \/ TakeGuid(msg)
    BY <1>1 DEF ProcessMessage
  <2>2. ioSize' = ioSize
    BY <1>1 DEF ProcessMessage
  <2>3. CASE TakeNotification(msg) \/ TakeKeepAlive(msg) \/ TakeAcknowledgement(msg)
               \/ TakeValue(msg)
    BY <2>2, <2>3 DEF TakeNotification, TakeKeepAlive, TakeAcknowledgement, TakeValue, TablesStay
  <2> QED
    BY <2>1, <2>2, <2>3, Zenon
<1>2. CASE Connect \/ Established \/ ConnectionLost \/ Disconnect
  BY <1>2 DEF Connect, Established, ConnectionLost, Disconnect, Cut, TablesStay
<1>3. CASE DeviceTakes \/ DeviceReports \/ DeviceBeats
  BY <1>3 DEF DeviceTakes, DeviceReports, DeviceBeats, controllerVars, TablesStay
<1>4. CASE SetObjectValue \/ \E type \in setup.reads : ReadAs(type)
  BY <1>4 DEF SetObjectValue, ReadAs, controllerVars, TablesStay
<1>5. CASE UNCHANGED vars
  BY <1>5 DEF vars, controllerVars, TablesStay
<1> QED
  BY <1>1, <1>2, <1>3, <1>4, <1>5, Zenon DEF Next

(* A GUID that is accepted is that of a revision, and the map is patched   *)
(* for it.                                                                 *)
LEMMA GuidPatches ==
  ASSUME NEW msg, TakeGuid(msg)
  PROVE  \/ UNCHANGED << deviceGuid, stackIdent, known, tracked >>
         \/ /\ stackIdent' \in 0 .. 1
            /\ known' = PatchedONosMap(known, stackIdent', ioSize[2])
            /\ tracked' = ActiveEntries(known')
<1>1. \A g : StackIdentOf(g) \in 0 .. 1
  BY DEF StackIdentOf
<1> QED
  BY <1>1, Zenon DEF TakeGuid

(* The map has the size of the matrix.                                     *)
LEMMA SizedStep == Inv /\ KnownInv' /\ SizedOK /\ [Next]_vars => SizedOK'
<1> SUFFICES ASSUME Inv, KnownInv', SizedOK, [Next]_vars PROVE SizedOK'
  OBVIOUS
<1>0. setup' = setup /\ KnownInv
  BY SetupStays DEF Inv
<1> SUFFICES ASSUME IsSoundscape PROVE DOMAIN known' \subseteq KnownObjects(ioSize'[1], ioSize'[2])
  BY <1>0, Zenon DEF SizedOK, IsSoundscape
<1>1. DOMAIN known \subseteq KnownObjects(ioSize[1], ioSize[2])
  BY DEF SizedOK
<1>2. CASE TablesStay
  BY <1>1, <1>2 DEF TablesStay
<1>3. CASE Configure
  <2>1. CASE SetDeviceIOSize
    <3>1. known' = KnownONosMap(ioSize'[1], ioSize'[2])
      BY <2>1 DEF SetDeviceIOSize
    <3> QED
      BY <3>1 DEF KnownONosMap
  <2>2. CASE SetActiveRemoteObjects \/ SetAmpType \/ TrackObject
    BY <1>1, <2>2 DEF SetActiveRemoteObjects, SetAmpType, TrackObject
  <2> QED
    BY <1>3, <2>1, <2>2 DEF Configure
<1>4. ASSUME NEW msg, TakeGuid(msg), ioSize' = ioSize
      PROVE  DOMAIN known' \subseteq KnownObjects(ioSize'[1], ioSize'[2])
  <2>1. CASE known' = known
    BY <1>1, <1>4, <2>1
  <2>2. CASE /\ stackIdent' \in 0 .. 1
             /\ known' = PatchedONosMap(known, stackIdent', ioSize[2])
    <3>1. PICK inputs, outputs : inputs = ioSize[1] /\ outputs = ioSize[2]
      OBVIOUS
    <3>2. inputs \in 1 .. MaxInputs /\ outputs \in 1 .. MaxOutputs
      BY <1>0, <3>1 DEF KnownInv
    <3>a. PICK stack \in 0 .. 1 : stack = stackIdent'
      BY <2>2
    <3>b. PICK new : new = known'
      OBVIOUS
    <3>3. stack = stackIdent' /\ new = known'
      BY <3>a, <3>b
    <3>4. DOMAIN known \subseteq KnownObjects(inputs, outputs)
          /\ \A obj \in DOMAIN known : KnownAs(obj, known[obj])
      BY <1>0, <1>1, <3>1, Zenon DEF KnownInv
    <3>5. new = PatchedONosMap(known, stack, outputs)
      BY <2>2, <3>1, <3>3, Zenon
    <3>6. DOMAIN new \subseteq KnownObjects(inputs, outputs)
      BY <3>2, <3>4, <3>5, PatchedIsListed
    <3> QED
      BY <1>4, <3>1, <3>3, <3>6, Zenon
  <2> QED
    BY <1>4, <2>1, <2>2, GuidPatches
<1> QED
  BY <1>2, <1>3, <1>4, TablesStep

(* Every object that is tracked is named.                                  *)
LEMMA NamedStep == Inv /\ KnownInv' /\ NamedOK /\ [Next]_vars => NamedOK'
<1> SUFFICES ASSUME Inv, KnownInv', NamedOK, [Next]_vars PROVE NamedOK'
  OBVIOUS
<1>0. TrackedOK /\ KnownInv /\ setup \in Setups /\ setup' = setup
  BY SetupStays DEF Inv, KnownInv
<1>1. ASSUME tracked' = tracked PROVE NamedOK'
  BY <1>0, <1>1, Zenon DEF NamedOK, Named
<1>2. ASSUME NEW map, \A obj \in DOMAIN map : IsEntry(obj) /\ KnownAs(obj, map[obj]), IsSoundscape,
             tracked' = ActiveEntries(map)
      PROVE  NamedOK'
  <2>1. PICK entries : entries = ActiveEntries(map)
    OBVIOUS
  <2>2. \A i \in 1 .. Len(entries) : Named(entries[i].object, entries[i].def)
    BY <1>0, <1>2, <2>1, ActiveAreListed, Zenon
  <2>3. tracked' = entries
    BY <1>2, <2>1
  <2> QED
    BY <1>0, <2>2, <2>3, Zenon DEF NamedOK, Named
<1>3. CASE Configure
  <2>1. CASE SetActiveRemoteObjects
    BY <1>0, <1>2, <2>1, Zenon DEF SetActiveRemoteObjects, KnownInv
  <2>2. CASE SetAmpType
    BY <1>0, <2>2, AmpIsNamed
  <2>3. CASE TrackObject
    BY <1>0, <2>3, PlainIsNamed
  <2>4. CASE SetDeviceIOSize
    BY <1>1, <2>4 DEF SetDeviceIOSize
  <2> QED
    BY <1>3, <2>1, <2>2, <2>3, <2>4 DEF Configure
<1>4. ASSUME NEW msg, TakeGuid(msg) PROVE NamedOK'
  <2>1. CASE tracked' = ActiveEntries(known')
    <3>1. PICK map : map = known'
      OBVIOUS
    <3>4. IsSoundscape
      BY <1>4, TakesGuid
    <3>2. \A obj \in DOMAIN known' : IsEntry(obj) /\ KnownAs(obj, known'[obj])
      BY <1>0, <3>4, Zenon DEF KnownInv, IsSoundscape
    <3>3. \A obj \in DOMAIN map : IsEntry(obj) /\ KnownAs(obj, map[obj])
      BY <3>1, <3>2, Zenon
    <3> QED
      BY <1>2, <2>1, <3>1, <3>3, <3>4, Zenon
  <2> QED
    BY <1>1, <1>4, <2>1, GuidPatches
<1> QED
  BY <1>1, <1>3, <1>4, TablesStep DEF TablesStay

(* When the GUID is known, under the definition it is set through.         *)
LEMMA ListedStep ==
  Inv /\ KnownInv' /\ SizedOK /\ SessionInv /\ ListedOK /\ [Next]_vars => ListedOK'
<1> SUFFICES ASSUME Inv, KnownInv', SizedOK, SessionInv, ListedOK, [Next]_vars,
                    IsSoundscape', linked', deviceGuid' # NoGuid,
                    NEW i \in 1 .. Len(tracked')
             PROVE  Listed(tracked[i].object, tracked[i].def)'
  BY Zenon DEF ListedOK
<1>0. KnownInv /\ setup \in Setups /\ setup' = setup /\ IsSoundscape
  BY SetupStays DEF Inv, KnownInv, IsSoundscape
<1>1. ASSUME UNCHANGED << linked, deviceGuid, stackIdent, tracked >>
      PROVE  Listed(tracked[i].object, tracked[i].def)'
  BY <1>0, <1>1 DEF ListedOK, Listed
<1>2. ASSUME NEW msg, TakeGuid(msg), linked' = linked
      PROVE  Listed(tracked[i].object, tracked[i].def)'
  <2>1. CASE UNCHANGED << deviceGuid, stackIdent, known, tracked >>
    BY <1>1, <1>2, <2>1
  <2>2. CASE /\ stackIdent' \in 0 .. 1
             /\ known' = PatchedONosMap(known, stackIdent', ioSize[2])
             /\ tracked' = ActiveEntries(known')
    <3>1. PICK inputs, outputs : inputs = ioSize[1] /\ outputs = ioSize[2]
      OBVIOUS
    <3>2. inputs \in 1 .. MaxInputs /\ outputs \in 1 .. MaxOutputs
      BY <1>0, <3>1 DEF KnownInv
    <3>a. PICK stack \in 0 .. 1 : stack = stackIdent'
      BY <2>2
    <3>b. PICK new, entries : new = known' /\ entries = tracked'
      OBVIOUS
    <3>3. stack = stackIdent' /\ new = known' /\ entries = tracked'
      BY <3>a, <3>b
    <3>4. DOMAIN known \subseteq KnownObjects(inputs, outputs)
          /\ \A obj \in DOMAIN known : KnownAs(obj, known[obj])
      BY <1>0, <3>1, Zenon DEF KnownInv, SizedOK
    <3>5. new = PatchedONosMap(known, stack, outputs)
      BY <2>2, <3>1, <3>3, Zenon
    <3>c. stack \in 0 .. 1
      OBVIOUS
    <3>6. \A obj \in DOMAIN new : ListedIn(stack, obj, new[obj])
      BY <3>2, <3>4, <3>5, <3>c, PatchedIsListed
    <3>7. entries = ActiveEntries(new) /\ i \in 1 .. Len(ActiveEntries(new))
      BY <2>2, <3>3, Zenon
    <3>8. \A obj \in DOMAIN known' : IsEntry(obj) /\ KnownAs(obj, known'[obj])
      BY <1>0, Zenon DEF KnownInv, IsSoundscape
    <3>9. \A obj \in DOMAIN new : IsEntry(obj) /\ KnownAs(obj, new[obj])
      BY <3>3, <3>8, Zenon
    <3>10. entries[i].object \in DOMAIN new /\ entries[i].def = new[entries[i].object]
      BY <1>0, <3>7, <3>9, ActiveAreListed
    <3>11. ListedIn(stack, entries[i].object, entries[i].def)
      BY <3>6, <3>10, Zenon
    <3> QED
      BY <3>3, <3>11, Zenon DEF Listed
  <2> QED
    BY <1>2, <2>1, <2>2, GuidPatches
<1>3. CASE Configure
  <2>1. UNCHANGED << state, linked, deviceGuid, stackIdent >>
    BY <1>3 DEF Configure
  <2>2. CASE SetDeviceIOSize
    BY <1>1, <2>1, <2>2 DEF SetDeviceIOSize
  <2>3. CASE SetActiveRemoteObjects \/ SetAmpType \/ TrackObject
    <3>1. state = "Disconnected"
      BY <2>3 DEF SetActiveRemoteObjects, SetAmpType, TrackObject
    <3>2. ~ linked
      BY <3>1, Zenon DEF SessionInv, Session
    <3> QED
      BY <2>1, <3>2
  <2> QED
    BY <1>3, <2>2, <2>3 DEF Configure
<1>4. CASE ProcessMessage
  <2>1. PICK msg : TakeNotification(msg) \/ TakeKeepAlive(msg) \/ TakeAcknowledgement(msg)
                     \/ TakeValue(msg) \/ TakeGuid(msg)
    BY <1>4 DEF ProcessMessage
  <2>2. linked' = linked
    BY <1>4 DEF ProcessMessage
  <2>3. CASE TakeNotification(msg) \/ TakeKeepAlive(msg) \/ TakeAcknowledgement(msg)
               \/ TakeValue(msg)
    BY <1>1, <2>2, <2>3 DEF TakeNotification, TakeKeepAlive, TakeAcknowledgement, TakeValue
  <2> QED
    BY <1>2, <2>1, <2>2, <2>3
<1>5. CASE Established
  <2>1. deviceGuid' = NoGuid
    BY <1>0, <1>5 DEF Established, AskForGuid
  <2> QED
    BY <2>1
<1>6. CASE ConnectionLost \/ Disconnect
  <2>1. ~ linked'
    BY <1>6 DEF ConnectionLost, Disconnect, Cut
  <2> QED
    BY <2>1
<1>7. CASE Connect
  BY <1>1, <1>7 DEF Connect
<1>8. CASE DeviceTakes \/ DeviceReports \/ DeviceBeats
  <2>1. UNCHANGED controllerVars
    BY <1>8 DEF DeviceTakes, DeviceReports, DeviceBeats
  <2> QED
    BY <1>1, <2>1 DEF controllerVars
<1>9. CASE SetObjectValue \/ \E type \in setup.reads : ReadAs(type)
  BY <1>1, <1>9 DEF SetObjectValue, ReadAs, controllerVars
<1>10. CASE UNCHANGED vars
  BY <1>1, <1>10 DEF vars, controllerVars
<1> QED
  BY <1>3, <1>4, <1>5, <1>6, <1>7, <1>8, <1>9, <1>10 DEF Next

(* So an object that is tracked in a session is what it is set through.    *)
LEMMA TrackedIsTarget ==
  ASSUME setup \in Setups, NamedOK, ListedOK, Serving, NEW i \in 1 .. Len(tracked),
         NEW object, object = tracked[i].object
  PROVE  TargetDefinition(object) = tracked[i].def
<1> DEFINE def == tracked[i].def
<1>1. Named(object, def)
  BY Zenon DEF NamedOK
<1>2. IsSoundscape => Listed(object, def)
  BY Zenon DEF ListedOK, Serving
<1> HIDE DEF def
<1>3. CASE setup.kind = "amp"
  <2>1. TargetDefinition(object) = AmpObjectDefinition(setup.ampType, object[1], object[2][1])
    BY <1>3 DEF TargetDefinition, IsSoundscape
  <2> QED
    BY <1>1, <1>3, <2>1, Zenon DEF Named, def
<1>4. CASE setup.kind = "soundscape"
  <2>1. TargetDefinition(object) = GetObjectDefinition(object[1], object[2], TRUE, stackIdent)
        /\ IsSoundscape
    BY <1>4 DEF TargetDefinition, IsSoundscape
  <2> QED
    BY <1>2, <2>1, Zenon DEF Listed, ListedIn, def
<1>5. CASE setup.kind = "plain"
  <2>1. TargetDefinition(object) = setup.defs[object[2][1]]
    BY <1>5 DEF TargetDefinition, IsSoundscape
  <2> QED
    BY <1>1, <1>5, <2>1, Zenon DEF Named, def
<1> QED
  BY <1>3, <1>4, <1>5, SetupIsProper

-----------------------------------------------------------------------------
(* A set that was asked for is under way, behind every other of the object *)
(* it is meant for, or the device has taken it.                            *)

Setting(ono) == {msg \in Messages(Requests) : msg.paramCount # 0 /\ msg.ono = ono}
Carrying(level, data) ==
  {msg \in Messages(Requests) : msg.defLevel = level /\ msg.data = data}

IsSet(def, bytes, data, reqs) ==
  \/ LastIn(reqs, Setting(def.ono), Carrying(def.level, data))
  \/ NoneIn(reqs, Setting(def.ono)) /\ (bytes = data \/ Len(data) # Len(bytes))

Sets(reqs) ==
  \A i \in 1 .. Len(tracked) :
    tracked[i].object = asked.object =>
      asked.ono = tracked[i].def.ono /\ IsSet(tracked[i].def, Held(tracked[i].def), asked.data, reqs)

SetsInv ==
  /\ asked # NotAsked => linked
  /\ asked # NotAsked /\ RevisionIsKnown =>
       Serving /\ \E reqs : Speaks(toDevice, reqs, Requests) /\ Sets(reqs)

(* What a plain controller is asked to set is the first property of an     *)
(* object, the one a device can set.  In the tables of the others all are. *)
SetsFirst == setup.kind = "plain" =>
  \A i \in 1 .. Len(tracked) :
    tracked[i].object = asked.object => tracked[i].def.index = 1

(* With nothing asked there is nothing to say,                             *)
LEMMA SetsNothing ==
  ASSUME asked' = NotAsked
  PROVE  SetsInv'
BY Zenon DEF SetsInv

(* and nothing new of what another step leaves.                            *)
LEMMA SetsSame ==
  ASSUME SetsInv, setup' = setup, guid' = guid, linked' = linked, deviceGuid' = deviceGuid,
         tracked' = tracked, asked' = asked, toDevice' = toDevice, held' = held
  PROVE  SetsInv'
<1>1. (Serving' <=> Serving) /\ (RevisionIsKnown' <=> RevisionIsKnown)
  BY SameModes, Zenon DEF RevisionIsKnown, IsSoundscape
<1>2. \A def : Held(def)' = Held(def)
  BY SameHeld
<1>3. ASSUME NEW reqs, Sets(reqs) PROVE Sets(reqs)'
  <2>1. ASSUME NEW i \in 1 .. Len(tracked), tracked[i].object = asked.object
        PROVE  /\ asked.ono = tracked[i].def.ono
               /\ IsSet(tracked[i].def, Held(tracked[i].def)', asked.data, reqs)
    <3>1. PICK def : def = tracked[i].def
      OBVIOUS
    <3>2. asked.ono = def.ono /\ IsSet(def, Held(def), asked.data, reqs)
      BY <1>3, <2>1, <3>1, Zenon DEF Sets
    <3>3. Held(def)' = Held(def)
      BY <1>2
    <3> QED
      BY <3>1, <3>2, <3>3, Zenon
  <2> QED
    BY <2>1, Zenon DEF Sets, IsSet, Setting, Carrying
<1> QED
  BY <1>1, <1>3, Zenon DEF SetsInv

(* The fields of a set.                                                    *)
LEMMA SetFields ==
  ASSUME NEW def, NEW handle, NEW data, NEW msg, msg = SetValueCommand(def, handle, data)
  PROVE  /\ msg.paramCount = 1 /\ msg.ono = def.ono /\ msg.defLevel = def.level
         /\ msg.data = data
BY DEF SetValueCommand, CommandMessage

(* What the application asks for goes behind all the rest.                 *)
LEMMA SetsAsked ==
  ASSUME setup \in Setups, HandlesOK, HandlesFit', SessionInv, NamedOK, ListedOK, SetObjectValue
  PROVE  SetsInv'
<1>1. PICK r, a : Says(r, a) /\ Session(r, a)
  BY Zenon DEF SessionInv
<1>2. /\ state = "Connected" /\ linked /\ nextHandle' = nextHandle + 1
      /\ setup' = setup /\ linked' = linked /\ deviceGuid' = deviceGuid
      /\ tracked' = tracked /\ guid' = guid /\ held' = held
  BY DEF SetObjectValue, deviceVars
<1>3. (Serving' <=> Serving) /\ (Greeting' <=> Greeting)
      /\ (RevisionIsKnown' <=> RevisionIsKnown)
  BY <1>2, SameModes, Zenon DEF RevisionIsKnown, IsSoundscape
<1>4. ~ Greeting
  <2>1. Greeting => Greets(r, a)
    BY <1>1, SessionHas
  <2> QED
    BY <1>2, <2>1 DEF Greets
<1>5. RevisionIsKnown => Serving
  BY <1>2, <1>4, Zenon DEF Greeting, Serving
<1> DEFINE Variant(object, value) ==
             IF setup.kind = "amp" THEN AmpSetVariant(object[1], value) ELSE value
<1>6. PICK object \in setup.targets, value \in setup.values :
        LET def == TargetDefinition(object)
            data == ToParamData(Variant(object, value), def.type).value
        IN  /\ def # NoDefinition
            /\ toDevice' = toDevice \o GetSerializedData(SetValueCommand(def, nextHandle, data))
            /\ asked' = [object |-> object, ono |-> def.ono, data |-> data]
  BY Zenon DEF SetObjectValue
<1>7. PICK def, data : /\ def = TargetDefinition(object)
                       /\ data = ToParamData(Variant(object, value), def.type).value
  OBVIOUS
<1>8. /\ def # NoDefinition
      /\ toDevice' = toDevice \o GetSerializedData(SetValueCommand(def, nextHandle, data))
      /\ asked' = [object |-> object, ono |-> def.ono, data |-> data]
  <2> HIDE DEF Variant
  <2> QED
    BY <1>6, <1>7, Zenon
<1>9. IsTarget(def) /\ IsSetValue(Variant(object, value))
  BY <1>7, <1>8, SetIsTarget
<1> HIDE DEF Variant
<1>10. IsData(data)
  <2>1. def.type \in DataTypes
    BY <1>9, Zenon DEF IsTarget
  <2> QED
    BY <1>7, <1>9, <2>1, ParamsAreData, Zenon
<1>11. nextHandle \in Long \ {0}
  <2>1. nextHandle \in Nat /\ nextHandle' = nextHandle + 1
    BY <1>2 DEF HandlesOK
  <2>2. nextHandle' \in Nat /\ nextHandle' >= nextHandle
        /\ nextHandle \in nextHandle .. nextHandle' - 1
    BY <2>1
  <2> QED
    BY <2>2, HandlesOfStep, Zenon
<1>12. PICK msg : msg = SetValueCommand(def, nextHandle, data)
  OBVIOUS
<1>13. IsRequest(msg)
  BY <1>9, <1>10, <1>11, <1>12, CommandsAreRequests, Zenon
<1>14. /\ msg.paramCount = 1 /\ msg.ono = def.ono /\ msg.defLevel = def.level
       /\ msg.data = data
  BY <1>12, SetFields
<1>15. /\ Speaks(toDevice, r, Requests) /\ r \in Seq(Messages(Requests))
  BY <1>1, SessionHas
<1>16. PICK t : t = Append(r, msg)
  OBVIOUS
<1>17. Speaks(toDevice', t, Requests) /\ msg \in Messages(Requests)
  <2>1. GetSerializedData(msg) \in Requests /\ msg = UnmarshalOcp1Message(GetSerializedData(msg))
    BY <1>13, RequestSays
  <2> QED
    BY <1>8, <1>12, <1>15, <1>16, <2>1, FramesAreSequences, MoreSaid, Zenon
<1>18. ASSUME Serving PROVE Sets(t)'
  <2> SUFFICES ASSUME NEW i \in 1 .. Len(tracked'), tracked'[i].object = asked'.object
               PROVE  /\ asked'.ono = tracked'[i].def.ono
                      /\ IsSet(tracked'[i].def, Held(tracked[i].def)', asked'.data, t)
    BY Zenon DEF Sets, IsSet, Setting, Carrying
  <2>1. asked'.object = object /\ asked'.ono = def.ono /\ asked'.data = data
    BY <1>8
  <2>2. i \in 1 .. Len(tracked) /\ object = tracked[i].object
    BY <1>2, <2>1, Zenon
  <2>3. TargetDefinition(object) = tracked[i].def
    BY <1>18, <2>2, TrackedIsTarget
  <2>4. tracked'[i].def = def
    BY <1>2, <1>7, <2>3, Zenon
  <2>5. msg \in Setting(def.ono) /\ msg \in Carrying(def.level, data)
    <3>1. msg.paramCount # 0
      BY <1>14
    <3> QED
      BY <1>14, <1>17, <3>1, Zenon DEF Setting, Carrying
  <2>6. LastIn(t, Setting(def.ono), Carrying(def.level, data))
    BY <1>15, <1>16, <1>17, <2>5, LastAppended, Zenon
  <2> QED
    BY <2>1, <2>4, <2>6, Zenon DEF IsSet
<1> QED
  BY <1>2, <1>3, <1>5, <1>17, <1>18, Zenon DEF SetsInv

(* A request for another object, or one that sets nothing, leaves what is  *)
(* held of an object;                                                      *)
LEMMA HeldAside ==
  ASSUME setup \in Setups, setup' = setup, guid' = guid, NEW msg, msg.ono \in Long,
         DeviceSubscribes(msg) \/ DeviceAnswers(msg) \/ DeviceSets(msg),
         NEW def, msg.ono # def.ono \/ msg.paramCount = 0
  PROVE  Held(def)' = Held(def)
<1>1. CASE held' = held
  BY <1>1, SameHeld, Zenon
<1>2. CASE held' # held
  <2>1. DeviceSets(msg)
    BY <1>2 DEF DeviceSubscribes, DeviceAnswers
  <2> DEFINE meant == {d \in DeviceDefinitions(msg.ono) : d.index = 1 /\ d.level = msg.defLevel}
             fits == /\ meant # {}
                     /\ \/ (CHOOSE d \in meant : TRUE).type = "STRING"
                        \/ Len(msg.data) = Len(Held(CHOOSE d \in meant : TRUE))
  <2>2. PICK d : d = CHOOSE e \in meant : TRUE
    OBVIOUS
  <2>3. /\ msg.paramCount > 0
        /\ held' = IF fits THEN With(held, << d.ono, d.index >>, msg.data) ELSE held
    BY <2>1, <2>2, Zenon DEF DeviceSets
  <2>4. fits /\ held' = With(held, << d.ono, d.index >>, msg.data)
    BY <1>2, <2>3, Zenon
  <2>5. meant # {}
    BY <2>4
  <2>6. d \in DeviceDefinitions(msg.ono)
    BY <2>2, <2>5, Zenon
  <2>7. d.ono = msg.ono
    BY <2>6, MembersHaveNumber
  <2>8. msg.paramCount # 0
    BY <2>3
  <2>9. def.ono # d.ono
    BY <2>7, <2>8
  <2> QED
    BY <2>4, <2>9, HeldNow, Zenon
<1> QED
  BY <1>1, <1>2

(* one that sets it is taken, or has not the width of what is held.        *)
LEMMA SetIsTaken ==
  ASSUME setup' = setup, guid' = guid, NEW msg, DeviceSets(msg), NEW def,
         DeviceDefinitions(msg.ono) = {def}, def.index = 1, msg.defLevel = def.level
  PROVE  Held(def)' = msg.data \/ (Held(def)' = Held(def) /\ Len(msg.data) # Len(Held(def)))
<1> DEFINE meant == {d \in DeviceDefinitions(msg.ono) : d.index = 1 /\ d.level = msg.defLevel}
           fits == /\ meant # {}
                   /\ \/ (CHOOSE d \in meant : TRUE).type = "STRING"
                      \/ Len(msg.data) = Len(Held(CHOOSE d \in meant : TRUE))
<1>1. PICK d : d = CHOOSE e \in meant : TRUE
  OBVIOUS
<1>2. held' = IF fits THEN With(held, << d.ono, d.index >>, msg.data) ELSE held
  BY <1>1, Zenon DEF DeviceSets
<1>3. meant = {def}
  OBVIOUS
<1> HIDE DEF meant
<1>4. d = def /\ meant # {}
  BY <1>1, <1>3
<1>5. CASE fits
  <2>1. held' = With(held, << def.ono, def.index >>, msg.data)
    BY <1>2, <1>4, <1>5, Zenon
  <2>2. Held(def)' = msg.data
    BY <2>1, HeldNow, Zenon
  <2> QED
    BY <2>2
<1>6. CASE ~ fits
  <2>1. held' = held
    BY <1>2, <1>6, Zenon
  <2>2. Held(def)' = Held(def)
    BY <2>1, SameHeld, Zenon
  <2>3. Len(msg.data) # Len(Held(def))
    BY <1>1, <1>4, <1>6, Zenon
  <2> QED
    BY <2>2, <2>3
<1> QED
  BY <1>5, <1>6

(* What is done with the first of the requests, for one object.            *)
LEMMA SetOn ==
  ASSUME setup \in Setups, setup' = setup, guid' = guid,
         NEW reqs \in Seq(Messages(Requests)), reqs # << >>,
         DeviceSubscribes(reqs[1]) \/ DeviceAnswers(reqs[1]) \/ DeviceSets(reqs[1]),
         NEW def, def.ono # SubscriptionManager, DeviceDefinitions(def.ono) = {def},
         def.index = 1, NEW data, IsSet(def, Held(def), data, reqs)
  PROVE  IsSet(def, Held(def)', data, Tail(reqs))
<1> DEFINE A == Setting(def.ono)
           B == Carrying(def.level, data)
<1>1. PICK msg : msg = reqs[1]
  OBVIOUS
<1>2. msg \in Messages(Requests)
  <2>1. PICK T : T = Messages(Requests)
    OBVIOUS
  <2> QED
    BY <1>1, <2>1
<1>3. msg.ono \in Long
  <2>1. IsRequest(msg)
    BY <1>2, RequestsAre
  <2> QED
    BY <2>1, RequestIsSent, Zenon
<1>4. DeviceSubscribes(msg) \/ DeviceAnswers(msg) \/ DeviceSets(msg)
  BY <1>1, Zenon
<1>5. CASE LastIn(reqs, A, B)
  <2>1. CASE LastIn(Tail(reqs), A, B)
    BY <2>1, Zenon DEF IsSet
  <2>2. CASE msg \in A /\ msg \in B /\ NoneIn(Tail(reqs), A)
    <3>1. msg.paramCount # 0 /\ msg.ono = def.ono /\ msg.defLevel = def.level /\ msg.data = data
      BY <2>2, Zenon DEF Setting, Carrying
    <3>2. DeviceSets(msg)
      BY <1>4, <3>1 DEF DeviceSubscribes, DeviceAnswers
    <3>3. DeviceDefinitions(msg.ono) = {def}
      BY <3>1, Zenon
    <3>4. Held(def)' = msg.data \/ (Held(def)' = Held(def) /\ Len(msg.data) # Len(Held(def)))
      BY <3>1, <3>2, <3>3, SetIsTaken
    <3>5. Held(def)' = data \/ Len(data) # Len(Held(def)')
      BY <3>1, <3>4, Zenon
    <3> QED
      BY <2>2, <3>5, Zenon DEF IsSet
  <2>3. PICK T : T = Messages(Requests)
    OBVIOUS
  <2>4. reqs \in Seq(T)
    BY <2>3
  <2> HIDE DEF A, B
  <2>5. \/ LastIn(Tail(reqs), A, B)
        \/ reqs[1] \in A /\ reqs[1] \in B /\ NoneIn(Tail(reqs), A)
    BY <1>5, <2>4, LastTaken
  <2> QED
    BY <1>1, <2>1, <2>2, <2>5
<1>6. CASE NoneIn(reqs, A) /\ (Held(def) = data \/ Len(data) # Len(Held(def)))
  <2>1. 1 \in 1 .. Len(reqs)
    <3>1. PICK T : T = Messages(Requests)
      OBVIOUS
    <3> QED
      BY <3>1
  <2>2. msg \notin A
    BY <1>1, <1>6, <2>1, Zenon DEF NoneIn
  <2>3. msg.ono # def.ono \/ msg.paramCount = 0
    BY <1>2, <2>2, Zenon DEF Setting
  <2>4. Held(def)' = Held(def)
    BY <1>3, <1>4, <2>3, HeldAside
  <2>5. NoneIn(Tail(reqs), A)
    BY <1>6, NoneTaken
  <2> QED
    BY <1>6, <2>4, <2>5, Zenon DEF IsSet
<1> QED
  BY <1>5, <1>6, Zenon DEF IsSet

(* The device takes a request.                                             *)
LEMMA SetsTaken ==
  ASSUME setup \in Setups, NamedOK, DeviceServes, SetsFirst, SetsInv, DeviceTakes
  PROVE  SetsInv'
<1> DEFINE msg == UnmarshalOcp1Message(FirstFrame(toDevice))
<1>1. /\ toDevice # << >> /\ toDevice' = AfterFirstFrame(toDevice)
      /\ DeviceSubscribes(msg) \/ DeviceAnswers(msg) \/ DeviceSets(msg)
  BY Zenon DEF DeviceTakes
<1>2. /\ setup' = setup /\ guid' = guid /\ linked' = linked /\ deviceGuid' = deviceGuid
      /\ tracked' = tracked /\ asked' = asked
  BY DEF DeviceTakes, controllerVars, appVars
<1>3. (Serving' <=> Serving) /\ (RevisionIsKnown' <=> RevisionIsKnown)
  BY <1>2, SameModes, Zenon DEF RevisionIsKnown, IsSoundscape
<1>4. asked' # NotAsked => linked'
  BY <1>2, Zenon DEF SetsInv
<1>5. ASSUME Serving, NEW reqs, Speaks(toDevice, reqs, Requests), Sets(reqs)
      PROVE  Speaks(toDevice', Tail(reqs), Requests) /\ Sets(Tail(reqs))'
  <2>1. Requests \in SUBSET Frames
    BY RequestsAreFrames
  <2>2. /\ reqs # << >> /\ msg = reqs[1] /\ Speaks(AfterFirstFrame(toDevice), Tail(reqs), Requests)
    BY <1>1, <1>5, <2>1, SaidFirst
  <2>3. reqs \in Seq(Messages(Requests))
    BY <1>5, FramesAreSequences, SaidIsSeq
  <2> HIDE DEF msg
  <2>4. DeviceSubscribes(reqs[1]) \/ DeviceAnswers(reqs[1]) \/ DeviceSets(reqs[1])
    BY <1>1, <2>2, Zenon
  <2>5. ASSUME NEW i \in 1 .. Len(tracked), tracked[i].object = asked.object,
               NEW def, def = tracked[i].def
        PROVE  asked.ono = def.ono /\ IsSet(def, Held(def)', asked.data, Tail(reqs))
    <3>1. Willing(tracked[i].object, def) /\ def.index = 1
      <4>1. setup.kind # "plain" => def.index = 1
        BY <2>5, Zenon DEF NamedOK, Named
      <4> QED
        BY <1>5, <2>5, <4>1, Zenon DEF DeviceServes, SetsFirst
    <3>2. asked.ono = def.ono /\ IsSet(def, Held(def), asked.data, reqs)
      BY <1>5, <2>5, Zenon DEF Sets
    <3>3. def.ono # SubscriptionManager /\ DeviceDefinitions(def.ono) = {def}
      BY <3>1, Zenon DEF Willing
    <3>4. PICK data : data = asked.data
      OBVIOUS
    <3>5. IsSet(def, Held(def), data, reqs)
      BY <3>2, <3>4, Zenon
    <3>6. IsSet(def, Held(def)', data, Tail(reqs))
      BY <1>2, <2>2, <2>3, <2>4, <3>1, <3>3, <3>5, SetOn
    <3> QED
      BY <3>2, <3>4, <3>6, Zenon
  <2>6. Sets(Tail(reqs))'
    <3> SUFFICES ASSUME NEW i \in 1 .. Len(tracked'), tracked'[i].object = asked'.object
                 PROVE  /\ asked'.ono = tracked'[i].def.ono
                        /\ IsSet(tracked'[i].def, Held(tracked[i].def)', asked'.data, Tail(reqs))
      BY Zenon DEF Sets, IsSet, Setting, Carrying
    <3>1. PICK def : def = tracked[i].def
      OBVIOUS
    <3>2. i \in 1 .. Len(tracked) /\ tracked[i].object = asked.object
      BY <1>2, Zenon
    <3>3. asked.ono = def.ono /\ IsSet(def, Held(def)', asked.data, Tail(reqs))
      BY <2>5, <3>1, <3>2, Zenon
    <3>4. tracked'[i].def = def
      BY <1>2, <3>1, Zenon
    <3> QED
      BY <1>2, <3>3, <3>4, Zenon
  <2> QED
    BY <1>1, <2>2, <2>6, Zenon
<1> QED
  BY <1>2, <1>3, <1>4, <1>5, Zenon DEF SetsInv

LEMMA InitSets == Init => SetsInv
BY DEF Init, SetsInv

(* Every step keeps it.                                                    *)
LEMMA NextSets ==
  ASSUME Inv, HandlesFit', DeviceServes, SetsFirst, SessionInv, NamedOK, ListedOK, SetsInv,
         [Next]_vars
  PROVE  SetsInv'
<1>0. setup \in Setups /\ HandlesOK /\ setup' = setup
  BY SetupStays DEF Inv, KnownInv
<1>1. ASSUME asked = NotAsked, asked' = asked PROVE SetsInv'
  BY <1>1, SetsNothing, Zenon
<1>2. ~ linked => asked = NotAsked
  BY Zenon DEF SetsInv
<1>3. state = "Disconnected" => ~ linked
  BY Zenon DEF SessionInv, Session
<1>4. CASE Configure
  <2>1. /\ guid' = guid /\ linked' = linked /\ deviceGuid' = deviceGuid
        /\ asked' = asked /\ toDevice' = toDevice /\ held' = held
    BY <1>4 DEF Configure, appVars, deviceVars
  <2>2. CASE SetActiveRemoteObjects \/ SetAmpType \/ TrackObject
    <3>1. state = "Disconnected"
      BY <2>2 DEF SetActiveRemoteObjects, SetAmpType, TrackObject
    <3> QED
      BY <1>1, <1>2, <1>3, <2>1, <3>1
  <2>3. CASE SetDeviceIOSize
    <3>1. tracked' = tracked
      BY <2>3 DEF SetDeviceIOSize
    <3> QED
      BY <1>0, <2>1, <3>1, SetsSame
  <2> QED
    BY <1>4, <2>2, <2>3 DEF Configure
<1>5. CASE Connect \/ Established
  <2>1. asked' = asked /\ ~ linked
    BY <1>3, <1>5 DEF Connect, Established, appVars
  <2> QED
    BY <1>1, <1>2, <2>1
<1>6. CASE ConnectionLost \/ Disconnect \/ DeviceReports
  <2>1. asked' = NotAsked
    BY <1>6 DEF ConnectionLost, Disconnect, Cut, DeviceReports
  <2> QED
    BY <2>1, SetsNothing
<1>7. CASE DeviceTakes
  BY <1>0, <1>7, SetsTaken
<1>8. CASE DeviceBeats \/ (\E type \in setup.reads : ReadAs(type)) \/ UNCHANGED vars
  <2>1. /\ guid' = guid /\ linked' = linked /\ deviceGuid' = deviceGuid /\ tracked' = tracked
        /\ asked' = asked /\ toDevice' = toDevice /\ held' = held
    BY <1>8 DEF DeviceBeats, ReadAs, vars, controllerVars, appVars, deviceVars
  <2> QED
    BY <1>0, <2>1, SetsSame
<1>9. CASE ProcessMessage
  <2>1. /\ guid' = guid /\ linked' = linked /\ asked' = asked /\ held' = held
    BY <1>9 DEF ProcessMessage, deviceVars
  <2>2. PICK msg : TakeNotification(msg) \/ TakeKeepAlive(msg) \/ TakeAcknowledgement(msg)
                     \/ TakeValue(msg) \/ TakeGuid(msg)
    BY <1>9 DEF ProcessMessage
  <2>3. CASE TakeNotification(msg) \/ TakeKeepAlive(msg) \/ TakeAcknowledgement(msg)
               \/ TakeValue(msg)
    <3>1. deviceGuid' = deviceGuid /\ tracked' = tracked /\ toDevice' = toDevice
      BY <2>3 DEF TakeNotification, TakeKeepAlive, TakeAcknowledgement, TakeValue
    <3> QED
      BY <1>0, <2>1, <3>1, SetsSame
  <2>4. CASE TakeGuid(msg)
    <3>1. msg.handle \in DOMAIN pendingGets /\ TrackedAt(pendingGets[msg.handle]) = {}
      BY <2>4 DEF TakeGuid
    <3>2. ~ Serving
      BY <3>1, Zenon DEF SessionInv, Session, Serves
    <3>3. asked # NotAsked => ~ RevisionIsKnown /\ linked
      BY <3>2, Zenon DEF SetsInv
    <3>4. RevisionIsKnown' <=> RevisionIsKnown
      BY <1>0, <2>1, Zenon DEF RevisionIsKnown, IsSoundscape
    <3> QED
      BY <2>1, <3>3, <3>4, Zenon DEF SetsInv
  <2> QED
    BY <2>2, <2>3, <2>4
<1>10. CASE SetObjectValue
  BY <1>0, <1>10, SetsAsked
<1> QED
  BY <1>4, <1>5, <1>6, <1>7, <1>8, <1>9, <1>10 DEF Next

(* When nothing is under way, the object that was set holds what was sent. *)
LEMMA QuietIsSet ==
  ASSUME NamedOK, SetsInv
  PROVE  SetReachesItsObject
<1> SUFFICES ASSUME Quiet, RevisionIsKnown, NEW i \in 1 .. Len(tracked),
                    tracked[i].object = asked.object, NEW def, def = tracked[i].def
             PROVE  \/ Held(def) = asked.data
                    \/ asked.ono = def.ono /\ Len(asked.data) # Len(Held(def))
  BY Zenon DEF SetReachesItsObject
<1>1. asked # NotAsked
  <2>1. Named(tracked[i].object, def)
    BY Zenon DEF NamedOK
  <2>2. tracked[i].object[1] # NotAsked.object[1]
    BY <2>1, Zenon DEF Named
  <2> QED
    BY <2>2, Zenon
<1>2. PICK reqs : Speaks(toDevice, reqs, Requests) /\ Sets(reqs)
  BY <1>1, Zenon DEF SetsInv
<1>3. reqs = << >>
  <2>1. toDevice = << >> /\ Requests \in SUBSET Frames
    BY RequestsAreFrames DEF Quiet
  <2>2. Speaks(<< >>, reqs, Requests)
    BY <1>2, <2>1, Zenon
  <2> QED
    BY <2>1, <2>2, NothingIsSaid, Zenon
<1>4. asked.ono = def.ono /\ IsSet(def, Held(def), asked.data, reqs)
  BY <1>2, Zenon DEF Sets
<1>5. 1 .. Len(<< >>) = {}
  OBVIOUS
<1>6. \A A, B : ~ LastIn(reqs, A, B)
  BY <1>3, <1>5, Zenon DEF LastIn
<1> QED
  BY <1>4, <1>6, Zenon DEF IsSet

-----------------------------------------------------------------------------
(* A set reaches the object it names: the object the application listens   *)
(* to under that name holds what was sent, with a device that serves the   *)
(* controller and, for a plain one, if what is set is a first property.    *)
ReachedInv == ServedInv /\ NamedOK /\ SizedOK /\ ListedOK /\ SetsInv

THEOREM SetsReachTheirObject ==
  Spec /\ [](HandlesFit /\ DeviceServes /\ SetsFirst) => []SetReachesItsObject
<1>1. Init => ReachedInv
  BY InitInv, InitFramed, InitMatched, InitSession, InitTargets, InitSets, Zenon
     DEF ServedInv, ReachedInv
<1>2. ASSUME ReachedInv, HandlesFit /\ DeviceServes /\ SetsFirst,
             (HandlesFit /\ DeviceServes /\ SetsFirst)', [Next]_vars
      PROVE  ReachedInv'
  <2>1. ServedInv /\ NamedOK /\ SizedOK /\ ListedOK /\ SetsInv
    BY <1>2, Zenon DEF ReachedInv
  <2>2. HandlesFit /\ HandlesFit' /\ DeviceServes /\ DeviceServes' /\ SetsFirst
    BY <1>2
  <2>3. ServedInv'
    BY <1>2, <2>1, <2>2, NextServed
  <2>4. Inv /\ KnownInv' /\ SessionInv
    BY <2>1, <2>3, Zenon DEF ServedInv, Inv
  <2>5. NamedOK' /\ SizedOK' /\ ListedOK'
    BY <1>2, <2>1, <2>4, NamedStep, SizedStep, ListedStep, Zenon
  <2>6. SetsInv'
    BY <1>2, <2>1, <2>2, <2>4, NextSets
  <2> QED
    BY <2>1, <2>3, <2>5, <2>6, Zenon DEF ReachedInv
<1>3. ReachedInv => SetReachesItsObject
  BY QuietIsSet, Zenon DEF ReachedInv
<1> QED
  BY <1>1, <1>2, <1>3, PTL DEF Spec
=============================================================================
