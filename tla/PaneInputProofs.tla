--------------------------- MODULE PaneInputProofs ---------------------------
(***************************************************************************)
(* Theorems about PaneInput, for every set of messages and drafts and      *)
(* every bound: every prompt is one whole message, nothing that was typed  *)
(* is lost in silence, and what is given back as not delivered is not with *)
(* Claude; each up to what the hub could not see in the box.               *)
(***************************************************************************)
EXTENDS PaneInput, SequenceTheorems, TLAPS
-----------------------------------------------------------------------------
(* The inductive invariant: types.                                         *)

Chord == <<"chord", 0>>
AllTexts == Msgs \cup Drafts
Piece == AllTexts \X {1, 2}
Key == (Msgs \X {1, 2}) \cup {Enter, Kill, Esc, Chord}
Frames == {"dialog", "pending", "submitted", "unknown"}
Outcomes == {"none", "deferred", "rejected", "uncertain", "submitted", "unconfirmed"}
Places == {"idle", "read", "esc", "escaped", "clear", "type", "check", "before", "enter",
           "after", "now", "chord"}
Purposes == {"", "type", "retype", "unpaste", "throw", "own", "msg"}
InjectionType ==
    [at : Places, msg : Msgs \cup {Nobody}, for : Purposes,
     n : Nat, typed : {0, 1, 2}, again : Nat, before : Frames \cup {""}, sure : BOOLEAN,
     residue : SUBSET Piece]

Typed ==
    /\ herdr \in BOOLEAN /\ view \in {"composer", "choice", "approval"}
    /\ box \in Seq(Piece) /\ keys \in Seq(Key) /\ prompts \in Seq(Seq(Piece) \ {<<>>})
    /\ young \in BOOLEAN /\ (young => prompts # <<>>)
    /\ inj \in InjectionType /\ own \in Msgs \cup {Nobody}
    /\ verdict \in [Msgs -> Outcomes] /\ tries \in [Msgs -> Nat] /\ doubtful \subseteq Msgs
    /\ told \subseteq Piece /\ fell \subseteq Piece /\ unsaid \subseteq Piece
    /\ drafted \subseteq Drafts /\ unseen \subseteq AllTexts

(* Where the injection is, and what it has with it.                        *)
OfMsg(s, m) == \A i \in 1 .. Len(s) : s[i][1] = m
Busy == inj.at \notin {"idle", "now", "chord"}
Alone ==
    /\ Busy <=> inj.msg # Nobody
    /\ Busy => verdict[inj.msg] \notin {"submitted", "unconfirmed"}
    /\ inj.at # "clear" => inj.residue \subseteq told \cup unsaid
Steps ==
    /\ inj.at \in {"read", "esc", "escaped"} => inj.typed = 0
    /\ inj.at = "type" => inj.typed < Len(Pieces(inj.msg))
    /\ inj.at = "check" => inj.for = "msg"
    /\ inj.at \in {"before", "enter", "after"} => inj.for \in {"own", "msg"}
    /\ inj.at \in {"before", "enter", "after"} /\ inj.for = "own" => inj.typed = 0
    /\ inj.at = "clear" => inj.for \in {"type", "retype", "unpaste", "throw"}
Pressed ==
    /\ inj.at \in {"esc", "enter", "chord"} => keys = <<>>
    /\ inj.at \in {"type", "check", "before"} => OfMsg(keys, inj.msg)
    /\ inj.at = "type" /\ inj.typed = 0 => keys = <<>>
    /\ inj.at = "before" /\ inj.for = "own" => keys = <<>>
    /\ inj.at = "after" => keys \in {<<>>, <<Enter>>}
    /\ inj.at = "clear" => keys \in {<<>>, <<Kill>>} \/ OfMsg(keys, inj.msg)
    /\ \/ keys \in {<<>>, <<Enter>>, <<Kill>>, <<Esc>>, <<Chord>>}
       \/ \E m \in Msgs : OfMsg(keys, m)
(* The texts of the message are on their way, or in the box; it was        *)
(* perhaps submitted.                                                      *)
Submitting == inj.at \in {"before", "enter", "after"} /\ inj.for = "msg"
Started ==
    \/ inj.at \in {"type", "check"} \/ Submitting
    \/ inj.at = "clear" /\ inj.for \in {"retype", "unpaste", "throw"}

-----------------------------------------------------------------------------
(* What is in the box, as long as nothing in it is unseen; and what holds  *)
(* of it all the same.                                                     *)
Tainted == \E k \in ToSet(box) : k[1] \in unseen

Fell(m) == \E i \in {1, 2} : <<m, i>> \in fell
(* The pieces of a message, or what a dialog has left of them.             *)
Whole(s) == \E m \in Msgs : OfMsg(s, m) /\ (s = Pieces(m) \/ Fell(m))
Ahead == box \o keys
Typing ==
    inj.at = "type" =>
        /\ OfMsg(box, inj.msg) /\ OfMsg(keys, inj.msg)
        /\ Ahead = SubSeq(Pieces(inj.msg), 1, inj.typed) \/ Fell(inj.msg)
Typeset ==
    inj.at \in {"check", "before", "enter"} /\ inj.for = "msg" =>
        /\ OfMsg(box, inj.msg) /\ OfMsg(keys, inj.msg)
        /\ Ahead \in {<<>>, Pieces(inj.msg)} \/ Fell(inj.msg)
Entered ==
    inj.at = "after" /\ inj.for = "msg" =>
        /\ keys \in {<<>>, <<Enter>>} /\ OfMsg(box, inj.msg)
        /\ box \in {<<>>, Pieces(inj.msg)} \/ Fell(inj.msg)
Owned ==
    inj.at \in {"before", "enter", "after"} /\ inj.for = "own" =>
        /\ keys \in {<<>>, <<Enter>>} /\ (box # <<>> => Whole(box))
EnterWhole == keys = <<Enter>> /\ box # <<>> => Whole(box)
ChordAlone == inj.at = "chord" \/ keys = <<Chord>> => box = <<>>
Underway ==
    \A m \in Msgs : keys # <<>> /\ OfMsg(keys, m) =>
        OfMsg(box, m) /\ (IsPrefix(Ahead, Pieces(m)) \/ Fell(m))
(* The second half of a message comes first only if the first half fell.   *)
FirstHalf == \A s \in ToSet(prompts) \cup {box} : s # <<>> /\ s[1][2] = 2 => Fell(s[1][1])
Mine ==
    inj.at = "type" \/ (inj.at \in {"check", "before", "enter", "after"} /\ inj.for = "msg") =>
        \A k \in ToSet(box) : k[1] = inj.msg \/ k[1] \in unseen
Prompted == UNION {ToSet(p) : p \in ToSet(prompts)}
Covered(k) ==
    \/ k \in Prompted \cup told \cup unsaid \cup fell \cup inj.residue
    \/ k[1] \in unseen
    \/ k[1] \in Msgs /\ verdict[k[1]] \notin {"submitted", "unconfirmed"}
Killing ==
    inj.at = "clear" \/ keys = <<Kill>> =>
        \A k \in ToSet(box) \cup ToSet(keys) : k = Kill \/ Covered(k)
Somewhere ==
    (inj.at = "type" /\ inj.typed > 0) \/ (inj.at \in {"check", "before", "enter", "after"} /\ inj.for = "msg")
        => <<inj.msg, 1>> \in ToSet(box) \cup ToSet(keys) \cup Prompted \cup fell
AllWhole == \A p \in ToSet(prompts) : Whole(p) \/ \E k \in ToSet(p) : k[1] \in unseen
AllAccounted == \A x \in (Sent \cup drafted) \ unseen : \E k \in Accounted : k[1] = x
(* No text of a message that never ended in doubt is with Claude, but of   *)
(* the one that is being typed.                                            *)
Fresh ==
    \A m \in Msgs \ doubtful :
        /\ (\E k \in ToSet(box) \cup ToSet(keys) : k[1] = m) => inj.msg = m /\ Started
        /\ (\E k \in Prompted : k[1] = m) => inj.msg = m /\ Submitting

Flow == Alone /\ Steps /\ Pressed
Known == Typing /\ Typeset /\ Entered /\ Owned /\ EnterWhole /\ ChordAlone /\ Underway
Clear ==
    /\ ~Tainted => Known
    /\ FirstHalf /\ Mine /\ Killing /\ Somewhere /\ AllWhole /\ AllAccounted /\ Fresh
PaneInv == Typed /\ Flow /\ Clear
-----------------------------------------------------------------------------
(* Sequences of pieces and keys.                                           *)

LEMMA PiecesAre ==
    ASSUME NEW m \in Msgs
    PROVE  /\ Pieces(m) \in Seq(Piece) /\ Pieces(m) \in Seq(Key) /\ Pieces(m) # <<>>
           /\ Len(Pieces(m)) = (IF m \in Long THEN 2 ELSE 1)
           /\ Pieces(m)[1] = <<m, 1>> /\ (m \in Long => Pieces(m)[2] = <<m, 2>>)
           /\ OfMsg(Pieces(m), m)
<1>1. /\ <<m, 1>> \in Piece /\ <<m, 2>> \in Piece /\ <<m, 1>> \in Key /\ <<m, 2>> \in Key
      /\ <<m, 1>>[1] = m /\ <<m, 2>>[1] = m
  BY DEF Piece, Key, AllTexts
<1>2. CASE m \in Long
  <2>1. Pieces(m) = << <<m, 1>>, <<m, 2>> >>
    BY <1>2 DEF Pieces
  <2> QED
    BY <1>1, <1>2, <2>1 DEF OfMsg
<1>3. CASE m \notin Long
  <2>1. Pieces(m) = << <<m, 1>> >>
    BY <1>3 DEF Pieces
  <2> QED
    BY <1>1, <1>3, <2>1 DEF OfMsg
<1> QED
  BY <1>2, <1>3

LEMMA ElementsOf ==
    ASSUME NEW S, NEW s \in Seq(S)
    PROVE  /\ ToSet(s) \subseteq S
           /\ \A x : x \in ToSet(s) <=> \E i \in 1 .. Len(s) : s[i] = x
           /\ \A m : OfMsg(s, m) <=> \A x \in ToSet(s) : x[1] = m
<1>1. DOMAIN s = 1 .. Len(s) /\ \A i \in 1 .. Len(s) : s[i] \in S
  OBVIOUS
<1>2. \A x : x \in ToSet(s) <=> \E i \in 1 .. Len(s) : s[i] = x
  BY <1>1 DEF ToSet
<1> QED
  BY <1>1, <1>2 DEF OfMsg

LEMMA EmptyIs == ToSet(<<>>) = {} /\ \A m : OfMsg(<<>>, m)
<1>1. DOMAIN <<>> = {} /\ Len(<<>>) = 0
  OBVIOUS
<1>2. ToSet(<<>>) = {}
  BY <1>1 DEF ToSet
<1> QED
  BY <1>1, <1>2 DEF OfMsg

LEMMA AppendIs ==
    ASSUME NEW S, NEW s \in Seq(S), NEW e \in S
    PROVE  /\ Append(s, e) \in Seq(S) /\ Append(s, e) # <<>>
           /\ ToSet(Append(s, e)) = ToSet(s) \cup {e}
           /\ s # <<>> => Append(s, e)[1] = s[1]
           /\ s = <<>> => Append(s, e)[1] = e
<1> DEFINE t == Append(s, e)
<1>1. /\ t \in Seq(S) /\ Len(t) = Len(s) + 1 /\ t # <<>> /\ t[Len(s) + 1] = e
      /\ \A i \in 1 .. Len(s) : t[i] = s[i]
  BY AppendProperties
<1> HIDE DEF t
<1>2. \A i \in 1 .. Len(t) : i \in 1 .. Len(s) \/ i = Len(s) + 1
  BY <1>1
<1>3. \A i \in 1 .. Len(s) : i \in 1 .. Len(t)
  BY <1>1
<1>4. Len(s) + 1 \in 1 .. Len(t)
  BY <1>1
<1>5. \A x : x \in ToSet(t) <=> x \in ToSet(s) \/ x = e
  BY <1>1, <1>2, <1>3, <1>4, ElementsOf
<1>6. s # <<>> => 1 \in 1 .. Len(s)
  OBVIOUS
<1>7. s = <<>> => Len(s) = 0
  OBVIOUS
<1> QED
  BY <1>1, <1>5, <1>6, <1>7 DEF t

LEMMA TailIs ==
    ASSUME NEW S, NEW s \in Seq(S), s # <<>>
    PROVE  /\ Head(s) \in S /\ Tail(s) \in Seq(S)
           /\ ToSet(s) = {Head(s)} \cup ToSet(Tail(s))
<1>1. /\ Head(s) = s[1] /\ Tail(s) \in Seq(S) /\ Len(Tail(s)) = Len(s) - 1
      /\ \A i \in 1 .. Len(Tail(s)) : Tail(s)[i] = s[i + 1]
  BY HeadTailProperties
<1>2. Len(s) \in Nat /\ 1 \in 1 .. Len(s)
  OBVIOUS
<1>3. ASSUME NEW i \in 1 .. Len(s), i # 1
      PROVE  i - 1 \in 1 .. Len(Tail(s)) /\ Tail(s)[i - 1] = s[i]
  BY <1>1, <1>2, <1>3
<1>4. \A i \in 1 .. Len(Tail(s)) : i + 1 \in 1 .. Len(s)
  BY <1>1, <1>2
<1>8. \A x : x \in ToSet(s) <=> \E i \in 1 .. Len(s) : s[i] = x
  BY ElementsOf
<1>9. \A x : x \in ToSet(Tail(s)) <=> \E i \in 1 .. Len(Tail(s)) : Tail(s)[i] = x
  BY <1>1, ElementsOf
<1>5. ASSUME NEW x \in ToSet(s)
      PROVE  x = Head(s) \/ x \in ToSet(Tail(s))
  <2>1. PICK i \in 1 .. Len(s) : s[i] = x
    BY <1>8
  <2>2. i # 1 => i - 1 \in 1 .. Len(Tail(s)) /\ Tail(s)[i - 1] = x
    BY <1>3, <2>1
  <2> QED
    BY <1>1, <1>9, <2>1, <2>2
<1>6. Head(s) \in ToSet(s) /\ \A x \in ToSet(Tail(s)) : x \in ToSet(s)
  <2>1. Head(s) \in ToSet(s)
    BY <1>1, <1>2, <1>8
  <2>2. ASSUME NEW x \in ToSet(Tail(s))
        PROVE  x \in ToSet(s)
    <3>1. PICK i \in 1 .. Len(Tail(s)) : Tail(s)[i] = x
      BY <1>9
    <3>2. i + 1 \in 1 .. Len(s) /\ s[i + 1] = x
      BY <1>1, <1>4, <3>1
    <3> QED
      BY <1>8, <3>2
  <2> QED
    BY <2>1, <2>2
<1>7. Head(s) \in S
  BY HeadTailProperties
<1> QED
  BY <1>1, <1>5, <1>6, <1>7

LEMMA FrontIs ==
    ASSUME NEW S, NEW s \in Seq(S), s # <<>>
    PROVE  /\ Front(s) \in Seq(S) /\ Last(s) \in S
           /\ ToSet(s) = {Last(s)} \cup ToSet(Front(s))
           /\ Front(s) # <<>> => Front(s)[1] = s[1]
<1>1. Len(s) \in Nat /\ Len(s) \in 1 .. Len(s) /\ \A i \in 1 .. Len(s) - 1 : s[i] \in S
  OBVIOUS
<1>2. /\ Front(s) \in Seq(S) /\ Len(Front(s)) = Len(s) - 1
      /\ \A i \in 1 .. Len(s) - 1 : Front(s)[i] = s[i]
  <2>1. 1 \in Int /\ Len(s) - 1 \in Int /\ Len(s) - 1 >= 0
    BY <1>1
  <2>2. /\ SubSeq(s, 1, Len(s) - 1) \in Seq(S)
        /\ Len(SubSeq(s, 1, Len(s) - 1)) = (IF 1 <= Len(s) - 1 THEN Len(s) - 1 - 1 + 1 ELSE 0)
        /\ \A i \in 1 .. Len(s) - 1 - 1 + 1 : SubSeq(s, 1, Len(s) - 1)[i] = s[1 + i - 1]
    BY <1>1, <2>1, SubSeqProperties
  <2>3. \A i \in 1 .. Len(s) - 1 : i \in 1 .. Len(s) - 1 - 1 + 1 /\ 1 + i - 1 = i
    BY <1>1
  <2>4. Len(SubSeq(s, 1, Len(s) - 1)) = Len(s) - 1
    <3>1. ASSUME NEW n \in Nat, n # 0
          PROVE  (IF 1 <= n - 1 THEN n - 1 - 1 + 1 ELSE 0) = n - 1
      BY <3>1
    <3>2. Len(s) # 0
      OBVIOUS
    <3> QED
      BY <1>1, <2>2, <3>1, <3>2
  <2> QED
    BY <2>2, <2>3, <2>4 DEF Front
<1>3. \A i \in 1 .. Len(s) : i \in 1 .. Len(s) - 1 \/ i = Len(s)
  BY <1>1
<1>4. \A x : x \in ToSet(s) <=> x = Last(s) \/ x \in ToSet(Front(s))
  <2>1. \A i \in 1 .. Len(s) - 1 : i \in 1 .. Len(s)
    BY <1>1
  <2>2. \A x : x \in ToSet(s) <=> \E i \in 1 .. Len(s) : s[i] = x
    BY ElementsOf
  <2>3. \A x : x \in ToSet(Front(s)) <=> \E i \in 1 .. Len(s) - 1 : Front(s)[i] = x
    <3>1. \A x : x \in ToSet(Front(s)) <=> \E i \in 1 .. Len(Front(s)) : Front(s)[i] = x
      BY <1>2, ElementsOf
    <3> QED
      BY <1>2, <3>1
  <2>4. \A x : x \in ToSet(Front(s)) <=> \E i \in 1 .. Len(s) - 1 : s[i] = x
    BY <1>2, <2>3
  <2>5. Last(s) = s[Len(s)]
    BY DEF Last
  <2> QED
    BY <1>1, <1>3, <2>1, <2>2, <2>4, <2>5
<1>5. Last(s) \in S
  BY <1>1 DEF Last
<1>6. Front(s) # <<>> => 1 \in 1 .. Len(s) - 1
  BY <1>1, <1>2
<1> QED
  BY <1>2, <1>4, <1>5, <1>6

LEMMA JoinIs ==
    ASSUME NEW S, NEW s \in Seq(S), NEW t \in Seq(S)
    PROVE  /\ s \o t \in Seq(S) /\ s \o <<>> = s /\ <<>> \o s = s
           /\ \A e \in S : s \o Append(t, e) = Append(s \o t, e) /\ s \o <<e>> = Append(s, e)
           /\ t # <<>> => Append(s, Head(t)) \o Tail(t) = s \o t
<1>1. s \o t \in Seq(S) /\ s \o <<>> = s /\ <<>> \o s = s
  BY ConcatProperties, ConcatEmptySeq
<1>2. ASSUME NEW e \in S
      PROVE  <<e>> \in Seq(S) /\ Append(t, e) = t \o <<e>> /\ s \o <<e>> = Append(s, e)
             /\ Append(s \o t, e) = (s \o t) \o <<e>>
  BY <1>1, <1>2, AppendIsConcat
<1>3. ASSUME NEW e \in S
      PROVE  s \o Append(t, e) = Append(s \o t, e)
  <2>1. (s \o t) \o <<e>> = s \o (t \o <<e>>)
    BY <1>2, <1>3, ConcatAssociative
  <2> QED
    BY <1>2, <1>3, <2>1
<1>4. ASSUME t # <<>>
      PROVE  Append(s, Head(t)) \o Tail(t) = s \o t
  <2>1. Head(t) \in S /\ Tail(t) \in Seq(S) /\ <<Head(t)>> \in Seq(S)
    BY <1>4, TailIs
  <2>2. t = <<Head(t)>> \o Tail(t)
    BY <1>4
  <2>3. (s \o <<Head(t)>>) \o Tail(t) = s \o (<<Head(t)>> \o Tail(t))
    BY <2>1, ConcatAssociative
  <2> QED
    BY <1>2, <2>1, <2>2, <2>3
<1> QED
  BY <1>1, <1>2, <1>3, <1>4


(* What of a message may stand where.                                      *)
LEMMA PrefixIs ==
    ASSUME NEW m \in Msgs, NEW S, NEW s \in Seq(S), IsPrefix(s, Pieces(m)), s # <<>>
    PROVE  s[1] = <<m, 1>>
<1>1. Len(s) \in Nat /\ Len(s) # 0 /\ 1 \in 1 .. Len(s)
  OBVIOUS
<1>2. SubSeq(s, 1, Len(s)) = SubSeq(Pieces(m), 1, Len(s)) /\ Len(s) <= Len(Pieces(m))
  BY DEF IsPrefix
<1>3. Pieces(m) \in Seq(Piece) /\ Pieces(m)[1] = <<m, 1>>
  BY PiecesAre
<1>4. SubSeq(s, 1, Len(s))[1] = s[1] /\ SubSeq(Pieces(m), 1, Len(s))[1] = Pieces(m)[1]
  BY <1>1, <1>2, <1>3
<1> QED
  BY <1>2, <1>3, <1>4

LEMMA SelfPrefix ==
    ASSUME NEW m \in Msgs
    PROVE  IsPrefix(Pieces(m), Pieces(m)) /\ IsPrefix(<<>>, Pieces(m))
<1>1. Pieces(m) \in Seq(Piece) /\ Len(Pieces(m)) \in Nat
  BY PiecesAre
<1>2. Len(<<>>) = 0 /\ SubSeq(<<>>, 1, 0) = <<>> /\ SubSeq(Pieces(m), 1, 0) = <<>>
  BY <1>1
<1> QED
  BY <1>1, <1>2 DEF IsPrefix

LEMMA OneOf ==
    ASSUME NEW S, NEW s \in Seq(S), s # <<>>
    PROVE  SubSeq(s, 1, 1) = <<s[1]>>
<1>1. Len(s) \in Nat /\ Len(s) # 0 /\ s[1] \in S
  OBVIOUS
<1>2. \A i \in 1 .. 1 : s[i] \in S
  BY <1>1
<1>3. /\ SubSeq(s, 1, 1) \in Seq(S) /\ Len(SubSeq(s, 1, 1)) = 1
      /\ \A i \in 1 .. 1 : SubSeq(s, 1, 1)[i] = s[i]
  <2>1. 1 \in Int
    OBVIOUS
  <2>2. /\ SubSeq(s, 1, 1) \in Seq(S)
        /\ Len(SubSeq(s, 1, 1)) = (IF 1 <= 1 THEN 1 - 1 + 1 ELSE 0)
        /\ \A i \in 1 .. 1 - 1 + 1 : SubSeq(s, 1, 1)[i] = s[1 + i - 1]
    BY <1>2, <2>1, SubSeqProperties
  <2> QED
    BY <2>2
<1>4. <<s[1]>> \in Seq(S) /\ Len(<<s[1]>>) = 1 /\ <<s[1]>>[1] = s[1]
  BY <1>1
<1>5. \A i \in 1 .. 1 : SubSeq(s, 1, 1)[i] = <<s[1]>>[i]
  BY <1>3, <1>4
<1> QED
  BY <1>3, <1>4, <1>5, SeqEqual

LEMMA TwoOf ==
    ASSUME NEW a, NEW b
    PROVE  Append(<<a>>, b) = <<a, b>>
<1> DEFINE S == {a, b}
<1>1. <<a>> \in Seq(S) /\ b \in S /\ Len(<<a>>) = 1 /\ <<a>>[1] = a
  OBVIOUS
<1>2. <<a, b>> \in Seq(S) /\ Len(<<a, b>>) = 2 /\ <<a, b>>[1] = a /\ <<a, b>>[2] = b
  OBVIOUS
<1> HIDE DEF S
<1>3. /\ Append(<<a>>, b) \in Seq(S) /\ Len(Append(<<a>>, b)) = Len(<<a>>) + 1
      /\ \A i \in 1 .. Len(<<a>>) : Append(<<a>>, b)[i] = <<a>>[i]
      /\ Append(<<a>>, b)[Len(<<a>>) + 1] = b
  BY <1>1, AppendProperties
<1>4. 1 \in 1 .. 1 /\ 1 + 1 = 2 /\ \A i \in 1 .. 2 : i = 1 \/ i = 2
  OBVIOUS
<1>5. Append(<<a>>, b)[1] = a /\ Append(<<a>>, b)[2] = b /\ Len(Append(<<a>>, b)) = 2
  BY <1>1, <1>3, <1>4
<1>6. \A i \in 1 .. 2 : Append(<<a>>, b)[i] = <<a, b>>[i]
  BY <1>2, <1>4, <1>5
<1> QED
  BY <1>2, <1>3, <1>5, <1>6, SeqEqual

LEMMA StartsOf ==
    ASSUME NEW m \in Msgs
    PROVE  /\ SubSeq(Pieces(m), 1, 0) = <<>>
           /\ SubSeq(Pieces(m), 1, Len(Pieces(m))) = Pieces(m)
           /\ Append(<<>>, Pieces(m)[1]) = SubSeq(Pieces(m), 1, 1)
           /\ m \in Long => Append(SubSeq(Pieces(m), 1, 1), Pieces(m)[2]) = Pieces(m)
           /\ IsPrefix(SubSeq(Pieces(m), 1, 1), Pieces(m))
<1>1. /\ Pieces(m) \in Seq(Piece) /\ Len(Pieces(m)) \in {1, 2} /\ Pieces(m)[1] = <<m, 1>>
      /\ SubSeq(Pieces(m), 1, 0) = <<>>
      /\ SubSeq(Pieces(m), 1, Len(Pieces(m))) = Pieces(m)
  BY PiecesAre, SubSeqFull
<1>2. CASE m \in Long
  <2>1. Pieces(m) = << <<m, 1>>, <<m, 2>> >>
    BY <1>2 DEF Pieces
  <2>2. SubSeq(Pieces(m), 1, 1) = << <<m, 1>> >>
    BY <1>1, PiecesAre, OneOf
  <2>3. Len(<< <<m, 1>> >>) = 1 /\ SubSeq(<< <<m, 1>> >>, 1, 1) = << <<m, 1>> >>
    <3>1. << <<m, 1>> >> \in Seq({<<m, 1>>}) /\ << <<m, 1>> >> # <<>> /\ << <<m, 1>> >>[1] = <<m, 1>>
      OBVIOUS
    <3> QED
      BY <3>1, OneOf
  <2>4. IsPrefix(SubSeq(Pieces(m), 1, 1), Pieces(m))
    BY <1>1, <2>2, <2>3 DEF IsPrefix
  <2>5. Append(<<>>, <<m, 1>>) = << <<m, 1>> >>
    OBVIOUS
  <2>6. Append(<< <<m, 1>> >>, <<m, 2>>) = << <<m, 1>>, <<m, 2>> >>
    BY TwoOf
  <2>7. Append(SubSeq(Pieces(m), 1, 1), Pieces(m)[2]) = Pieces(m)
    BY <1>2, <2>1, <2>2, <2>6, PiecesAre
  <2>8. Append(<<>>, Pieces(m)[1]) = SubSeq(Pieces(m), 1, 1)
    BY <1>1, <2>2, <2>5
  <2> QED
    BY <1>1, <2>4, <2>7, <2>8
<1>3. CASE m \notin Long
  <2>1. Pieces(m) = << <<m, 1>> >>
    BY <1>3 DEF Pieces
  <2>2. SubSeq(Pieces(m), 1, 1) = << <<m, 1>> >>
    BY <1>1, PiecesAre, OneOf
  <2>3. Append(<<>>, <<m, 1>>) = << <<m, 1>> >>
    OBVIOUS
  <2>4. Append(<<>>, Pieces(m)[1]) = SubSeq(Pieces(m), 1, 1)
    BY <1>1, <2>2, <2>3
  <2>5. IsPrefix(SubSeq(Pieces(m), 1, 1), Pieces(m))
    BY <2>1, <2>2, SelfPrefix
  <2> QED
    BY <1>1, <1>3, <2>4, <2>5
<1> QED
  BY <1>2, <1>3

LEMMA SuffixParts ==
    ASSUME NEW S, NEW s \in Seq(S), NEW t \in Seq(S), IsSuffix(s, t)
    PROVE  /\ Len(s) <= Len(t)
           /\ \A i \in 1 .. Len(s) : s[Len(s) - i + 1] = t[Len(t) - i + 1]
<1>1. Len(s) \in Nat /\ Len(t) \in Nat
  OBVIOUS
<1>2. ASSUME NEW u \in Seq(S)
      PROVE  /\ Reverse(u) \in Seq(S) /\ Len(Reverse(u)) = Len(u)
             /\ \A i \in 1 .. Len(u) : Reverse(u)[i] = u[Len(u) - i + 1]
  <2>1. Reverse(u) = [i \in 1 .. Len(u) |-> u[Len(u) - i + 1]]
    BY DEF Reverse
  <2>2. \A i \in 1 .. Len(u) : Len(u) - i + 1 \in 1 .. Len(u)
    OBVIOUS
  <2>3. \A i \in 1 .. Len(u) : u[Len(u) - i + 1] \in S
    BY <2>2
  <2> QED
    BY <2>1, <2>3, IsASeq
<1>3. /\ Reverse(s) \in Seq(S) /\ Len(Reverse(s)) = Len(s)
      /\ Reverse(t) \in Seq(S) /\ Len(Reverse(t)) = Len(t)
      /\ \A i \in 1 .. Len(s) : Reverse(s)[i] = s[Len(s) - i + 1]
      /\ \A i \in 1 .. Len(t) : Reverse(t)[i] = t[Len(t) - i + 1]
  BY <1>2
<1>4. Len(s) <= Len(t) /\ SubSeq(Reverse(s), 1, Len(s)) = SubSeq(Reverse(t), 1, Len(s))
  BY <1>3 DEF IsSuffix, IsPrefix
<1>5. ASSUME NEW i \in 1 .. Len(s)
      PROVE  s[Len(s) - i + 1] = t[Len(t) - i + 1]
  <2>1. i \in 1 .. Len(t) /\ i \in Int
    BY <1>1, <1>4
  <2>2. SubSeq(Reverse(s), 1, Len(s))[i] = Reverse(s)[i]
    BY <1>1, <1>3, <2>1
  <2>3. SubSeq(Reverse(t), 1, Len(s))[i] = Reverse(t)[i]
    BY <1>1, <1>3, <1>4, <2>1
  <2> QED
    BY <1>3, <1>4, <2>1, <2>2, <2>3
<1> QED
  BY <1>4, <1>5

LEMMA SuffixElements ==
    ASSUME NEW S, NEW s \in Seq(S), NEW t \in Seq(S), IsSuffix(s, t)
    PROVE  ToSet(s) \subseteq ToSet(t)
<1>1. \A x : (x \in ToSet(s) <=> \E i \in 1 .. Len(s) : s[i] = x)
            /\ (x \in ToSet(t) <=> \E i \in 1 .. Len(t) : t[i] = x)
  BY ElementsOf
<1>2. ASSUME NEW x \in ToSet(s)
      PROVE  x \in ToSet(t)
  <2>1. PICK j \in 1 .. Len(s) : s[j] = x
    BY <1>1
  <2>2. Len(s) \in Nat /\ Len(t) \in Nat /\ Len(s) <= Len(t)
    BY SuffixParts
  <2>3. /\ Len(s) - j + 1 \in 1 .. Len(s) /\ Len(s) - (Len(s) - j + 1) + 1 = j
        /\ Len(t) - (Len(s) - j + 1) + 1 \in 1 .. Len(t)
    BY <2>2
  <2>4. s[Len(s) - (Len(s) - j + 1) + 1] = t[Len(t) - (Len(s) - j + 1) + 1]
    BY <2>3, SuffixParts
  <2> QED
    BY <1>1, <2>1, <2>3, <2>4
<1> QED
  BY <1>2

(* A box that shows a message holds nothing but pieces of it, and is the   *)
(* whole of it unless its first half is missing.                           *)
LEMMA SuffixIs ==
    ASSUME NEW m \in Msgs, NEW s \in Seq(Piece), IsSuffix(s, Pieces(m)), s # <<>>
    PROVE  OfMsg(s, m) /\ (s = Pieces(m) \/ s[1] = <<m, 2>>)
<1> DEFINE p == Pieces(m)
<1>1. /\ p \in Seq(Piece) /\ Len(p) \in {1, 2} /\ p[1] = <<m, 1>> /\ (m \in Long => p[2] = <<m, 2>>)
      /\ Len(p) = (IF m \in Long THEN 2 ELSE 1)
  BY PiecesAre
<1>2. Len(s) \in Nat /\ Len(s) # 0
  OBVIOUS
<1>3. IsSuffix(s, p)
  OBVIOUS
<1> HIDE DEF p
<1>4. Len(s) <= Len(p)
  BY <1>1, <1>3, SuffixParts
<1>5. \A i \in 1 .. Len(s) : s[Len(s) - i + 1] = p[Len(p) - i + 1]
  BY <1>1, <1>3, SuffixParts
<1>6. CASE Len(s) = 1 /\ Len(p) = 1
  <2>1. 1 \in 1 .. Len(s) /\ Len(s) - 1 + 1 = 1 /\ Len(p) - 1 + 1 = 1
    BY <1>6
  <2>2. s[1] = p[1]
    BY <1>5, <2>1
  <2>3. s = p
    BY <1>1, <1>6, <2>2, SeqEqual
  <2> QED
    BY <2>3, PiecesAre DEF p
<1>7. CASE Len(s) = 1 /\ Len(p) = 2
  <2>1. 1 \in 1 .. Len(s) /\ Len(s) - 1 + 1 = 1 /\ Len(p) - 1 + 1 = 2
    BY <1>7
  <2>2. s[1] = p[2]
    BY <1>5, <2>1
  <2>3. s[1] = <<m, 2>>
    BY <1>1, <1>7, <2>2
  <2>4. \A i \in 1 .. Len(s) : i = 1
    BY <1>7
  <2> QED
    BY <2>3, <2>4 DEF OfMsg
<1>8. CASE Len(s) = 2 /\ Len(p) = 2
  <2>1. /\ 1 \in 1 .. Len(s) /\ Len(s) - 1 + 1 = 2 /\ Len(p) - 1 + 1 = 2
        /\ 2 \in 1 .. Len(s) /\ Len(s) - 2 + 1 = 1 /\ Len(p) - 2 + 1 = 1
    BY <1>8
  <2>2. s[1] = p[1] /\ s[2] = p[2]
    BY <1>5, <2>1
  <2>3. \A i \in 1 .. Len(s) : i = 1 \/ i = 2
    BY <1>8
  <2>4. s = p
    BY <1>1, <1>8, <2>2, <2>3, SeqEqual
  <2> QED
    BY <2>4, PiecesAre DEF p
<1>9. /\ (Len(s) = 1 /\ Len(p) = 1) \/ (Len(s) = 1 /\ Len(p) = 2) \/ (Len(s) = 2 /\ Len(p) = 2)
  <2>1. ASSUME NEW a \in Nat, a # 0, NEW b \in {1, 2}, a <= b
        PROVE  (a = 1 /\ b = 1) \/ (a = 1 /\ b = 2) \/ (a = 2 /\ b = 2)
    BY <2>1
  <2> QED
    BY <1>1, <1>2, <1>4, <2>1
<1> QED
  BY <1>6, <1>7, <1>8, <1>9

LEMMA SubSeqsAre ==
    ASSUME NEW m \in Msgs, NEW s \in SubSeqs(Pieces(m))
    PROVE  OfMsg(s, m)
<1> DEFINE p == Pieces(m)
<1>1. p \in Seq(Piece) /\ OfMsg(p, m) /\ Len(p) \in Nat
  BY PiecesAre
<1>2. PICK a \in 0 .. Len(p), b \in 0 .. Len(p) : s = SubSeq(p, a + 1, b)
  BY DEF SubSeqs
<1> HIDE DEF p
<1>3. /\ s \in Seq(Piece) /\ Len(s) = (IF a + 1 <= b THEN b - (a + 1) + 1 ELSE 0)
      /\ \A i \in 1 .. b - (a + 1) + 1 : s[i] = p[a + 1 + i - 1]
  <2>1. /\ 1 <= a + 1 /\ b <= Len(p) /\ a + 1 \in Int /\ b \in Int
        /\ \A i \in a + 1 .. b : i \in 1 .. Len(p)
    BY <1>1, <1>2
  <2>2. \A i \in a + 1 .. b : p[i] \in Piece
    BY <1>1, <2>1
  <2> QED
    BY <1>1, <1>2, <2>1, <2>2, SubSeqProperties
<1>4. ASSUME NEW i \in 1 .. Len(s)
      PROVE  s[i][1] = m
  <2>1. i \in 1 .. b - (a + 1) + 1 /\ a + 1 + i - 1 \in 1 .. Len(p)
    BY <1>1, <1>2, <1>3, <1>4
  <2> QED
    BY <1>1, <1>3, <2>1 DEF OfMsg
<1> QED
  BY <1>4 DEF OfMsg

-----------------------------------------------------------------------------
(* The keys that are not text, and the next key.                           *)

LEMMA Specials ==
    ASSUME NEW k \in {Enter, Kill, Esc, Chord}
    PROVE  /\ k \in Key /\ k[1] \notin Msgs /\ k[1] \notin Drafts /\ k \notin Piece
           /\ <<k>> # <<>> /\ ToSet(<<k>>) = {k} /\ \A m \in Msgs : ~OfMsg(<<k>>, m)
           /\ Head(<<k>>) = k /\ Tail(<<k>>) = <<>> /\ <<k>> \in Seq(Key)
           /\ \A m \in Msgs, i \in {1, 2} : k # <<m, i>>
           /\ \A l \in {Enter, Kill, Esc, Chord} : <<l>> = <<k>> => l = k
<1>1. k[1] \in {"enter", "chord", "kill", "esc"}
  BY DEF Enter, Kill, Esc, Chord
<1>2. k[1] \notin Msgs /\ k[1] \notin Drafts /\ k \in Key
  BY <1>1, KeysAreNoTexts DEF Key
<1>3. k \notin Piece /\ \A m \in Msgs, i \in {1, 2} : k # <<m, i>>
  BY <1>2 DEF Piece, AllTexts
<1>4. <<k>> # <<>> /\ Len(<<k>>) = 1 /\ <<k>>[1] = k /\ Head(<<k>>) = k /\ Tail(<<k>>) = <<>>
      /\ <<k>> \in Seq(Key) /\ 1 \in 1 .. 1 /\ DOMAIN <<k>> = {1}
  BY <1>2
<1>5. \A m \in Msgs : ~OfMsg(<<k>>, m)
  BY <1>2, <1>4 DEF OfMsg
<1>6. ToSet(<<k>>) = {k}
  BY <1>4 DEF ToSet
<1>7. \A l : <<l>> = <<k>> => l = k
  OBVIOUS
<1> QED
  BY <1>2, <1>3, <1>4, <1>5, <1>6, <1>7

LEMMA KindsOfKeys ==
    /\ Enter # Kill /\ Enter # Esc /\ Enter # Chord /\ Kill # Esc /\ Kill # Chord /\ Esc # Chord
    /\ Enter[1] = "enter" /\ Kill[1] = "kill" /\ Esc[1] = "esc" /\ Chord[1] = "chord"
BY DEF Enter, Kill, Esc, Chord

LEMMA Heads ==
    ASSUME Typed, Pressed, keys # <<>>
    PROVE  /\ Head(keys) \in Key /\ Tail(keys) \in Seq(Key)
           /\ ToSet(keys) = {Head(keys)} \cup ToSet(Tail(keys))
           /\ Head(keys)[1] \in Msgs =>
                /\ OfMsg(keys, Head(keys)[1]) /\ OfMsg(Tail(keys), Head(keys)[1])
                /\ Head(keys) \in Piece /\ Head(keys)[2] \in {1, 2}
                /\ Head(keys) = <<Head(keys)[1], Head(keys)[2]>>
                /\ keys \notin {<<Enter>>, <<Kill>>, <<Esc>>, <<Chord>>}
                /\ Tail(keys) \notin {<<Enter>>, <<Kill>>, <<Esc>>, <<Chord>>}
                /\ \A m \in Msgs : OfMsg(keys, m) => m = Head(keys)[1]
                /\ \A m \in Msgs : Tail(keys) # <<>> /\ OfMsg(Tail(keys), m) => m = Head(keys)[1]
           /\ Head(keys)[1] \notin Msgs =>
                /\ keys = <<Head(keys)>> /\ Tail(keys) = <<>>
                /\ Head(keys) \in {Enter, Kill, Esc, Chord}
                /\ \A m \in Msgs : ~OfMsg(keys, m)
<1> DEFINE k == Head(keys)
<1>1. keys \in Seq(Key)
  BY DEF Typed
<1>2. k \in Key /\ Tail(keys) \in Seq(Key) /\ ToSet(keys) = {k} \cup ToSet(Tail(keys))
  BY <1>1, TailIs
<1>3. \A m : (OfMsg(keys, m) <=> \A x \in ToSet(keys) : x[1] = m)
             /\ (OfMsg(Tail(keys), m) <=> \A x \in ToSet(Tail(keys)) : x[1] = m)
  BY <1>1, <1>2, ElementsOf
<1>4. Tail(keys) # <<>> => Head(Tail(keys)) \in ToSet(Tail(keys))
  BY <1>2, TailIs
<1> HIDE DEF k
<1>5. keys \in {<<Enter>>, <<Kill>>, <<Esc>>, <<Chord>>} \/ \E m \in Msgs : OfMsg(keys, m)
  BY DEF Pressed
<1>6. CASE keys \in {<<Enter>>, <<Kill>>, <<Esc>>, <<Chord>>}
  <2>1. PICK l \in {Enter, Kill, Esc, Chord} : keys = <<l>>
    BY <1>6
  <2>2. k = l /\ Tail(keys) = <<>> /\ k[1] \notin Msgs /\ \A m \in Msgs : ~OfMsg(keys, m)
    BY <2>1, Specials DEF k
  <2> QED
    BY <1>2, <2>1, <2>2 DEF k
<1>7. ASSUME NEW m \in Msgs, OfMsg(keys, m)
      PROVE  /\ k[1] = m /\ OfMsg(Tail(keys), m) /\ k \in Piece /\ k[2] \in {1, 2} /\ k = <<k[1], k[2]>>
             /\ keys \notin {<<Enter>>, <<Kill>>, <<Esc>>, <<Chord>>}
             /\ Tail(keys) \notin {<<Enter>>, <<Kill>>, <<Esc>>, <<Chord>>}
             /\ \A o \in Msgs : OfMsg(keys, o) => o = m
             /\ \A o \in Msgs : Tail(keys) # <<>> /\ OfMsg(Tail(keys), o) => o = m
  <2>1. k[1] = m /\ OfMsg(Tail(keys), m)
    BY <1>2, <1>3, <1>7
  <2>2. k \notin {Enter, Kill, Esc, Chord}
    BY <2>1, Specials
  <2>3. k \in Msgs \X {1, 2}
    BY <1>2, <2>2 DEF Key
  <2>4. k \in Piece /\ k[2] \in {1, 2} /\ k = <<k[1], k[2]>>
    BY <2>3 DEF Piece, AllTexts
  <2>5. keys \notin {<<Enter>>, <<Kill>>, <<Esc>>, <<Chord>>}
        /\ Tail(keys) \notin {<<Enter>>, <<Kill>>, <<Esc>>, <<Chord>>}
    BY <1>7, <2>1, Specials
  <2>6. \A o \in Msgs : OfMsg(keys, o) => o = m
    BY <1>2, <1>3, <2>1
  <2>7. \A o \in Msgs : Tail(keys) # <<>> /\ OfMsg(Tail(keys), o) => o = m
    BY <1>3, <1>4, <2>1
  <2> QED
    BY <2>1, <2>4, <2>5, <2>6, <2>7
<1> QED
  BY <1>2, <1>5, <1>6, <1>7 DEF k

(* Both the box and the keys hold keys and pieces.                         *)
Things == Key \cup Piece
LEMMA Contents ==
    ASSUME Typed
    PROVE  box \in Seq(Things) /\ keys \in Seq(Things) /\ Ahead \in Seq(Things)
<1>1. box \in Seq(Things) /\ keys \in Seq(Things)
  BY SeqMonotonic DEF Typed, Things
<1> QED
  BY <1>1, JoinIs DEF Ahead

-----------------------------------------------------------------------------
(* The record of the injection.                                            *)

LEMMA IdleIs ==
    Idle \in InjectionType /\ Idle.at = "idle" /\ Idle.msg = Nobody /\ Idle.residue = {}
    /\ Idle.typed = 0
<1>1. 0 \in Nat /\ 0 \in {0, 1, 2} /\ TRUE \in BOOLEAN /\ {} \in SUBSET Piece
      /\ "" \in Purposes /\ "idle" \in Places /\ "" \in Frames \cup {""} /\ Nobody \in Msgs \cup {Nobody}
  BY DEF Places, Purposes
<1> QED
  BY <1>1, Zenon DEF Idle, InjectionType

LEMMA StartIs ==
    ASSUME NEW r \in InjectionType, NEW a \in Places, NEW m \in Msgs
    PROVE  LET q == [r EXCEPT !.at = a, !.msg = m] IN
           /\ q \in InjectionType
           /\ q.at = a /\ q.msg = m /\ q.for = r.for /\ q.typed = r.typed /\ q.residue = r.residue
<1> DEFINE q == [r EXCEPT !.at = a, !.msg = m]
<1>2. q \in InjectionType
  BY Zenon DEF InjectionType
<1>3. q.at = a /\ q.msg = m /\ q.for = r.for /\ q.typed = r.typed /\ q.residue = r.residue
  BY DEF InjectionType
<1> QED
  BY <1>2, <1>3

LEMMA PutIs ==
    ASSUME NEW r \in InjectionType, NEW a \in Places
    PROVE  LET q == [r EXCEPT !.at = a] IN
           /\ q \in InjectionType
           /\ q.at = a /\ q.msg = r.msg /\ q.for = r.for /\ q.typed = r.typed /\ q.residue = r.residue
<1> DEFINE q == [r EXCEPT !.at = a]
<1>2. q \in InjectionType
  BY Zenon DEF InjectionType
<1>3. q.at = a /\ q.msg = r.msg /\ q.for = r.for /\ q.typed = r.typed /\ q.residue = r.residue
  BY DEF InjectionType
<1> QED
  BY <1>2, <1>3

LEMMA MoveIs ==
    ASSUME NEW r \in InjectionType, NEW a \in Places, NEW i \in Nat
    PROVE  LET q == [r EXCEPT !.at = a, !.n = i] IN
           /\ q \in InjectionType
           /\ q.at = a /\ q.msg = r.msg /\ q.for = r.for /\ q.typed = r.typed /\ q.residue = r.residue
<1> DEFINE q == [r EXCEPT !.at = a, !.n = i]
<1>2. q \in InjectionType
  BY Zenon DEF InjectionType
<1>3. q.at = a /\ q.msg = r.msg /\ q.for = r.for /\ q.typed = r.typed /\ q.residue = r.residue
  BY DEF InjectionType
<1> QED
  BY <1>2, <1>3

LEMMA CountIs ==
    ASSUME NEW r \in InjectionType, NEW i \in Nat
    PROVE  LET q == [r EXCEPT !.n = i] IN
           /\ q \in InjectionType
           /\ q.at = r.at /\ q.msg = r.msg /\ q.for = r.for /\ q.typed = r.typed /\ q.residue = r.residue
<1> DEFINE q == [r EXCEPT !.n = i]
<1>2. q \in InjectionType
  BY Zenon DEF InjectionType
<1>3. q.at = r.at /\ q.msg = r.msg /\ q.for = r.for /\ q.typed = r.typed /\ q.residue = r.residue
  BY DEF InjectionType
<1> QED
  BY <1>2, <1>3

LEMMA ClearIs ==
    ASSUME NEW r \in InjectionType, NEW f \in Purposes, NEW R \in SUBSET Piece
    PROVE  LET q == [r EXCEPT !.at = "clear", !.n = 0, !.for = f, !.residue = R] IN
           /\ q \in InjectionType
           /\ q.at = "clear" /\ q.msg = r.msg /\ q.for = f /\ q.typed = r.typed /\ q.residue = R
<1> DEFINE q == [r EXCEPT !.at = "clear", !.n = 0, !.for = f, !.residue = R]
<1>1. "clear" \in Places /\ 0 \in Nat
  BY DEF Places
<1>2. q \in InjectionType
  BY <1>1, Zenon DEF InjectionType
<1>3. q.at = "clear" /\ q.msg = r.msg /\ q.for = f /\ q.typed = r.typed /\ q.residue = R
  BY DEF InjectionType
<1> QED
  BY <1>2, <1>3

LEMMA SubmitIs ==
    ASSUME NEW r \in InjectionType
    PROVE  LET q == [r EXCEPT !.at = "before", !.n = 0, !.for = "own"] IN
           /\ q \in InjectionType
           /\ q.at = "before" /\ q.msg = r.msg /\ q.for = "own" /\ q.typed = r.typed /\ q.residue = r.residue
<1> DEFINE q == [r EXCEPT !.at = "before", !.n = 0, !.for = "own"]
<1>1. "before" \in Places /\ "own" \in Purposes /\ 0 \in Nat
  BY DEF Places, Purposes
<1>2. q \in InjectionType
  BY <1>1, Zenon DEF InjectionType
<1>3. q.at = "before" /\ q.msg = r.msg /\ q.for = "own" /\ q.typed = r.typed /\ q.residue = r.residue
  BY DEF InjectionType
<1> QED
  BY <1>2, <1>3

LEMMA RetypeIs ==
    ASSUME NEW r \in InjectionType, NEW i \in Nat
    PROVE  LET q == [r EXCEPT !.at = "clear", !.n = 0, !.for = "retype", !.again = i] IN
           /\ q \in InjectionType
           /\ q.at = "clear" /\ q.msg = r.msg /\ q.for = "retype" /\ q.typed = r.typed /\ q.residue = r.residue
<1> DEFINE q == [r EXCEPT !.at = "clear", !.n = 0, !.for = "retype", !.again = i]
<1>1. "clear" \in Places /\ "retype" \in Purposes /\ 0 \in Nat
  BY DEF Places, Purposes
<1>2. q \in InjectionType
  BY <1>1, Zenon DEF InjectionType
<1>3. q.at = "clear" /\ q.msg = r.msg /\ q.for = "retype" /\ q.typed = r.typed /\ q.residue = r.residue
  BY DEF InjectionType
<1> QED
  BY <1>2, <1>3

LEMMA TypeIs ==
    ASSUME NEW r \in InjectionType
    PROVE  LET q == [r EXCEPT !.at = "type", !.n = 0, !.typed = 0] IN
           /\ q \in InjectionType
           /\ q.at = "type" /\ q.msg = r.msg /\ q.for = r.for /\ q.typed = 0 /\ q.residue = r.residue
<1> DEFINE q == [r EXCEPT !.at = "type", !.n = 0, !.typed = 0]
<1>1. "type" \in Places /\ 0 \in Nat /\ 0 \in {0, 1, 2}
  BY DEF Places
<1>2. q \in InjectionType
  BY <1>1, Zenon DEF InjectionType
<1>3. q.at = "type" /\ q.msg = r.msg /\ q.for = r.for /\ q.typed = 0 /\ q.residue = r.residue
  BY DEF InjectionType
<1> QED
  BY <1>2, <1>3

LEMMA TypedIs ==
    ASSUME NEW r \in InjectionType, NEW a \in Places, NEW i \in {1, 2}
    PROVE  LET q == [r EXCEPT !.typed = i, !.for = "msg", !.n = 0, !.at = a] IN
           /\ q \in InjectionType
           /\ q.at = a /\ q.msg = r.msg /\ q.for = "msg" /\ q.typed = i /\ q.residue = r.residue
<1> DEFINE q == [r EXCEPT !.typed = i, !.for = "msg", !.n = 0, !.at = a]
<1>1. "msg" \in Purposes /\ 0 \in Nat /\ i \in {0, 1, 2}
  BY DEF Purposes
<1>2. q \in InjectionType
  BY <1>1, Zenon DEF InjectionType
<1>3. q.at = a /\ q.msg = r.msg /\ q.for = "msg" /\ q.typed = i /\ q.residue = r.residue
  BY DEF InjectionType
<1> QED
  BY <1>2, <1>3

LEMMA UnsureIs ==
    ASSUME NEW r \in InjectionType
    PROVE  LET q == [r EXCEPT !.at = "before", !.n = 0, !.sure = FALSE] IN
           /\ q \in InjectionType
           /\ q.at = "before" /\ q.msg = r.msg /\ q.for = r.for /\ q.typed = r.typed /\ q.residue = r.residue
<1> DEFINE q == [r EXCEPT !.at = "before", !.n = 0, !.sure = FALSE]
<1>1. "before" \in Places /\ 0 \in Nat /\ FALSE \in BOOLEAN
  BY DEF Places
<1>2. q \in InjectionType
  BY <1>1, Zenon DEF InjectionType
<1>3. q.at = "before" /\ q.msg = r.msg /\ q.for = r.for /\ q.typed = r.typed /\ q.residue = r.residue
  BY DEF InjectionType
<1> QED
  BY <1>2, <1>3

LEMMA LookedIs ==
    ASSUME NEW r \in InjectionType, NEW f \in Frames
    PROVE  LET q == [r EXCEPT !.at = "enter", !.before = f] IN
           /\ q \in InjectionType
           /\ q.at = "enter" /\ q.msg = r.msg /\ q.for = r.for /\ q.typed = r.typed /\ q.residue = r.residue
<1> DEFINE q == [r EXCEPT !.at = "enter", !.before = f]
<1>1. "enter" \in Places /\ f \in Frames \cup {""}
  BY DEF Places
<1>2. q \in InjectionType
  BY <1>1, Zenon DEF InjectionType
<1>3. q.at = "enter" /\ q.msg = r.msg /\ q.for = r.for /\ q.typed = r.typed /\ q.residue = r.residue
  BY DEF InjectionType
<1> QED
  BY <1>2, <1>3

-----------------------------------------------------------------------------
(* What most steps of the hub have in common: the box stays as it is, and  *)
(* no account is closed.                                                   *)

LEMMA AccountedIs ==
    Accounted = ToSet(box) \cup ToSet(keys) \cup Prompted \cup told \cup unsaid \cup fell \cup inj.residue
BY DEF Accounted, Prompted

LEMMA AccountsKept ==
    ASSUME prompts' = prompts, fell' = fell, box' = box,
           ToSet(keys) \subseteq ToSet(keys'), told \subseteq told', unsaid \subseteq unsaid',
           inj.residue \subseteq told' \cup unsaid' \cup inj'.residue
    PROVE  Accounted \subseteq Accounted'
BY DEF Accounted

(* What nothing but the growth of unseen changes.                          *)
LEMMA BoxKept ==
    ASSUME box' = box, prompts' = prompts, fell' = fell, unseen \subseteq unseen',
           FirstHalf, AllWhole
    PROVE  /\ Tainted => Tainted'
           /\ \A m : Fell(m)' = Fell(m)
           /\ \A s : Whole(s)' = Whole(s)
           /\ Prompted' = Prompted /\ FirstHalf' /\ AllWhole'
<1>1. \A m : Fell(m)' = Fell(m)
  BY DEF Fell
<1>2. \A s : Whole(s)' = Whole(s)
  BY <1>1 DEF Whole
<1>3. FirstHalf'
  BY <1>1 DEF FirstHalf
<1>4. AllWhole'
  BY <1>2 DEF AllWhole
<1>5. (Tainted => Tainted') /\ Prompted' = Prompted
  BY DEF Tainted, Prompted
<1> QED
  BY <1>1, <1>2, <1>3, <1>4, <1>5

LEMMA HubStep ==
    ASSUME PaneInv, unseen \subseteq unseen', unseen' \subseteq AllTexts,
           UNCHANGED <<herdr, view, box, prompts, young, fell, drafted, verdict, doubtful>>,
           inj' \in InjectionType, own' \in Msgs \cup {Nobody}, tries' \in [Msgs -> Nat],
           keys' \in Seq(Key), told' \subseteq Piece, unsaid' \subseteq Piece,
           Alone', Steps', Pressed',
           ToSet(keys) \subseteq ToSet(keys'), told \subseteq told', unsaid \subseteq unsaid',
           inj.residue \subseteq told' \cup unsaid' \cup inj'.residue,
           ~Tainted' => Known', Mine', Killing', Somewhere', Fresh'
    PROVE  PaneInv'
<1>1. Typed'
  BY DEF PaneInv, Typed
<1>2. Flow'
  BY DEF Flow
<1>3. FirstHalf' /\ AllWhole'
  BY BoxKept DEF PaneInv, Clear
<1>4. AllAccounted'
  BY AccountsKept DEF PaneInv, Clear, AllAccounted, Sent
<1> QED
  BY <1>1, <1>2, <1>3, <1>4 DEF PaneInv, Clear

(* The usual case: nothing was waiting to be taken, and no key is pressed. *)
LEMMA LookStep ==
    ASSUME PaneInv, unseen \subseteq unseen', unseen' \subseteq AllTexts, keys = <<>>,
           UNCHANGED <<herdr, view, box, keys, prompts, young, fell, drafted, verdict, doubtful>>,
           inj' \in InjectionType, own' \in Msgs \cup {Nobody}, tries' \in [Msgs -> Nat],
           told' \subseteq Piece, unsaid' \subseteq Piece,
           Alone', Steps',
           told \subseteq told', unsaid \subseteq unsaid',
           inj.residue \subseteq told' \cup unsaid' \cup inj'.residue,
           inj'.at = "type" => inj'.typed = 0 /\ \A k \in ToSet(box) : k[1] \in unseen',
           inj'.at = "chord" => box = <<>>,
           inj'.at # "after",
           inj'.at \in {"check", "before", "enter"} /\ inj'.for = "msg" =>
             /\ \A k \in ToSet(box) : k[1] = inj'.msg \/ k[1] \in unseen'
             /\ <<inj'.msg, 1>> \in ToSet(box) \cup Prompted \cup fell
             /\ ~Tainted' => box \in {<<>>, Pieces(inj'.msg)} \/ Fell(inj'.msg),
           inj'.at \in {"before", "enter"} /\ inj'.for = "own" /\ box # <<>> /\ ~Tainted' => Whole(box),
           inj'.at = "clear" => \A k \in ToSet(box) : Covered(k)',
           inj.msg \in {inj'.msg, Nobody}, Started => Started', Submitting => Submitting'
    PROVE  PaneInv'
<1>1. /\ ToSet(<<>>) = {} /\ \A m : OfMsg(<<>>, m)
      /\ \A k \in {Enter, Kill, Esc, Chord} : <<k>> # <<>>
  BY EmptyIs, Specials
<1>2. keys' = <<>> /\ keys' \in Seq(Key) /\ box \in Seq(Piece)
  BY DEF PaneInv, Typed
<1>3. Pressed'
  BY <1>1, <1>2 DEF Pressed
<1>4. Ahead' = box
  BY <1>2, JoinIs DEF Ahead, PaneInv, Typed
<1>5. /\ Tainted => Tainted'
      /\ \A m : Fell(m)' = Fell(m)
      /\ \A s : Whole(s)' = Whole(s)
      /\ Prompted' = Prompted
  BY BoxKept DEF PaneInv, Clear
<1>6. ASSUME ~Tainted'
      PROVE  Known'
  <2>1. \A k \in ToSet(box) : k[1] \notin unseen'
    BY <1>6 DEF Tainted
  <2>2. ToSet(box) = {} => box = <<>>
    <3>1. box # <<>> => ToSet(box) = {Head(box)} \cup ToSet(Tail(box))
      BY <1>2, TailIs
    <3> QED
      BY <3>1
  <2>3. Typing'
    <3>1. SUFFICES ASSUME inj'.at = "type"
                   PROVE  OfMsg(box', inj'.msg) /\ OfMsg(keys', inj'.msg)
                          /\ Ahead' = SubSeq(Pieces(inj'.msg), 1, inj'.typed)
      BY DEF Typing
    <3>2. inj'.typed = 0 /\ box = <<>> /\ inj'.msg \in Msgs
      <4>1. inj'.msg # Nobody /\ inj'.msg \in Msgs \cup {Nobody}
        BY <3>1 DEF Alone, Busy, InjectionType
      <4> QED
        BY <2>1, <2>2, <3>1, <4>1
    <3> QED
      BY <1>1, <1>2, <1>4, <3>2, StartsOf
  <2>4. Typeset'
    <3>1. SUFFICES ASSUME inj'.at \in {"check", "before", "enter"}, inj'.for = "msg"
                   PROVE  /\ OfMsg(box, inj'.msg) /\ OfMsg(keys', inj'.msg)
                          /\ Ahead' \in {<<>>, Pieces(inj'.msg)} \/ Fell(inj.msg)'
      BY DEF Typeset
    <3>2. \A k \in ToSet(box) : k[1] = inj'.msg
      BY <2>1, <3>1
    <3>3. OfMsg(box, inj'.msg)
      BY <1>2, <3>2, ElementsOf
    <3>4. Fell(inj'.msg) => Fell(inj.msg)'
      BY DEF Fell
    <3> QED
      BY <1>1, <1>2, <1>4, <1>6, <3>1, <3>3, <3>4
  <2>5. Entered'
    BY DEF Entered
  <2>6. Owned'
    BY <1>2, <1>5, <1>6 DEF Owned
  <2>7. EnterWhole' /\ Underway' /\ ChordAlone'
    BY <1>1, <1>2 DEF EnterWhole, Underway, ChordAlone
  <2> QED
    BY <2>3, <2>4, <2>5, <2>6, <2>7 DEF Known
<1>7. Mine'
  BY DEF Mine
<1>8. Killing'
  BY <1>1, <1>2 DEF Killing
<1>9. Somewhere'
  <2>1. inj'.at = "type" => ~(inj'.typed > 0)
    OBVIOUS
  <2> QED
    BY <1>5, <2>1 DEF Somewhere
<1>10. Fresh'
  <2>1. \A m \in Msgs : m # Nobody
    BY KeysAreNoTexts DEF Nobody
  <2> QED
    BY <1>5, <2>1 DEF PaneInv, Clear, Fresh
<1> QED
  BY <1>2, <1>3, <1>6, <1>7, <1>8, <1>9, <1>10, HubStep

(* A message ends, or a restart finds none.  Only one that is somewhere    *)
(* ends as sent; only one that is nowhere ends as not delivered.           *)
LEMMA EndStep ==
    ASSUME PaneInv, unseen \subseteq unseen', unseen' \subseteq AllTexts, NEW v \in Outcomes, Ends(v),
           UNCHANGED <<herdr, view, box, keys, prompts, young, fell, drafted>>,
           own' \in Msgs \cup {Nobody}, tries' \in [Msgs -> Nat],
           told' \subseteq Piece, unsaid' \subseteq Piece,
           told \subseteq told', unsaid \subseteq unsaid', inj.residue \subseteq told' \cup unsaid',
           v \in {"submitted", "unconfirmed"} =>
             keys = <<>> /\ inj.at \in {"before", "after"} /\ inj.for = "msg",
           v \in Undelivered => ~Started \/ (keys = <<>> /\ box = <<>> /\ inj.at = "clear")
    PROVE  PaneInv'
<1>1. /\ inj' = Idle /\ verdict' = IF inj.msg = Nobody THEN verdict ELSE [verdict EXCEPT ![inj.msg] = v]
      /\ doubtful' = IF v \in Undelivered THEN doubtful ELSE doubtful \cup ({inj.msg} \cap Msgs)
  BY DEF Ends
<1>2. /\ inj' \in InjectionType /\ inj'.at = "idle" /\ inj'.msg = Nobody /\ inj'.residue = {}
      /\ inj'.typed = 0
  BY <1>1, IdleIs
<1>3. verdict' \in [Msgs -> Outcomes] /\ doubtful' \subseteq Msgs
  BY <1>1 DEF PaneInv, Typed, InjectionType
<1>4. \A m \in Msgs : verdict'[m] = verdict[m] \/ (m = inj.msg /\ verdict'[m] = v)
  BY <1>1 DEF PaneInv, Typed
<1>5. \A l \in {Enter, Kill, Esc, Chord} : <<l>> # <<>>
  BY Specials
<1>6. Typed'
  BY <1>2, <1>3 DEF PaneInv, Typed
<1>7. Flow'
  <2>1. Alone' /\ Steps'
    BY <1>2 DEF Alone, Busy, Steps
  <2>2. Pressed'
    BY <1>2 DEF PaneInv, Flow, Pressed
  <2> QED
    BY <2>1, <2>2 DEF Flow
<1>8. /\ Tainted => Tainted'
      /\ \A m : Fell(m)' = Fell(m)
      /\ \A s : Whole(s)' = Whole(s)
      /\ Prompted' = Prompted /\ FirstHalf' /\ AllWhole'
  BY BoxKept DEF PaneInv, Clear
<1>9. ASSUME ~Tainted'
      PROVE  Known'
  <2>1. Known
    BY <1>8, <1>9 DEF PaneInv, Clear
  <2>2. Typing' /\ Typeset' /\ Entered' /\ Owned'
    BY <1>2 DEF Typing, Typeset, Entered, Owned
  <2>3. EnterWhole'
    BY <1>8, <2>1 DEF Known, EnterWhole
  <2>4. ChordAlone'
    BY <1>2, <2>1 DEF Known, ChordAlone
  <2>5. Underway'
    BY <1>8, <2>1 DEF Known, Underway, Ahead
  <2> QED
    BY <2>2, <2>3, <2>4, <2>5 DEF Known
<1>10. Mine' /\ Somewhere'
  BY <1>2 DEF Mine, Somewhere
<1>11. Killing'
  <2>1. SUFFICES ASSUME keys = <<Kill>>, NEW k \in ToSet(box) \cup ToSet(keys)
                 PROVE  k = Kill \/ Covered(k)'
    BY <1>2 DEF Killing
  <2>2. v \notin {"submitted", "unconfirmed"}
    BY <1>5, <2>1
  <2>3. k = Kill \/ Covered(k)
    BY <2>1 DEF PaneInv, Clear, Killing
  <2> QED
    BY <1>4, <1>8, <2>2, <2>3 DEF Covered
<1>12. AllAccounted'
  <2>1. Accounted \subseteq Accounted'
    BY <1>2, AccountsKept
  <2>2. ASSUME NEW x \in Sent' \cup drafted', x \notin Sent \cup drafted
        PROVE  \E k \in Accounted' : k[1] = x
    <3>1. x \in Msgs /\ x = inj.msg /\ v \in {"submitted", "unconfirmed"}
      BY <1>4, <2>2 DEF Sent
    <3>2. <<x, 1>> \in ToSet(box) \cup ToSet(keys) \cup Prompted \cup fell
      BY <3>1 DEF PaneInv, Clear, Somewhere
    <3>3. <<x, 1>> \in Accounted
      BY <3>2, AccountedIs
    <3> QED
      BY <2>1, <3>3
  <2>3. \A x \in (Sent \cup drafted) \ unseen : \E k \in Accounted : k[1] = x
    BY DEF PaneInv, Clear, AllAccounted
  <2> QED
    BY <2>1, <2>2, <2>3 DEF AllAccounted
<1>13. Fresh'
  <2>1. SUFFICES ASSUME NEW m \in Msgs, m \notin doubtful'
                 PROVE  /\ ~ \E k \in ToSet(box) \cup ToSet(keys) : k[1] = m
                        /\ ~ \E k \in Prompted : k[1] = m
    BY <1>8 DEF Fresh
  <2>2. m \notin doubtful /\ (m = inj.msg => v \in Undelivered)
    BY <1>1, <2>1
  <2>3. /\ (\E k \in ToSet(box) \cup ToSet(keys) : k[1] = m) => inj.msg = m /\ Started
        /\ (\E k \in Prompted : k[1] = m) => inj.msg = m /\ Submitting
    BY <2>2 DEF PaneInv, Clear, Fresh
  <2>4. m = inj.msg => (~Started /\ ~Submitting) \/ (keys = <<>> /\ box = <<>> /\ ~Submitting)
    BY <2>2 DEF Started, Submitting
  <2> QED
    BY <2>3, <2>4, EmptyIs
<1> QED
  BY <1>6, <1>7, <1>8, <1>9, <1>10, <1>11, <1>12, <1>13 DEF PaneInv, Clear

-----------------------------------------------------------------------------
(* The steps of the hub.                                                   *)

(* What a look shows of the box.                                           *)
LEMMA Seen ==
    ASSUME NEW f \in Frames, Looks(f)
    PROVE  /\ keys = <<>>
           /\ f = "submitted" => box = <<>>
           /\ f = "pending" => box # <<>>
BY DEF Looks, Frame

(* A message begins, or "send now".                                        *)
LEMMA BeginStep ==
    ASSUME PaneInv, inj.at = "idle",
           UNCHANGED <<herdr, claude, memory, history>>,
           inj' \in InjectionType, inj'.at \in {"read", "now"}, inj'.residue = {}, inj'.typed = 0,
           inj'.at = "read" <=> inj'.msg # Nobody,
           inj'.msg # Nobody => verdict[inj'.msg] \notin {"submitted", "unconfirmed"}
    PROVE  PaneInv'
<1>1. UNCHANGED <<view, box, keys, prompts, young, own, verdict, tries, doubtful, told, fell, drafted,
                  unsaid, unseen>>
  BY DEF claude, memory, history
<1>2. inj.msg = Nobody /\ inj.residue \subseteq told' \cup unsaid'
  BY <1>1 DEF PaneInv, Flow, Alone, Busy
<1>3. Alone' /\ Steps'
  BY <1>1 DEF Alone, Busy, Steps
<1>4. Pressed'
  BY <1>1 DEF PaneInv, Flow, Pressed
<1>5. /\ Tainted => Tainted'
      /\ \A m : Fell(m)' = Fell(m)
      /\ \A s : Whole(s)' = Whole(s)
      /\ Prompted' = Prompted
  BY <1>1, BoxKept DEF PaneInv, Clear
<1>6. ASSUME ~Tainted'
      PROVE  Known'
  <2>1. Known
    BY <1>5, <1>6 DEF PaneInv, Clear
  <2>2. Typing' /\ Typeset' /\ Entered' /\ Owned'
    BY DEF Typing, Typeset, Entered, Owned
  <2>3. EnterWhole' /\ ChordAlone'
    BY <1>1, <1>5, <2>1 DEF Known, EnterWhole, ChordAlone
  <2>4. Underway'
    BY <1>1, <1>5, <2>1 DEF Known, Underway, Ahead
  <2> QED
    BY <2>2, <2>3, <2>4 DEF Known
<1>7. Mine' /\ Somewhere'
  BY DEF Mine, Somewhere
<1>8. Killing'
  <2>1. \A k : Covered(k) => Covered(k)'
    BY <1>1, <1>2, <1>5 DEF Covered
  <2> QED
    BY <1>1, <2>1 DEF PaneInv, Clear, Killing
<1>9. Fresh'
  <2>1. \A m \in Msgs : m # Nobody
    BY KeysAreNoTexts DEF Nobody
  <2> QED
    BY <1>1, <1>2, <1>5, <2>1 DEF PaneInv, Clear, Fresh
<1>10. /\ keys' \in Seq(Key) /\ own' \in Msgs \cup {Nobody} /\ tries' \in [Msgs -> Nat]
       /\ told' \subseteq Piece /\ unsaid' \subseteq Piece /\ unseen' \subseteq AllTexts
  BY <1>1 DEF PaneInv, Typed
<1> QED
  BY <1>1, <1>2, <1>3, <1>4, <1>6, <1>7, <1>8, <1>9, <1>10, HubStep

LEMMA BeginsKeeps ==
    ASSUME PaneInv, NEW m \in Msgs, Begins(m), UNCHANGED herdr
    PROVE  PaneInv'
<1>1. /\ inj' = [Idle EXCEPT !.at = "read", !.msg = m] /\ inj.at = "idle"
      /\ verdict[m] \notin {"submitted", "unconfirmed"}
      /\ UNCHANGED <<claude, memory, history>>
  BY DEF Begins
<1>2. inj' \in InjectionType /\ inj'.at = "read" /\ inj'.msg = m /\ inj'.residue = {} /\ inj'.typed = 0
  <2>1. "read" \in Places
    BY DEF Places
  <2>2. LET q == [Idle EXCEPT !.at = "read", !.msg = m] IN q \in InjectionType
    BY <2>1, IdleIs, StartIs
  <2>3. inj'.at = "read" /\ inj'.msg = m /\ inj'.residue = {} /\ inj'.typed = 0
    BY <1>1 DEF Idle
  <2> QED
    BY <1>1, <2>2, <2>3
<1>3. m # Nobody
  BY KeysAreNoTexts DEF Nobody
<1> QED
  BY <1>1, <1>2, <1>3, BeginStep

LEMMA DefersKeeps ==
    ASSUME PaneInv, Defers, UNCHANGED herdr
    PROVE  PaneInv'
<1>1. /\ inj.at \in {"read", "escaped"} /\ Ends("deferred")
      /\ UNCHANGED <<view, box, keys, prompts, young, own, tries, told, fell, drafted, unsaid, unseen>>
  BY DEF Defers, claude, history
<1>2. "deferred" \in Outcomes /\ "deferred" \notin {"submitted", "unconfirmed"}
  BY DEF Outcomes
<1>3. inj.residue \subseteq told' \cup unsaid'
  BY <1>1 DEF PaneInv, Flow, Alone
<1>4. /\ own' \in Msgs \cup {Nobody} /\ tries' \in [Msgs -> Nat]
      /\ told' \subseteq Piece /\ unsaid' \subseteq Piece /\ unseen' \subseteq AllTexts
  BY <1>1 DEF PaneInv, Typed
<1>5. ~Started
  BY <1>1 DEF Started, Submitting
<1> QED
  BY <1>1, <1>2, <1>3, <1>4, <1>5, EndStep

LEMMA RestartsKeeps ==
    ASSUME PaneInv, Restarts, UNCHANGED herdr
    PROVE  PaneInv'
<1>1. /\ Ends("uncertain") /\ own' = Nobody /\ unsaid' = unsaid \cup inj.residue
      /\ UNCHANGED <<view, box, keys, prompts, young, tries, told, fell, drafted, unseen>>
  BY DEF Restarts, claude
<1>2. "uncertain" \in Outcomes /\ "uncertain" \notin {"submitted", "unconfirmed"} \cup Undelivered
  BY DEF Outcomes, Undelivered
<1>3. inj.residue \subseteq told' \cup unsaid' /\ unsaid \subseteq unsaid'
  BY <1>1
<1>4. /\ own' \in Msgs \cup {Nobody} /\ tries' \in [Msgs -> Nat]
      /\ told' \subseteq Piece /\ unsaid' \subseteq Piece /\ unseen' \subseteq AllTexts
  BY <1>1 DEF PaneInv, Typed, InjectionType
<1> QED
  BY <1>1, <1>2, <1>3, <1>4, EndStep

(* "Send now".                                                             *)
LEMMA AsksNowKeeps ==
    ASSUME PaneInv, AsksNow, UNCHANGED herdr
    PROVE  PaneInv'
<1>1. inj' = [Idle EXCEPT !.at = "now"] /\ inj.at = "idle" /\ UNCHANGED <<claude, memory, history>>
  BY DEF AsksNow
<1>2. /\ inj' \in InjectionType /\ inj'.at = "now" /\ inj'.msg = Nobody /\ inj'.residue = {}
      /\ inj'.typed = 0
  <2>1. "now" \in Places
    BY DEF Places
  <2> QED
    BY <1>1, <2>1, IdleIs, PutIs
<1> QED
  BY <1>1, <1>2, BeginStep

LEMMA ReadsNowKeeps ==
    ASSUME PaneInv, NEW f \in Frames, ReadsNow(f), UNCHANGED herdr
    PROVE  PaneInv'
<1>1. /\ inj.at = "now" /\ Looks(f)
      /\ inj' = IF f = "submitted" THEN [inj EXCEPT !.at = "chord"] ELSE Idle
      /\ UNCHANGED <<view, box, keys, prompts, young, own, verdict, tries, doubtful, told, fell, drafted,
                     unsaid, unseen>>
  BY DEF ReadsNow, claude, memory, history
<1>2. keys = <<>> /\ (f = "submitted" => box = <<>>)
  BY <1>1, Seen
<1>3. inj \in InjectionType /\ inj.msg = Nobody /\ inj.residue \subseteq told \cup unsaid
  BY <1>1 DEF PaneInv, Typed, Flow, Alone, Busy
<1>4. /\ inj' \in InjectionType /\ inj'.msg = Nobody
      /\ inj'.at = "idle" \/ (inj'.at = "chord" /\ box = <<>>)
  <2>1. "chord" \in Places
    BY DEF Places
  <2> QED
    BY <1>1, <1>2, <1>3, <2>1, IdleIs, PutIs
<1>5. Alone' /\ Steps'
  <2>1. inj'.residue \subseteq told' \cup unsaid'
    <3>1. inj'.residue = {} \/ inj'.residue = inj.residue
      <4>1. "chord" \in Places
        BY DEF Places
      <4> QED
        BY <1>1, <1>3, <4>1, IdleIs, PutIs
    <3> QED
      BY <1>1, <1>3, <3>1
  <2> QED
    BY <1>4, <2>1 DEF Alone, Busy, Steps
<1>6. /\ own' \in Msgs \cup {Nobody} /\ tries' \in [Msgs -> Nat]
      /\ told' \subseteq Piece /\ unsaid' \subseteq Piece /\ unseen' \subseteq AllTexts
  BY <1>1 DEF PaneInv, Typed
<1>7. inj.residue \subseteq told' \cup unsaid'
  BY <1>1, <1>3
<1>8. ~Started /\ ~Submitting
  BY <1>1 DEF Started, Submitting
<1> QED
  BY <1>1, <1>2, <1>3, <1>4, <1>5, <1>6, <1>7, <1>8, LookStep

(* Who left what is in the box: see Residue.                               *)
LEMMA ResidueIs ==
    ASSUME PaneInv, box # <<>>, NEW m \in Msgs, NEW r, r = Residue(box, m)
    PROVE  /\ r \in {"own", "restored", "same", "other"}
           /\ r = "own" => Whole(box)
           /\ r = "restored" => ToSet(box) \subseteq Prompted
           /\ r = "same" => OfMsg(box, m)
<1>1. r \in {"own", "restored", "same", "other"}
  BY DEF Residue
<1>2. /\ box \in Seq(Piece) /\ prompts \in Seq(Seq(Piece) \ {<<>>}) /\ own \in Msgs \cup {Nobody}
      /\ FirstHalf
  BY DEF PaneInv, Typed, Clear
<1>3. ASSUME r = "own"
      PROVE  Whole(box)
  <2>1. own \in Msgs /\ Shows(box, Pieces(own))
    BY <1>2, <1>3 DEF Residue
  <2>2. CASE box = Pieces(own)
    BY <2>1, <2>2, PiecesAre DEF Whole
  <2>3. CASE box # Pieces(own) /\ IsSuffix(box, Pieces(own))
    <3>1. OfMsg(box, own) /\ box[1] = <<own, 2>>
      BY <1>2, <2>1, <2>3, SuffixIs
    <3>2. Fell(own)
      BY <1>2, <3>1 DEF FirstHalf
    <3> QED
      BY <2>1, <3>1, <3>2 DEF Whole
  <2> QED
    BY <2>1, <2>2, <2>3 DEF Shows
<1>4. ASSUME r = "restored"
      PROVE  ToSet(box) \subseteq Prompted
  <2>1. Shows(box, Recorded)
    <3>1. ~Shows(box, Recorded) => r \in {"own", "same", "other"}
      BY DEF Residue
    <3> QED
      BY <1>4, <3>1
  <2>2. prompts # <<>> /\ Recorded = Last(prompts)
    BY <2>1 DEF Shows, Recorded
  <2>3. Recorded \in Seq(Piece) /\ Recorded \in ToSet(prompts)
    <3>1. prompts \in Seq(Seq(Piece) \ {<<>>}) /\ prompts # <<>>
      BY <1>2, <2>2
    <3>2. Last(prompts) \in Seq(Piece) \ {<<>>} /\ Last(prompts) \in ToSet(prompts)
      <4>1. /\ Last(prompts) \in Seq(Piece) \ {<<>>}
            /\ ToSet(prompts) = {Last(prompts)} \cup ToSet(Front(prompts))
        BY <3>1, FrontIs, Zenon
      <4> QED
        BY <4>1
    <3> QED
      BY <2>2, <3>2
  <2>4. ToSet(Recorded) \subseteq Prompted
    BY <2>3 DEF Prompted
  <2>5. ToSet(box) \subseteq ToSet(Recorded)
    BY <1>2, <2>1, <2>3, SuffixElements DEF Shows
  <2> QED
    BY <2>4, <2>5
<1>5. ASSUME r = "same"
      PROVE  OfMsg(box, m)
  <2>1. BeingSent(box, m)
    BY <1>5 DEF Residue
  <2>2. CASE box = Pieces(m)
    BY <2>2, PiecesAre
  <2>3. CASE IsSuffix(box, Pieces(m))
    BY <1>2, <2>3, SuffixIs
  <2>4. CASE box \in SubSeqs(Pieces(m))
    BY <2>4, SubSeqsAre
  <2> QED
    BY <2>1, <2>2, <2>3, <2>4 DEF BeingSent, Shows
<1> QED
  BY <1>1, <1>3, <1>4, <1>5

(* The first look of a message.                                            *)
LEMMA Reading ==
    ASSUME PaneInv, inj.at \in {"read", "escaped"}
    PROVE  /\ inj \in InjectionType /\ inj.msg \in Msgs /\ inj.msg # Nobody /\ inj.typed = 0
           /\ verdict[inj.msg] \notin {"submitted", "unconfirmed"}
           /\ inj.residue \subseteq told \cup unsaid
<1>1. inj \in InjectionType /\ inj.msg \in Msgs \cup {Nobody}
  BY DEF PaneInv, Typed, InjectionType
<1> QED
  BY <1>1 DEF PaneInv, Flow, Alone, Busy, Steps

LEMMA TypesOfHub ==
    ASSUME PaneInv
    PROVE  /\ own \in Msgs \cup {Nobody} /\ tries \in [Msgs -> Nat] /\ told \subseteq Piece
           /\ unsaid \subseteq Piece /\ unseen \subseteq AllTexts
BY DEF PaneInv, Typed

LEMMA TextsIs ==
    ASSUME PaneInv
    PROVE  Texts(box) \subseteq AllTexts /\ \A k \in ToSet(box) : k[1] \in Texts(box)
<1>1. ToSet(box) \subseteq Piece
  BY ElementsOf DEF PaneInv, Typed
<1> QED
  BY <1>1 DEF Texts, Piece

(* A message goes on to its next place, with nothing pressed.              *)
LEMMA GoesOn ==
    ASSUME PaneInv, keys = <<>>, unseen \subseteq unseen', unseen' \subseteq AllTexts,
           UNCHANGED <<herdr, view, box, keys, prompts, young, verdict, doubtful, tries, told, fell,
                       drafted, unsaid>>,
           own' \in Msgs \cup {Nobody},
           inj.msg \in Msgs, inj.msg # Nobody,
           inj' \in InjectionType, inj'.msg = inj.msg,
           verdict[inj.msg] \notin {"submitted", "unconfirmed"},
           inj.residue \subseteq told \cup unsaid, inj'.at # "clear" => inj'.residue = inj.residue,
           inj'.at \in {"esc", "type", "before", "enter", "clear"},
           inj'.at = "esc" => inj'.typed = 0,
           inj'.at \in {"before", "enter"} => inj'.for \in {"own", "msg"},
           inj'.at \in {"before", "enter"} /\ inj'.for = "own" => inj'.typed = 0,
           inj'.at = "clear" => inj'.for \in {"type", "retype", "unpaste", "throw"},
           inj'.at = "type" => inj'.typed = 0 /\ \A k \in ToSet(box) : k[1] \in unseen',
           inj'.at \in {"before", "enter"} /\ inj'.for = "msg" =>
             /\ \A k \in ToSet(box) : k[1] = inj.msg \/ k[1] \in unseen'
             /\ <<inj.msg, 1>> \in ToSet(box) \cup Prompted \cup fell
             /\ ~Tainted' => box \in {<<>>, Pieces(inj.msg)} \/ Fell(inj.msg),
           inj'.at \in {"before", "enter"} /\ inj'.for = "own" /\ box # <<>> /\ ~Tainted' => Whole(box),
           inj'.at = "clear" => \A k \in ToSet(box) : Covered(k)',
           Started => Started', Submitting => Submitting'
    PROVE  PaneInv'
<1>1. tries' \in [Msgs -> Nat] /\ told' \subseteq Piece /\ unsaid' \subseteq Piece
  BY TypesOfHub
<1>2. Alone'
  BY DEF Alone, Busy
<1>3. Steps'
  <2>1. inj'.at = "type" => inj'.typed < Len(Pieces(inj'.msg))
    BY PiecesAre
  <2> QED
    BY <2>1 DEF Steps
<1>4. inj.residue \subseteq told' \cup unsaid'
  OBVIOUS
<1> QED
  BY <1>1, <1>2, <1>3, <1>4, LookStep

(* A message ends without a key, on what the hub saw.                      *)
LEMMA Stops ==
    ASSUME PaneInv, NEW v \in Outcomes \ {"submitted", "unconfirmed"}, Ends(v),
           UNCHANGED <<herdr, view, box, keys, prompts, young, tries, told, fell, drafted, unsaid, unseen>>,
           own' \in Msgs \cup {Nobody}, inj.at # "clear", v \in Undelivered => ~Started
    PROVE  PaneInv'
<1>1. inj.residue \subseteq told' \cup unsaid'
  BY DEF PaneInv, Flow, Alone
<1> QED
  BY <1>1, TypesOfHub, EndStep

LEMMA ReadsKeeps ==
    ASSUME PaneInv, NEW f \in Frames, Reads(f), UNCHANGED herdr
    PROVE  PaneInv'
<1>1. /\ inj.at \in {"read", "escaped"} /\ Looks(f)
      /\ UNCHANGED <<view, box, keys, prompts, young, told, fell, drafted, unsaid>>
      /\ \/ f = "unknown" /\ FindsUnreadable
         \/ f = "dialog" /\ FindsDialog /\ UNCHANGED unseen
         \/ f = "pending" /\ FindsText(Residue(box, inj.msg)) /\ UNCHANGED unseen
         \/ f = "submitted" /\ Goes("type") /\ UNCHANGED <<memory, unseen>>
  BY DEF Reads, claude
<1>2. /\ inj \in InjectionType /\ inj.msg \in Msgs /\ inj.msg # Nobody /\ inj.typed = 0
      /\ verdict[inj.msg] \notin {"submitted", "unconfirmed"}
      /\ inj.residue \subseteq told \cup unsaid
  BY <1>1, Reading
<1>3. keys = <<>> /\ (f = "submitted" => box = <<>>) /\ (f = "pending" => box # <<>>)
  BY <1>1, Seen
<1>4. own \in Msgs \cup {Nobody} /\ unseen \subseteq AllTexts
  BY TypesOfHub
<1>5. ASSUME NEW a \in {"esc", "type"}, Goes(a)
      PROVE  /\ inj' \in InjectionType /\ inj'.at = a /\ inj'.msg = inj.msg /\ inj'.typed = 0
             /\ inj'.residue = inj.residue
  <2>1. a \in Places /\ 0 \in Nat
    BY DEF Places
  <2>2. LET q == [inj EXCEPT !.at = a, !.n = 0] IN q \in InjectionType
    BY <1>2, <2>1, MoveIs
  <2>3. inj'.at = a /\ inj'.msg = inj.msg /\ inj'.typed = inj.typed /\ inj'.residue = inj.residue
    BY <1>2, <1>5 DEF Goes, InjectionType
  <2> QED
    BY <1>2, <1>5, <2>2, <2>3 DEF Goes
<1>10. ~Started /\ ~Submitting
  BY <1>1 DEF Started, Submitting
<1>11. "rejected" \in Outcomes \ {"submitted", "unconfirmed"}
  BY DEF Outcomes
<1>6. CASE f = "dialog" /\ FindsDialog /\ UNCHANGED unseen
  <2>1. CASE Goes("esc") /\ UNCHANGED memory
    <3>1. UNCHANGED <<own, verdict, tries, doubtful>>
      BY <2>1 DEF memory
    <3>2. /\ inj' \in InjectionType /\ inj'.at = "esc" /\ inj'.msg = inj.msg /\ inj'.typed = 0
          /\ inj'.residue = inj.residue
      BY <1>5, <2>1
    <3> QED
      BY <1>1, <1>2, <1>3, <1>4, <1>6, <1>10, <3>1, <3>2, GoesOn
  <2>2. CASE Ends("rejected") /\ UNCHANGED <<own, tries>>
    BY <1>1, <1>3, <1>4, <1>6, <1>10, <1>11, <2>2, Stops
  <2> QED
    BY <1>6, <2>1, <2>2 DEF FindsDialog
<1>7. CASE f = "unknown" /\ FindsUnreadable
  <2>1. CASE Goes("type") /\ Overlooks /\ UNCHANGED memory
    <3>1. UNCHANGED <<own, verdict, tries, doubtful>> /\ unseen' = unseen \cup Texts(box)
      BY <2>1 DEF memory, Overlooks
    <3>2. /\ inj' \in InjectionType /\ inj'.at = "type" /\ inj'.msg = inj.msg /\ inj'.typed = 0
          /\ inj'.residue = inj.residue
      BY <1>5, <2>1
    <3>3. unseen' \subseteq AllTexts /\ unseen \subseteq unseen' /\ \A k \in ToSet(box) : k[1] \in unseen'
      BY <1>4, <3>1, TextsIs
    <3> QED
      BY <1>1, <1>2, <1>3, <1>4, <1>10, <3>1, <3>2, <3>3, GoesOn
  <2>2. CASE Ends("rejected") /\ UNCHANGED <<own, tries, unseen>>
    BY <1>1, <1>3, <1>4, <1>10, <1>11, <2>2, Stops
  <2> QED
    BY <1>7, <2>1, <2>2 DEF FindsUnreadable
<1>8. CASE f = "submitted" /\ Goes("type") /\ UNCHANGED <<memory, unseen>>
  <2>1. UNCHANGED <<own, verdict, tries, doubtful>> /\ ToSet(box) = {}
    BY <1>3, <1>8, EmptyIs DEF memory
  <2>2. /\ inj' \in InjectionType /\ inj'.at = "type" /\ inj'.msg = inj.msg /\ inj'.typed = 0
        /\ inj'.residue = inj.residue
    BY <1>5, <1>8
  <2> QED
    BY <1>1, <1>2, <1>3, <1>4, <1>8, <1>10, <2>1, <2>2, GoesOn
<1>9. CASE f = "pending" /\ FindsText(Residue(box, inj.msg)) /\ UNCHANGED unseen
  <2> DEFINE r == Residue(box, inj.msg)
             R == IF r = "other" THEN ToSet(box) ELSE {}
  <2>1. /\ own' = IF r = "restored" THEN Nobody ELSE own
        /\ IF r = "own" THEN inj' = [inj EXCEPT !.at = "before", !.n = 0, !.for = "own"]
           ELSE Clearing("type", R)
        /\ UNCHANGED <<verdict, tries, doubtful>>
    BY <1>9 DEF FindsText
  <2>2. box \in Seq(Piece) /\ ToSet(box) \subseteq Piece
    BY ElementsOf DEF PaneInv, Typed
  <2>3. /\ r \in {"own", "restored", "same", "other"}
        /\ r = "own" => Whole(box)
        /\ r = "restored" => ToSet(box) \subseteq Prompted
        /\ r = "same" => \A k \in ToSet(box) : k[1] = inj.msg
    <3>1. OfMsg(box, inj.msg) <=> \A k \in ToSet(box) : k[1] = inj.msg
      BY <2>2, ElementsOf
    <3> QED
      BY <1>2, <1>3, <1>9, <3>1, ResidueIs
  <2> HIDE DEF r
  <2>4. own' \in Msgs \cup {Nobody}
    BY <1>4, <2>1
  <2>5. CASE r = "own"
    <3>1. inj' = [inj EXCEPT !.at = "before", !.n = 0, !.for = "own"]
      BY <2>1, <2>5
    <3>2. LET q == [inj EXCEPT !.at = "before", !.n = 0, !.for = "own"] IN q \in InjectionType
      BY <1>2, SubmitIs
    <3>3. /\ inj'.at = "before" /\ inj'.msg = inj.msg /\ inj'.for = "own" /\ inj'.typed = inj.typed
          /\ inj'.residue = inj.residue
      BY <1>2, <3>1 DEF InjectionType
    <3>4. inj' \in InjectionType
      BY <3>1, <3>2
    <3>5. Whole(box)
      BY <2>3, <2>5
    <3> QED
      BY <1>1, <1>2, <1>3, <1>4, <1>9, <1>10, <2>1, <2>4, <3>3, <3>4, <3>5, GoesOn
  <2>6. CASE r # "own"
    <3>1. inj' = [inj EXCEPT !.at = "clear", !.n = 0, !.for = "type", !.residue = R]
      BY <2>1, <2>6 DEF Clearing
    <3>2. LET q == [inj EXCEPT !.at = "clear", !.n = 0, !.for = "type", !.residue = R] IN q \in InjectionType
      <4>1. "type" \in Purposes /\ R \in SUBSET Piece
        BY <2>2 DEF Purposes
      <4> HIDE DEF R
      <4> QED
        BY <1>2, <4>1, ClearIs
    <3>3. /\ inj'.at = "clear" /\ inj'.msg = inj.msg /\ inj'.for = "type" /\ inj'.typed = inj.typed
          /\ inj'.residue = R
      <4> HIDE DEF R
      <4> QED
        BY <1>2, <3>1 DEF InjectionType
    <3>4. inj' \in InjectionType
      BY <3>1, <3>2
    <3>5. ASSUME NEW k \in ToSet(box)
          PROVE  Covered(k)'
      <4>1. CASE r = "other"
        BY <3>3, <3>5, <4>1 DEF Covered
      <4>2. CASE r = "restored"
        <5>1. k \in Prompted'
          BY <1>1, <2>1, <2>3, <3>5, <4>2 DEF Prompted
        <5> QED
          BY <5>1 DEF Covered
      <4>3. CASE r = "same"
        BY <1>2, <2>1, <2>3, <3>5, <4>3 DEF Covered
      <4> QED
        BY <2>1, <2>3, <2>6, <3>5, <4>1, <4>2, <4>3
    <3> HIDE DEF R
    <3> QED
      BY <1>1, <1>2, <1>3, <1>4, <1>9, <1>10, <2>1, <2>4, <3>3, <3>4, <3>5, GoesOn
  <2> QED
    BY <2>5, <2>6
<1> QED
  BY <1>1, <1>6, <1>7, <1>8, <1>9

(* A key that is not text is pressed.                                      *)
LEMMA PressStep ==
    ASSUME PaneInv, keys = <<>>, NEW k \in {Enter, Kill, Esc, Chord}, Presses(<<k>>),
           UNCHANGED <<herdr, view, box, prompts, young, fell, drafted, verdict, doubtful, tries, own,
                       told, unsaid, unseen>>,
           inj' \in InjectionType, Alone', Steps', inj'.at \in {"escaped", "clear", "after", "idle"},
           inj'.at = "clear" => k = Kill, inj'.at = "after" => k = Enter,
           inj.residue \subseteq told \cup unsaid \cup inj'.residue,
           inj.msg \in {inj'.msg, Nobody}, Started => Started', Submitting => Submitting',
           k = Enter /\ box # <<>> /\ ~Tainted => Whole(box),
           k = Chord /\ ~Tainted => box = <<>>,
           k = Kill => \A b \in ToSet(box) : Covered(b)',
           inj'.at = "after" /\ inj'.for = "msg" =>
             /\ \A b \in ToSet(box) : b[1] = inj'.msg \/ b[1] \in unseen
             /\ <<inj'.msg, 1>> \in ToSet(box) \cup Prompted \cup fell
             /\ ~Tainted => box \in {<<>>, Pieces(inj'.msg)} \/ Fell(inj'.msg)
    PROVE  PaneInv'
<1>1. /\ k \in Key /\ <<k>> # <<>> /\ ToSet(<<k>>) = {k} /\ \A m \in Msgs : ~OfMsg(<<k>>, m)
      /\ <<k>> \in Seq(Key) /\ \A l \in {Enter, Kill, Esc, Chord} : <<l>> = <<k>> => l = k
      /\ k[1] \notin Msgs
  BY Specials
<1>2. keys' = <<k>>
  <2>1. <<>> \o <<k>> = <<k>>
    BY <1>1, JoinIs
  <2> QED
    BY <2>1 DEF Presses
<1>3. keys' \in Seq(Key) /\ ToSet(keys) \subseteq ToSet(keys') /\ box \in Seq(Piece)
  BY <1>1, <1>2, EmptyIs DEF PaneInv, Typed
<1>4. Pressed'
  BY <1>2 DEF Pressed
<1>5. /\ Tainted => Tainted'
      /\ \A m : Fell(m)' = Fell(m)
      /\ \A s : Whole(s)' = Whole(s)
      /\ Prompted' = Prompted
  BY BoxKept DEF PaneInv, Clear
<1>6. ASSUME ~Tainted'
      PROVE  Known'
  <2>1. ~Tainted
    BY <1>5, <1>6
  <2>2. Typing' /\ Typeset'
    BY DEF Typing, Typeset
  <2>3. Entered'
    <3>1. SUFFICES ASSUME inj'.at = "after", inj'.for = "msg"
                   PROVE  /\ OfMsg(box, inj'.msg)
                          /\ box \in {<<>>, Pieces(inj'.msg)} \/ Fell(inj.msg)'
      BY <1>2 DEF Entered
    <3>2. \A b \in ToSet(box) : b[1] = inj'.msg
      BY <2>1, <3>1 DEF Tainted
    <3>3. Fell(inj'.msg) => Fell(inj.msg)'
      BY DEF Fell
    <3> QED
      BY <1>3, <2>1, <3>1, <3>2, <3>3, ElementsOf
  <2>4. Owned'
    BY <1>2, <1>5, <2>1 DEF Owned
  <2>5. EnterWhole' /\ ChordAlone' /\ Underway'
    BY <1>1, <1>2, <1>5, <2>1 DEF EnterWhole, ChordAlone, Underway
  <2> QED
    BY <2>2, <2>3, <2>4, <2>5 DEF Known
<1>7. Mine'
  BY DEF Mine
<1>8. Killing'
  BY <1>1, <1>2 DEF Killing
<1>9. Somewhere'
  BY <1>5 DEF Somewhere
<1>10. Fresh'
  <2>1. \A m \in Msgs : m # Nobody
    BY KeysAreNoTexts DEF Nobody
  <2> QED
    BY <1>1, <1>2, <1>5, <2>1 DEF PaneInv, Clear, Fresh
<1>11. /\ own' \in Msgs \cup {Nobody} /\ tries' \in [Msgs -> Nat] /\ told' \subseteq Piece
       /\ unsaid' \subseteq Piece /\ unseen' \subseteq AllTexts
  BY DEF PaneInv, Typed
<1>12. inj.residue \subseteq told' \cup unsaid' \cup inj'.residue
  OBVIOUS
<1> QED
  BY <1>3, <1>4, <1>6, <1>7, <1>8, <1>9, <1>10, <1>11, <1>12, HubStep

LEMMA PressesEscKeeps ==
    ASSUME PaneInv, PressesEsc, UNCHANGED herdr
    PROVE  PaneInv'
<1>1. /\ inj.at = "esc" /\ Presses(<<Esc>>) /\ inj' = [inj EXCEPT !.at = "escaped", !.n = 0]
      /\ UNCHANGED <<view, box, prompts, young, own, verdict, doubtful, tries, told, fell, drafted,
                     unsaid, unseen>>
  BY DEF PressesEsc, Goes, memory, history
<1>2. inj \in InjectionType /\ keys = <<>> /\ inj.typed = 0 /\ inj.residue \subseteq told \cup unsaid
      /\ inj.msg # Nobody /\ verdict[inj.msg] \notin {"submitted", "unconfirmed"}
  BY <1>1 DEF PaneInv, Typed, Flow, Pressed, Steps, Alone, Busy
<1>3. inj' \in InjectionType
  <2>1. "escaped" \in Places /\ 0 \in Nat
    BY DEF Places
  <2>2. LET q == [inj EXCEPT !.at = "escaped", !.n = 0] IN q \in InjectionType
    BY <1>2, <2>1, MoveIs
  <2> QED
    BY <1>1, <2>2
<1>4. inj'.at = "escaped" /\ inj'.msg = inj.msg /\ inj'.typed = 0 /\ inj'.residue = inj.residue
  BY <1>1, <1>2 DEF InjectionType
<1>5. Alone' /\ Steps'
  BY <1>1, <1>2, <1>4 DEF Alone, Busy, Steps
<1>6. Esc \notin {Enter, Kill, Chord} /\ Esc \in {Enter, Kill, Esc, Chord} /\ ~Started /\ ~Submitting
  BY <1>1, KindsOfKeys DEF Started, Submitting
<1> QED
  BY <1>1, <1>2, <1>3, <1>4, <1>5, <1>6, PressStep

LEMMA PressesChordKeeps ==
    ASSUME PaneInv, PressesChord, UNCHANGED herdr
    PROVE  PaneInv'
<1>1. /\ inj.at = "chord" /\ Presses(<<Chord>>) /\ inj' = Idle
      /\ UNCHANGED <<view, box, prompts, young, own, verdict, doubtful, tries, told, fell, drafted,
                     unsaid, unseen>>
  BY DEF PressesChord, Chord, memory, history
<1>2. keys = <<>> /\ inj.residue \subseteq told \cup unsaid /\ (~Tainted => box = <<>>) /\ inj.msg = Nobody
  BY <1>1 DEF PaneInv, Typed, Flow, Pressed, Alone, Busy, Clear, Known, ChordAlone
<1>3. inj' \in InjectionType /\ inj'.at = "idle" /\ inj'.msg = Nobody /\ inj'.residue = {}
  BY <1>1, IdleIs
<1>4. Alone' /\ Steps'
  BY <1>3 DEF Alone, Busy, Steps
<1>5. Chord \notin {Enter, Kill} /\ Chord \in {Enter, Kill, Esc, Chord} /\ ~Started /\ ~Submitting
  BY <1>1, KindsOfKeys DEF Started, Submitting
<1> QED
  BY <1>1, <1>2, <1>3, <1>4, <1>5, PressStep

LEMMA PressesEnterKeeps ==
    ASSUME PaneInv, PressesEnter, UNCHANGED herdr
    PROVE  PaneInv'
<1>1. /\ inj.at = "enter" /\ Presses(<<Enter>>) /\ inj' = [inj EXCEPT !.at = "after"]
      /\ UNCHANGED <<view, box, prompts, young, own, verdict, doubtful, tries, told, fell, drafted,
                     unsaid, unseen>>
  BY DEF PressesEnter, memory, history
<1>2. /\ inj \in InjectionType /\ keys = <<>> /\ inj.residue \subseteq told \cup unsaid
      /\ inj.msg # Nobody /\ verdict[inj.msg] \notin {"submitted", "unconfirmed"}
      /\ inj.for \in {"own", "msg"} /\ (inj.for = "own" => inj.typed = 0)
  BY <1>1 DEF PaneInv, Typed, Flow, Pressed, Steps, Alone, Busy
<1>3. inj' \in InjectionType
  <2>1. "after" \in Places
    BY DEF Places
  <2>2. LET q == [inj EXCEPT !.at = "after"] IN q \in InjectionType
    BY <1>2, <2>1, PutIs
  <2> QED
    BY <1>1, <2>2
<1>4. /\ inj'.at = "after" /\ inj'.msg = inj.msg /\ inj'.for = inj.for /\ inj'.typed = inj.typed
      /\ inj'.residue = inj.residue
  BY <1>1, <1>2 DEF InjectionType
<1>5. Alone' /\ Steps'
  BY <1>1, <1>2, <1>4 DEF Alone, Busy, Steps
<1>6. Enter \notin {Kill, Chord} /\ Enter \in {Enter, Kill, Esc, Chord}
  BY KindsOfKeys
<1>7. /\ box # <<>> /\ ~Tainted => Whole(box)
      /\ inj.for = "msg" =>
           /\ \A b \in ToSet(box) : b[1] = inj.msg \/ b[1] \in unseen
           /\ <<inj.msg, 1>> \in ToSet(box) \cup Prompted \cup fell
           /\ ~Tainted => box \in {<<>>, Pieces(inj.msg)} \/ Fell(inj.msg)
  <2>1. Ahead = box /\ ToSet(keys) = {}
    BY <1>2, JoinIs, EmptyIs DEF Ahead, PaneInv, Typed
  <2>2. inj.msg \in Msgs
    BY <1>2 DEF InjectionType
  <2>3. ASSUME inj.for = "msg"
        PROVE  /\ \A b \in ToSet(box) : b[1] = inj.msg \/ b[1] \in unseen
               /\ <<inj.msg, 1>> \in ToSet(box) \cup Prompted \cup fell
    BY <1>1, <2>1, <2>3 DEF PaneInv, Clear, Mine, Somewhere
  <2>4. ASSUME inj.for = "msg", ~Tainted
        PROVE  OfMsg(box, inj.msg) /\ (box \in {<<>>, Pieces(inj.msg)} \/ Fell(inj.msg))
    BY <1>1, <2>1, <2>4 DEF PaneInv, Clear, Known, Typeset
  <2>5. inj.for = "msg" /\ box # <<>> /\ ~Tainted => Whole(box)
    BY <2>2, <2>4 DEF Whole
  <2>6. inj.for = "own" /\ box # <<>> /\ ~Tainted => Whole(box)
    BY <1>1 DEF PaneInv, Clear, Known, Owned
  <2> QED
    BY <1>2, <2>3, <2>4, <2>5, <2>6
<1>8. (Started => Started') /\ (Submitting => Submitting')
  BY <1>1, <1>4 DEF Started, Submitting
<1> QED
  BY <1>1, <1>2, <1>3, <1>4, <1>5, <1>6, <1>7, <1>8, PressStep

(* Clearing the box.                                                       *)
LEMMA ClearedKeeps ==
    ASSUME PaneInv, inj.at = "clear", keys = <<>>, Cleared, inj.for = "unpaste" => box = <<>>,
           unseen \subseteq unseen', unseen' \subseteq AllTexts, \A k \in ToSet(box) : k[1] \in unseen',
           UNCHANGED <<herdr, view, box, keys, prompts, young, fell, drafted>>
    PROVE  PaneInv'
<1>1. told' = told \cup inj.residue /\ unsaid' = unsaid
  BY DEF Cleared
<1>2. /\ inj \in InjectionType /\ inj.for \in {"type", "retype", "unpaste", "throw"}
      /\ inj.msg \in Msgs /\ inj.msg # Nobody /\ verdict[inj.msg] \notin {"submitted", "unconfirmed"}
  BY DEF PaneInv, Typed, Flow, Steps, Alone, Busy, InjectionType
<1>3. /\ told' \subseteq Piece /\ unsaid' \subseteq Piece
      /\ told \subseteq told' /\ unsaid \subseteq unsaid' /\ inj.residue \subseteq told' \cup unsaid'
      /\ own \in Msgs \cup {Nobody} /\ tries \in [Msgs -> Nat]
  BY <1>1, <1>2, TypesOfHub DEF InjectionType
<1>4. CASE inj.for \in {"type", "retype"}
  <2>1. inj' = [inj EXCEPT !.at = "type", !.n = 0, !.typed = 0] /\ UNCHANGED <<own, verdict, doubtful, tries>>
    BY <1>4 DEF Cleared, memory
  <2>2. LET q == [inj EXCEPT !.at = "type", !.n = 0, !.typed = 0] IN q \in InjectionType
    BY <1>2, TypeIs
  <2>3. /\ inj' \in InjectionType /\ inj'.at = "type" /\ inj'.typed = 0 /\ inj'.msg = inj.msg
        /\ inj'.residue = inj.residue
    BY <1>2, <2>1, <2>2 DEF InjectionType
  <2>4. Alone' /\ Steps'
    <3>1. inj'.typed < Len(Pieces(inj'.msg))
      BY <1>2, <2>3, PiecesAre
    <3> QED
      BY <1>2, <1>3, <2>1, <2>3, <3>1 DEF Alone, Busy, Steps
  <2>5. Started' /\ ~Submitting
    BY <2>3 DEF Started, Submitting
  <2> QED
    BY <1>3, <2>1, <2>3, <2>4, <2>5, LookStep
<1>5. ASSUME NEW v \in {"rejected", "uncertain"}, Ends(v), own' = Nobody, tries' = tries,
             v = "rejected" => box = <<>>
      PROVE  PaneInv'
  <2>1. v \in Outcomes /\ v \notin {"submitted", "unconfirmed"} /\ (v \in Undelivered => box = <<>>)
    BY <1>5 DEF Outcomes, Undelivered
  <2>2. own' \in Msgs \cup {Nobody} /\ tries' \in [Msgs -> Nat]
    BY <1>3, <1>5
  <2> QED
    BY <1>3, <1>5, <2>1, <2>2, EndStep
<1>6. CASE inj.for = "unpaste"
  BY <1>5, <1>6 DEF Cleared
<1>7. CASE inj.for = "throw"
  BY <1>5, <1>7 DEF Cleared
<1> QED
  BY <1>2, <1>4, <1>6, <1>7

LEMMA NotClearedKeeps ==
    ASSUME PaneInv, inj.at = "clear", keys = <<>>, NotCleared,
           UNCHANGED <<herdr, view, box, keys, prompts, young, fell, drafted, unseen>>
    PROVE  PaneInv'
<1> DEFINE v == IF inj.for = "type" THEN "rejected" ELSE "uncertain"
<1>1. /\ Ends(v) /\ own' = (IF inj.for = "type" THEN own ELSE Nobody)
      /\ unsaid' = unsaid \cup inj.residue /\ tries' = tries /\ told' = told
  BY DEF NotCleared
<1>2. v \in Outcomes /\ v \notin {"submitted", "unconfirmed"} /\ (v \in Undelivered => ~Started)
  BY DEF Outcomes, Undelivered, Started, Submitting
<1> HIDE DEF v
<1>3. inj \in InjectionType
  BY DEF PaneInv, Typed
<1>4. /\ told' \subseteq Piece /\ unsaid' \subseteq Piece /\ unseen' \subseteq AllTexts
      /\ told \subseteq told' /\ unsaid \subseteq unsaid' /\ inj.residue \subseteq told' \cup unsaid'
      /\ own' \in Msgs \cup {Nobody} /\ tries' \in [Msgs -> Nat]
  BY <1>1, <1>3, TypesOfHub DEF InjectionType
<1> QED
  BY <1>1, <1>2, <1>4, EndStep

LEMMA ClearsKeeps ==
    ASSUME PaneInv, NEW f \in Frames, Clears(f), UNCHANGED herdr
    PROVE  PaneInv'
<1>1. /\ inj.at = "clear" /\ Looks(f)
      /\ UNCHANGED <<view, box, prompts, young, fell, drafted>>
      /\ \/ /\ ReadsEmpty(f) /\ Cleared /\ UNCHANGED keys
            /\ IF f # "submitted" THEN Overlooks ELSE UNCHANGED unseen
         \/ /\ Presses(<<Kill>>) /\ inj' = [inj EXCEPT !.n = @ + 1]
            /\ UNCHANGED <<memory, told, unsaid, unseen>>
         \/ NotCleared /\ UNCHANGED <<keys, unseen>>
  BY DEF Clears
<1>2. keys = <<>> /\ (f = "submitted" => box = <<>>)
  BY <1>1, Seen
<1>3. CASE /\ ReadsEmpty(f) /\ Cleared /\ UNCHANGED keys
           /\ IF f # "submitted" THEN Overlooks ELSE UNCHANGED unseen
  <2>1. inj.for = "unpaste" => box = <<>>
    BY <1>2, <1>3 DEF ReadsEmpty, Trusting
  <2>2. /\ unseen \subseteq unseen' /\ unseen' \subseteq AllTexts
        /\ \A k \in ToSet(box) : k[1] \in unseen'
    <3>1. CASE f # "submitted"
      BY <1>3, <3>1, TextsIs, TypesOfHub DEF Overlooks
    <3>2. CASE f = "submitted"
      BY <1>2, <1>3, <3>2, TypesOfHub, EmptyIs
    <3> QED
      BY <3>1, <3>2
  <2> QED
    BY <1>1, <1>2, <1>3, <2>1, <2>2, ClearedKeeps
<1>4. CASE NotCleared /\ UNCHANGED <<keys, unseen>>
  BY <1>1, <1>2, <1>4, NotClearedKeeps
<1>5. CASE /\ Presses(<<Kill>>) /\ inj' = [inj EXCEPT !.n = @ + 1]
           /\ UNCHANGED <<memory, told, unsaid, unseen>>
  <2>1. UNCHANGED <<own, verdict, doubtful, tries, told, unsaid, unseen>>
    BY <1>5 DEF memory
  <2>2. /\ inj \in InjectionType /\ inj.for \in {"type", "retype", "unpaste", "throw"}
        /\ inj.msg # Nobody /\ verdict[inj.msg] \notin {"submitted", "unconfirmed"}
    BY <1>1 DEF PaneInv, Typed, Flow, Steps, Alone, Busy
  <2>3. inj' \in InjectionType
    <3>1. inj.n + 1 \in Nat
      <4>1. inj.n \in Nat
        BY <2>2 DEF InjectionType
      <4> QED
        BY <4>1
    <3>2. LET q == [inj EXCEPT !.n = inj.n + 1] IN q \in InjectionType
      BY <2>2, <3>1, CountIs
    <3> QED
      BY <1>5, <3>2
  <2>4. /\ inj'.at = "clear" /\ inj'.msg = inj.msg /\ inj'.for = inj.for /\ inj'.residue = inj.residue
    BY <1>1, <1>5, <2>2 DEF InjectionType
  <2>5. Alone' /\ Steps'
    BY <2>1, <2>2, <2>4 DEF Alone, Busy, Steps
  <2>6. ASSUME NEW b \in ToSet(box)
        PROVE  Covered(b)'
    <3>2. b # Kill
      <4>1. box \in Seq(Piece)
        BY DEF PaneInv, Typed
      <4> QED
        BY <4>1, ElementsOf, Specials
    <3>3. Covered(b)
      BY <1>1, <3>2 DEF PaneInv, Clear, Killing
    <3> QED
      BY <1>1, <2>1, <2>4, <3>3 DEF Covered, Prompted
  <2>7. Kill \notin {Enter, Chord} /\ Kill \in {Enter, Kill, Esc, Chord}
    BY KindsOfKeys
  <2>8. (Started => Started') /\ ~Submitting
    BY <1>1, <2>4 DEF Started, Submitting
  <2> QED
    BY <1>1, <1>2, <1>5, <2>1, <2>3, <2>4, <2>5, <2>6, <2>7, <2>8, PressStep
<1> QED
  BY <1>1, <1>3, <1>4, <1>5

(* A piece of the message is typed.                                        *)
LEMMA TypesKeeps ==
    ASSUME PaneInv, Types, UNCHANGED herdr
    PROVE  PaneInv'
<1> DEFINE m == inj.msg
           p == Pieces(m)
           i == inj.typed + 1
           k == p[i]
           a == IF i # Len(p) THEN "type" ELSE IF herdr \/ m \in Long THEN "check" ELSE "before"
<1>1. /\ inj.at = "type" /\ own' = m /\ Presses(<<k>>)
      /\ tries' = IF inj.typed = 0 /\ inj.again = 0 THEN [tries EXCEPT ![m] = @ + 1] ELSE tries
      /\ inj' = [inj EXCEPT !.typed = i, !.for = "msg", !.n = 0, !.at = a]
      /\ UNCHANGED <<view, box, prompts, young, verdict, doubtful, told, fell, drafted, unsaid, unseen>>
  BY DEF Types, history
<1>2. /\ inj \in InjectionType /\ m \in Msgs /\ m # Nobody /\ inj.typed \in {0, 1, 2}
      /\ verdict[m] \notin {"submitted", "unconfirmed"} /\ inj.residue \subseteq told \cup unsaid
      /\ inj.typed < Len(p) /\ OfMsg(keys, m)
  BY <1>1 DEF PaneInv, Typed, Flow, Alone, Busy, Steps, Pressed, InjectionType
<1>3. /\ p \in Seq(Key) /\ p \in Seq(Piece) /\ Len(p) = (IF m \in Long THEN 2 ELSE 1)
      /\ p[1] = <<m, 1>> /\ (m \in Long => p[2] = <<m, 2>>)
  BY <1>2, PiecesAre
<1>4. \/ inj.typed = 0 /\ i = 1 /\ k = <<m, 1>>
      \/ inj.typed = 1 /\ i = 2 /\ Len(p) = 2 /\ m \in Long /\ k = <<m, 2>>
  BY <1>2, <1>3
<1>5. k \in Key /\ k \in Piece /\ k[1] = m /\ i \in {1, 2}
  <2> HIDE DEF k, i
  <2>1. i \in {1, 2} /\ (k = <<m, 1>> \/ k = <<m, 2>>)
    BY <1>4
  <2>2. \A j \in {1, 2} : <<m, j>> \in Key /\ <<m, j>> \in Piece /\ <<m, j>>[1] = m
    BY <1>2 DEF Key, Piece, AllTexts
  <2> QED
    BY <2>1, <2>2
<1>6. a \in {"type", "check", "before"} /\ (a = "type" => i # Len(p)) /\ (a # "type" => i = Len(p))
  OBVIOUS
<1>7. Len(p) \in {1, 2} /\ (a = "type" => i = 1 /\ Len(p) = 2 /\ i < Len(p))
  BY <1>3, <1>4, <1>6
<1> HIDE DEF a, k, i
<1>8. inj' \in InjectionType
  <2>1. a \in Places
    BY <1>6 DEF Places
  <2>2. LET q == [inj EXCEPT !.typed = i, !.for = "msg", !.n = 0, !.at = a] IN q \in InjectionType
    BY <1>2, <1>5, <2>1, TypedIs
  <2> QED
    BY <1>1, <2>2
<1>9. inj'.at = a /\ inj'.msg = m /\ inj'.for = "msg" /\ inj'.typed = i /\ inj'.residue = inj.residue
  BY <1>1, <1>2 DEF InjectionType
<1>10. /\ keys' = Append(keys, k) /\ keys' \in Seq(Key) /\ keys' # <<>>
       /\ ToSet(keys') = ToSet(keys) \cup {k} /\ OfMsg(keys', m)
  <2>1. keys \in Seq(Key)
    BY DEF PaneInv, Typed
  <2>2. keys' = keys \o <<k>>
    BY <1>1 DEF Presses
  <2>3. keys' = Append(keys, k)
    BY <1>5, <2>1, <2>2, JoinIs
  <2>4. keys' \in Seq(Key) /\ keys' # <<>> /\ ToSet(keys') = ToSet(keys) \cup {k}
    BY <1>5, <2>1, <2>3, AppendIs
  <2>5. \A x \in ToSet(keys) : x[1] = m
    BY <1>2, <2>1, ElementsOf
  <2>6. \A x \in ToSet(keys') : x[1] = m
    BY <1>5, <2>4, <2>5
  <2>7. OfMsg(keys', m)
    BY <2>4, <2>6, ElementsOf
  <2> QED
    BY <2>3, <2>4, <2>7
<1>11. /\ keys' \notin {<<Enter>>, <<Kill>>, <<Esc>>, <<Chord>>}
       /\ \A o \in Msgs : OfMsg(keys', o) => o = m
  <2>1. \A l \in {Enter, Kill, Esc, Chord} : ~OfMsg(<<l>>, m)
    BY <1>2, Specials
  <2>2. \A o : OfMsg(keys', o) <=> \A x \in ToSet(keys') : x[1] = o
    BY <1>10, ElementsOf
  <2> QED
    BY <1>2, <1>5, <1>10, <2>1, <2>2
<1>13. Alone'
  BY <1>1, <1>2, <1>6, <1>9 DEF Alone, Busy
<1>14. Steps'
  <2>1. inj'.at = "type" => inj'.typed < Len(Pieces(inj'.msg))
    BY <1>7, <1>9
  <2> QED
    BY <1>6, <1>9, <2>1 DEF Steps
<1>15. Pressed'
  <2>1. inj'.at = "type" => inj'.typed # 0
    BY <1>7, <1>9
  <2> QED
    BY <1>2, <1>6, <1>9, <1>10, <2>1 DEF Pressed
<1>12. /\ Tainted => Tainted'
       /\ \A o : Fell(o)' = Fell(o)
       /\ Prompted' = Prompted
  BY <1>1, BoxKept DEF PaneInv, Clear
<1>16. ASSUME ~Tainted'
       PROVE  Known'
  <2>1. Known
    BY <1>12, <1>16 DEF PaneInv, Clear
  <2>3. OfMsg(box, m) /\ (Ahead = SubSeq(p, 1, inj.typed) \/ Fell(m))
    BY <1>1, <2>1 DEF Known, Typing
  <2>4. Ahead' = Append(Ahead, k)
    <3>1. box \in Seq(Things) /\ keys \in Seq(Things) /\ k \in Things
      BY <1>5, Contents DEF PaneInv, Things
    <3>2. box \o Append(keys, k) = Append(box \o keys, k)
      BY <3>1, JoinIs
    <3> QED
      BY <1>1, <1>10, <3>2 DEF Ahead
  <2>5. \/ Fell(m)
        \/ Ahead' = SubSeq(p, 1, i) /\ IsPrefix(Ahead', p) /\ (i = Len(p) => Ahead' = p)
    <3>1. SUFFICES ASSUME Ahead = SubSeq(p, 1, inj.typed)
                   PROVE  Ahead' = SubSeq(p, 1, i) /\ IsPrefix(Ahead', p) /\ (i = Len(p) => Ahead' = p)
      BY <2>3
    <3>2. CASE inj.typed = 0
      <4>1. i = 1 /\ k = p[1]
        BY <1>3, <1>4, <3>2
      <4>2. Ahead' = SubSeq(p, 1, 1)
        BY <1>2, <2>4, <3>1, <3>2, <4>1, StartsOf
      <4>3. IsPrefix(SubSeq(p, 1, 1), p) /\ SubSeq(p, 1, Len(p)) = p
        BY <1>2, StartsOf
      <4> QED
        BY <4>1, <4>2, <4>3
    <3>3. CASE inj.typed = 1
      <4>1. i = 2 /\ Len(p) = 2 /\ m \in Long /\ k = p[2]
        BY <1>3, <1>4, <3>3
      <4>2. Ahead' = p
        BY <1>2, <2>4, <3>1, <3>3, <4>1, StartsOf
      <4>3. IsPrefix(p, p) /\ SubSeq(p, 1, Len(p)) = p
        BY <1>2, SelfPrefix, StartsOf
      <4> QED
        BY <4>1, <4>2, <4>3
    <3> QED
      BY <1>4, <3>2, <3>3
  <2>6. Typing'
    BY <1>1, <1>9, <1>10, <1>12, <2>3, <2>5 DEF Typing
  <2>7. Typeset'
    BY <1>1, <1>6, <1>9, <1>10, <1>12, <2>3, <2>5 DEF Typeset
  <2>8. Entered' /\ Owned'
    BY <1>6, <1>9 DEF Entered, Owned
  <2>9. EnterWhole' /\ ChordAlone'
    BY <1>6, <1>9, <1>11 DEF EnterWhole, ChordAlone
  <2>10. Underway'
    BY <1>1, <1>11, <1>12, <2>3, <2>5 DEF Underway
  <2> QED
    BY <2>6, <2>7, <2>8, <2>9, <2>10 DEF Known
<1>19. Mine'
  BY <1>1, <1>9 DEF PaneInv, Clear, Mine
<1>20. Killing'
  BY <1>6, <1>9, <1>11 DEF Killing
<1>21. Somewhere'
  <2>1. CASE inj.typed = 0
    BY <1>4, <1>9, <1>10, <2>1 DEF Somewhere
  <2>2. CASE inj.typed = 1
    <3>1. <<m, 1>> \in ToSet(box) \cup ToSet(keys) \cup Prompted \cup fell
      BY <1>1, <2>2 DEF PaneInv, Clear, Somewhere
    <3> QED
      BY <1>1, <1>9, <1>10, <1>12, <3>1 DEF Somewhere
  <2> QED
    BY <1>4, <2>1, <2>2
<1>22. Fresh'
  <2>1. Started' /\ ~Submitting
    BY <1>1, <1>6, <1>9 DEF Started, Submitting
  <2>2. SUFFICES ASSUME NEW o \in Msgs, o \notin doubtful
                 PROVE  /\ (\E b \in ToSet(box) \cup ToSet(keys') : b[1] = o) => m = o
                        /\ ~ \E b \in Prompted : b[1] = o
    BY <1>1, <1>9, <1>12, <2>1 DEF Fresh
  <2> QED
    BY <1>5, <1>10, <2>1, <2>2 DEF PaneInv, Clear, Fresh
<1>17. /\ own' \in Msgs \cup {Nobody} /\ tries' \in [Msgs -> Nat] /\ told' \subseteq Piece
       /\ unsaid' \subseteq Piece /\ unseen' \subseteq AllTexts
  <2>1. tries \in [Msgs -> Nat]
    BY TypesOfHub
  <2>2. tries[m] + 1 \in Nat
    BY <1>2, <2>1
  <2>3. tries' \in [Msgs -> Nat]
    BY <1>1, <1>2, <2>1, <2>2
  <2> QED
    BY <1>1, <1>2, <2>3 DEF PaneInv, Typed
<1>18. ToSet(keys) \subseteq ToSet(keys') /\ inj.residue \subseteq told' \cup unsaid' \cup inj'.residue
  BY <1>1, <1>9, <1>10
<1> QED
  BY <1>1, <1>8, <1>10, <1>13, <1>14, <1>15, <1>16, <1>17, <1>18, <1>19, <1>20, <1>21, <1>22, HubStep

(* Did the message arrive?                                                 *)
LEMMA ChecksKeeps ==
    ASSUME PaneInv, NEW f \in Frames, Checks(f), UNCHANGED herdr
    PROVE  PaneInv'
<1>1. /\ inj.at = "check" /\ Looks(f)
      /\ \/ Goes("before")
         \/ inj' = [inj EXCEPT !.at = "before", !.n = 0, !.sure = FALSE]
         \/ inj' = [inj EXCEPT !.at = "clear", !.n = 0, !.for = "retype", !.again = inj.again + 1]
         \/ Clearing("throw", {})
      /\ UNCHANGED <<view, box, keys, prompts, young, own, verdict, doubtful, tries, told, fell,
                     drafted, unsaid, unseen>>
  BY DEF Checks, claude, memory, history
<1>2. keys = <<>>
  BY <1>1, Seen
<1>3. /\ inj \in InjectionType /\ inj.msg \in Msgs /\ inj.msg # Nobody /\ inj.for = "msg"
      /\ verdict[inj.msg] \notin {"submitted", "unconfirmed"}
      /\ inj.residue \subseteq told \cup unsaid
  BY <1>1 DEF PaneInv, Typed, Flow, Alone, Busy, Steps, InjectionType
<1>4. /\ \A b \in ToSet(box) : b[1] = inj.msg \/ b[1] \in unseen
      /\ <<inj.msg, 1>> \in ToSet(box) \cup Prompted \cup fell
      /\ ~Tainted => box \in {<<>>, Pieces(inj.msg)} \/ Fell(inj.msg)
  <2>1. Ahead = box /\ ToSet(keys) = {}
    BY <1>2, JoinIs, EmptyIs DEF Ahead, PaneInv, Typed
  <2> QED
    BY <1>1, <1>3, <2>1 DEF PaneInv, Clear, Known, Typeset, Somewhere, Mine
<1>5. ~Tainted' => ~Tainted
  BY <1>1 DEF Tainted
<1>6. own \in Msgs \cup {Nobody} /\ unseen \subseteq AllTexts
  BY TypesOfHub
<1>7. ASSUME inj' \in InjectionType, inj'.at = "before", inj'.msg = inj.msg, inj'.for = "msg",
             inj'.typed = inj.typed, inj'.residue = inj.residue
      PROVE  PaneInv'
  <2>1. Started' /\ Submitting'
    BY <1>7 DEF Started, Submitting
  <2> QED
    BY <1>1, <1>2, <1>3, <1>4, <1>5, <1>6, <1>7, <2>1, GoesOn
<1>8. ASSUME inj' \in InjectionType, inj'.at = "clear", inj'.msg = inj.msg,
             inj'.for \in {"retype", "throw"}, inj'.typed = inj.typed
      PROVE  PaneInv'
  <2>1. \A b \in ToSet(box) : Covered(b)'
    BY <1>1, <1>3, <1>4 DEF Covered
  <2>2. Started' /\ ~Submitting
    BY <1>1, <1>8 DEF Started, Submitting
  <2> QED
    BY <1>1, <1>2, <1>3, <1>6, <1>8, <2>1, <2>2, GoesOn
<1>9. CASE Goes("before")
  <2>1. "before" \in Places /\ 0 \in Nat
    BY DEF Places
  <2>2. LET q == [inj EXCEPT !.at = "before", !.n = 0] IN q \in InjectionType
    BY <1>3, <2>1, MoveIs
  <2>3. /\ inj'.at = "before" /\ inj'.msg = inj.msg /\ inj'.for = "msg"
        /\ inj'.typed = inj.typed /\ inj'.residue = inj.residue
    BY <1>3, <1>9 DEF Goes, InjectionType
  <2> QED
    BY <1>7, <1>9, <2>2, <2>3 DEF Goes
<1>10. CASE inj' = [inj EXCEPT !.at = "before", !.n = 0, !.sure = FALSE]
  <2>1. LET q == [inj EXCEPT !.at = "before", !.n = 0, !.sure = FALSE] IN q \in InjectionType
    BY <1>3, UnsureIs
  <2>2. /\ inj'.at = "before" /\ inj'.msg = inj.msg /\ inj'.for = "msg"
        /\ inj'.typed = inj.typed /\ inj'.residue = inj.residue
    BY <1>3, <1>10 DEF InjectionType
  <2> QED
    BY <1>7, <1>10, <2>1, <2>2
<1>11. CASE inj' = [inj EXCEPT !.at = "clear", !.n = 0, !.for = "retype", !.again = inj.again + 1]
  <2>1. inj.again + 1 \in Nat
    <3>1. inj.again \in Nat
      BY <1>3 DEF InjectionType
    <3> QED
      BY <3>1
  <2>2. LET q == [inj EXCEPT !.at = "clear", !.n = 0, !.for = "retype", !.again = inj.again + 1] IN
        q \in InjectionType
    BY <1>3, <2>1, RetypeIs
  <2>3. inj'.at = "clear" /\ inj'.msg = inj.msg /\ inj'.for = "retype" /\ inj'.typed = inj.typed
    BY <1>3, <1>11 DEF InjectionType
  <2> QED
    BY <1>8, <1>11, <2>2, <2>3
<1>12. CASE Clearing("throw", {})
  <2>1. LET q == [inj EXCEPT !.at = "clear", !.n = 0, !.for = "throw", !.residue = {}] IN
        q \in InjectionType
    <3>1. "throw" \in Purposes /\ {} \in SUBSET Piece
      BY DEF Purposes
    <3> QED
      BY <1>3, <3>1, ClearIs
  <2>2. inj'.at = "clear" /\ inj'.msg = inj.msg /\ inj'.for = "throw" /\ inj'.typed = inj.typed
    BY <1>3, <1>12 DEF Clearing, InjectionType
  <2> QED
    BY <1>8, <1>12, <2>1, <2>2 DEF Clearing
<1> QED
  BY <1>1, <1>9, <1>10, <1>11, <1>12

(* Before and after Enter: what holds of the message and of the box.       *)
LEMMA AtEnter ==
    ASSUME PaneInv, inj.at \in {"before", "after"}, keys = <<>>
    PROVE  /\ inj \in InjectionType /\ inj.msg \in Msgs /\ inj.msg # Nobody /\ inj.for \in {"own", "msg"}
           /\ verdict[inj.msg] \notin {"submitted", "unconfirmed"}
           /\ inj.residue \subseteq told \cup unsaid /\ (inj.for = "own" => inj.typed = 0)
           /\ ~Tainted /\ inj.for = "own" /\ box # <<>> => Whole(box)
           /\ inj.for = "msg" =>
                /\ \A k \in ToSet(box) : k[1] = inj.msg \/ k[1] \in unseen
                /\ <<inj.msg, 1>> \in ToSet(box) \cup Prompted \cup fell
                /\ ~Tainted => box \in {<<>>, Pieces(inj.msg)} \/ Fell(inj.msg)
<1>1. /\ inj \in InjectionType /\ inj.msg \in Msgs /\ inj.msg # Nobody /\ inj.for \in {"own", "msg"}
      /\ verdict[inj.msg] \notin {"submitted", "unconfirmed"}
      /\ inj.residue \subseteq told \cup unsaid /\ (inj.for = "own" => inj.typed = 0)
  BY DEF PaneInv, Typed, Flow, Alone, Busy, Steps, InjectionType
<1>2. Ahead = box /\ ToSet(keys) = {}
  BY JoinIs, EmptyIs DEF Ahead, PaneInv, Typed
<1>3. ~Tainted /\ inj.for = "own" /\ box # <<>> => Whole(box)
  BY DEF PaneInv, Clear, Known, Owned
<1>4. ASSUME inj.for = "msg"
      PROVE  /\ \A k \in ToSet(box) : k[1] = inj.msg \/ k[1] \in unseen
             /\ <<inj.msg, 1>> \in ToSet(box) \cup Prompted \cup fell
  BY <1>2, <1>4 DEF PaneInv, Clear, Mine, Somewhere
<1>5. ~Tainted /\ inj.for = "msg" => box \in {<<>>, Pieces(inj.msg)} \/ Fell(inj.msg)
  BY <1>2 DEF PaneInv, Clear, Known, Typeset, Entered
<1> QED
  BY <1>1, <1>3, <1>4, <1>5

LEMMA ResultKeeps ==
    ASSUME PaneInv, inj.at \in {"before", "after"}, keys = <<>>, NEW s \in BOOLEAN, Result(s),
           UNCHANGED <<herdr, view, box, keys, prompts, young, told, fell, drafted, unsaid>>,
           unseen \subseteq unseen', unseen' \subseteq AllTexts,
           inj.for = "own" /\ s => \A k \in ToSet(box) : k[1] \in unseen'
    PROVE  PaneInv'
<1>1. /\ inj \in InjectionType /\ inj.msg \in Msgs /\ inj.msg # Nobody
      /\ verdict[inj.msg] \notin {"submitted", "unconfirmed"}
      /\ inj.residue \subseteq told \cup unsaid /\ (inj.for = "own" => inj.typed = 0)
  BY AtEnter
<1>2. /\ own \in Msgs \cup {Nobody} /\ tries \in [Msgs -> Nat] /\ told' \subseteq Piece
      /\ unsaid' \subseteq Piece /\ told \subseteq told' /\ unsaid \subseteq unsaid'
      /\ inj.residue \subseteq told' \cup unsaid'
  BY <1>1, TypesOfHub
<1>3. CASE inj.for = "own" /\ s /\ own' = Nobody /\ inj' = [inj EXCEPT !.at = "type", !.n = 0]
           /\ UNCHANGED <<verdict, tries, doubtful>>
  <2>1. "type" \in Places /\ 0 \in Nat
    BY DEF Places
  <2>2. LET q == [inj EXCEPT !.at = "type", !.n = 0] IN q \in InjectionType
    BY <1>1, <2>1, MoveIs
  <2>3. /\ inj' \in InjectionType /\ inj'.at = "type" /\ inj'.msg = inj.msg
        /\ inj'.typed = inj.typed /\ inj'.residue = inj.residue
    BY <1>1, <1>3, <2>2 DEF InjectionType
  <2>4. Started' /\ ~Submitting
    BY <1>3, <2>3 DEF Started, Submitting
  <2> QED
    BY <1>1, <1>2, <1>3, <2>3, <2>4, GoesOn
<1>4. ASSUME NEW v \in {"rejected", "submitted", "unconfirmed"}, Ends(v), tries' = tries,
             own' \in {own, Nobody}, IF v = "rejected" THEN inj.for = "own" ELSE inj.for = "msg"
      PROVE  PaneInv'
  <2>1. v \in Outcomes /\ own' \in Msgs \cup {Nobody} /\ tries' \in [Msgs -> Nat]
    BY <1>2, <1>4 DEF Outcomes
  <2>2. v \in {"submitted", "unconfirmed"} =>
          keys = <<>> /\ inj.at \in {"before", "after"} /\ inj.for = "msg"
    BY <1>4
  <2>3. v \in Undelivered => ~Started
    BY <1>4 DEF Undelivered, Started, Submitting
  <2> QED
    BY <1>2, <1>4, <2>1, <2>2, <2>3, EndStep
<1>5. CASE inj.for = "own" /\ ~s /\ Ends("rejected") /\ UNCHANGED <<own, tries>>
  BY <1>4, <1>5
<1>6. CASE inj.for = "msg" /\ s /\ inj.sure /\ Ends("submitted") /\ own' = Nobody /\ UNCHANGED tries
  BY <1>4, <1>6
<1>7. CASE inj.for = "msg" /\ ~(s /\ inj.sure) /\ Ends("unconfirmed") /\ UNCHANGED <<own, tries>>
  BY <1>4, <1>7
<1> QED
  BY <1>3, <1>5, <1>6, <1>7 DEF Result

LEMMA LooksBeforeKeeps ==
    ASSUME PaneInv, NEW f \in Frames, LooksBefore(f), UNCHANGED herdr
    PROVE  PaneInv'
<1>1. /\ inj.at = "before" /\ Looks(f)
      /\ \/ f = "dialog" /\ Result(FALSE)
         \/ f # "dialog" /\ inj' = [inj EXCEPT !.at = "enter", !.before = f] /\ UNCHANGED memory
      /\ UNCHANGED <<view, box, keys, prompts, young, told, fell, drafted, unsaid, unseen>>
  BY DEF LooksBefore, claude, history
<1>2. keys = <<>>
  BY <1>1, Seen
<1>3. CASE f = "dialog" /\ Result(FALSE)
  <2>1. unseen' \subseteq AllTexts
    BY <1>1, TypesOfHub
  <2> QED
    BY <1>1, <1>2, <1>3, <2>1, ResultKeeps
<1>4. CASE f # "dialog" /\ inj' = [inj EXCEPT !.at = "enter", !.before = f] /\ UNCHANGED memory
  <2>1. UNCHANGED <<own, verdict, tries, doubtful>>
    BY <1>4 DEF memory
  <2>2. /\ inj \in InjectionType /\ inj.msg \in Msgs /\ inj.msg # Nobody /\ inj.for \in {"own", "msg"}
        /\ verdict[inj.msg] \notin {"submitted", "unconfirmed"}
        /\ inj.residue \subseteq told \cup unsaid /\ (inj.for = "own" => inj.typed = 0)
        /\ ~Tainted /\ inj.for = "own" /\ box # <<>> => Whole(box)
        /\ inj.for = "msg" =>
             /\ \A k \in ToSet(box) : k[1] = inj.msg \/ k[1] \in unseen
             /\ <<inj.msg, 1>> \in ToSet(box) \cup Prompted \cup fell
             /\ ~Tainted => box \in {<<>>, Pieces(inj.msg)} \/ Fell(inj.msg)
    BY <1>1, <1>2, AtEnter
  <2>3. LET q == [inj EXCEPT !.at = "enter", !.before = f] IN q \in InjectionType
    BY <2>2, LookedIs
  <2>4. /\ inj' \in InjectionType /\ inj'.at = "enter" /\ inj'.msg = inj.msg /\ inj'.for = inj.for
        /\ inj'.typed = inj.typed /\ inj'.residue = inj.residue
    BY <1>4, <2>2, <2>3 DEF InjectionType
  <2>5. own \in Msgs \cup {Nobody} /\ unseen \subseteq AllTexts
    BY TypesOfHub
  <2>6. (~Tainted' => ~Tainted) /\ (Started => Started') /\ (Submitting => Submitting')
    BY <1>1, <2>4 DEF Tainted, Started, Submitting
  <2> QED
    BY <1>1, <1>2, <1>4, <2>1, <2>2, <2>4, <2>5, <2>6, GoesOn
<1> QED
  BY <1>1, <1>3, <1>4

LEMMA LooksAfterKeeps ==
    ASSUME PaneInv, NEW f \in Frames, LooksAfter(f), UNCHANGED herdr
    PROVE  PaneInv'
<1>1. /\ inj.at = "after" /\ Looks(f)
      /\ \/ f \in {"submitted", "dialog"} /\ Result(TRUE)
         \/ Result(FALSE)
         \/ inj' = [inj EXCEPT !.at = "before", !.n = inj.n + 1] /\ UNCHANGED memory
      /\ IF f = "dialog" /\ inj.for = "own" THEN unseen' = unseen \cup Texts(box) ELSE UNCHANGED unseen
      /\ UNCHANGED <<view, box, keys, prompts, young, told, fell, drafted, unsaid>>
  BY DEF LooksAfter, claude, Overlooks
<1>2. keys = <<>> /\ (f = "submitted" => box = <<>>)
  BY <1>1, Seen
<1>3. /\ inj \in InjectionType /\ inj.msg \in Msgs /\ inj.msg # Nobody /\ inj.for \in {"own", "msg"}
      /\ verdict[inj.msg] \notin {"submitted", "unconfirmed"}
      /\ inj.residue \subseteq told \cup unsaid /\ (inj.for = "own" => inj.typed = 0)
      /\ ~Tainted /\ inj.for = "own" /\ box # <<>> => Whole(box)
      /\ inj.for = "msg" =>
           /\ \A k \in ToSet(box) : k[1] = inj.msg \/ k[1] \in unseen
           /\ <<inj.msg, 1>> \in ToSet(box) \cup Prompted \cup fell
           /\ ~Tainted => box \in {<<>>, Pieces(inj.msg)} \/ Fell(inj.msg)
  BY <1>1, <1>2, AtEnter
<1>4. own \in Msgs \cup {Nobody} /\ unseen \subseteq unseen' /\ unseen' \subseteq AllTexts
  BY <1>1, TypesOfHub, TextsIs
<1>5. CASE f \in {"submitted", "dialog"} /\ Result(TRUE)
  <2>1. inj.for = "own" => \A k \in ToSet(box) : k[1] \in unseen'
    <3>1. CASE f = "submitted"
      BY <1>2, <3>1, EmptyIs
    <3>2. CASE f = "dialog"
      BY <1>1, <3>2, TextsIs
    <3> QED
      BY <1>5, <3>1, <3>2
  <2> QED
    BY <1>1, <1>2, <1>4, <1>5, <2>1, ResultKeeps
<1>6. CASE Result(FALSE)
  BY <1>1, <1>2, <1>4, <1>6, ResultKeeps
<1>7. CASE inj' = [inj EXCEPT !.at = "before", !.n = inj.n + 1] /\ UNCHANGED memory
  <2>1. UNCHANGED <<own, verdict, tries, doubtful>>
    BY <1>7 DEF memory
  <2>2. inj.n + 1 \in Nat /\ "before" \in Places
    <3>1. inj.n \in Nat
      BY <1>3 DEF InjectionType
    <3> QED
      BY <3>1 DEF Places
  <2>3. LET q == [inj EXCEPT !.at = "before", !.n = inj.n + 1] IN q \in InjectionType
    BY <1>3, <2>2, MoveIs
  <2>4. /\ inj' \in InjectionType /\ inj'.at = "before" /\ inj'.msg = inj.msg /\ inj'.for = inj.for
        /\ inj'.typed = inj.typed /\ inj'.residue = inj.residue
    BY <1>3, <1>7, <2>3 DEF InjectionType
  <2>5. (~Tainted' => ~Tainted) /\ (Started => Started') /\ (Submitting => Submitting')
    BY <1>1, <1>4, <2>4 DEF Tainted, Started, Submitting
  <2> QED
    BY <1>1, <1>2, <1>3, <1>4, <2>1, <2>4, <2>5, GoesOn
<1> QED
  BY <1>1, <1>5, <1>6, <1>7

(* A key cannot be pressed.                                                *)
LEMMA FailsKeeps ==
    ASSUME PaneInv, Fails, UNCHANGED herdr
    PROVE  PaneInv'
<1>1. /\ inj.at \in {"type", "enter"}
      /\ \/ inj.at = "type" /\ Clearing("unpaste", {}) /\ UNCHANGED memory
         \/ /\ Ends("uncertain") /\ UNCHANGED tries
            /\ own' = IF inj.at = "type" \/ inj.for = "msg" THEN Nobody ELSE own
      /\ UNCHANGED <<view, box, keys, prompts, young, told, fell, drafted, unsaid, unseen>>
  BY DEF Fails, claude, history
<1>2. /\ inj \in InjectionType /\ inj.msg \in Msgs /\ inj.msg # Nobody
      /\ verdict[inj.msg] \notin {"submitted", "unconfirmed"}
      /\ inj.residue \subseteq told \cup unsaid
  BY <1>1 DEF PaneInv, Typed, Flow, Alone, Busy, InjectionType
<1>3. /\ keys' \in Seq(Key)
      /\ own \in Msgs \cup {Nobody} /\ tries \in [Msgs -> Nat] /\ told' \subseteq Piece
      /\ unsaid' \subseteq Piece /\ unseen' \subseteq AllTexts /\ inj.residue \subseteq told' \cup unsaid'
      /\ told \subseteq told' /\ unsaid \subseteq unsaid'
  BY <1>1, <1>2 DEF PaneInv, Typed
<1>4. CASE inj.at = "type" /\ Clearing("unpaste", {}) /\ UNCHANGED memory
  <2>1. UNCHANGED <<own, verdict, tries, doubtful>>
    BY <1>4 DEF memory
  <2>2. LET q == [inj EXCEPT !.at = "clear", !.n = 0, !.for = "unpaste", !.residue = {}] IN
        q \in InjectionType
    <3>1. "unpaste" \in Purposes /\ {} \in SUBSET Piece
      BY DEF Purposes
    <3> QED
      BY <1>2, <3>1, ClearIs
  <2>3. inj'.at = "clear" /\ inj'.msg = inj.msg /\ inj'.for = "unpaste" /\ inj'.residue = {}
    BY <1>2, <1>4 DEF Clearing, InjectionType
  <2>4. inj' \in InjectionType
    BY <1>4, <2>2 DEF Clearing
  <2>5. Alone' /\ Steps'
    BY <1>1, <1>2, <2>1, <2>3 DEF Alone, Busy, Steps
  <2>6. OfMsg(keys, inj.msg)
    BY <1>4 DEF PaneInv, Flow, Pressed
  <2>7. Pressed'
    BY <1>1, <1>2, <2>3, <2>6 DEF Pressed
  <2>8. /\ Tainted => Tainted'
        /\ \A m : Fell(m)' = Fell(m)
        /\ \A s : Whole(s)' = Whole(s)
        /\ Prompted' = Prompted
    BY <1>1, BoxKept DEF PaneInv, Clear
  <2>9. ASSUME ~Tainted'
        PROVE  Known'
    <3>1. Known
      BY <2>8, <2>9 DEF PaneInv, Clear
    <3>2. Typing' /\ Typeset' /\ Entered' /\ Owned'
      BY <2>3 DEF Typing, Typeset, Entered, Owned
    <3>3. EnterWhole' /\ ChordAlone'
      BY <1>1, <2>3, <2>8, <3>1 DEF Known, EnterWhole, ChordAlone
    <3>4. Underway'
      BY <1>1, <2>8, <3>1 DEF Known, Underway, Ahead
    <3> QED
      BY <3>2, <3>3, <3>4 DEF Known
  <2>10. Mine' /\ Somewhere'
    BY <2>3 DEF Mine, Somewhere
  <2>11. Killing'
    <3>1. \A b \in ToSet(box) : b[1] = inj.msg \/ b[1] \in unseen
      BY <1>4 DEF PaneInv, Clear, Mine
    <3>2. \A b \in ToSet(keys) : b[1] = inj.msg
      BY <2>6, ElementsOf DEF PaneInv, Typed
    <3>3. \A b \in ToSet(box) \cup ToSet(keys) : Covered(b)'
      BY <1>1, <1>2, <2>1, <3>1, <3>2 DEF Covered
    <3> QED
      BY <1>1, <3>3 DEF Killing
  <2>12. Fresh'
    <3>1. Started' /\ ~Submitting
      BY <1>4, <2>3 DEF Started, Submitting
    <3> QED
      BY <1>1, <2>1, <2>3, <2>8, <3>1 DEF PaneInv, Clear, Fresh
  <2> QED
    BY <1>1, <1>3, <2>1, <2>4, <2>5, <2>7, <2>9, <2>10, <2>11, <2>12, HubStep
<1>5. CASE /\ Ends("uncertain") /\ UNCHANGED tries
           /\ own' = IF inj.at = "type" \/ inj.for = "msg" THEN Nobody ELSE own
  <2>1. "uncertain" \in Outcomes /\ "uncertain" \notin {"submitted", "unconfirmed"} \cup Undelivered
    BY DEF Outcomes, Undelivered
  <2>2. own' \in Msgs \cup {Nobody} /\ tries' \in [Msgs -> Nat]
    BY <1>3, <1>5
  <2> QED
    BY <1>1, <1>3, <1>5, <2>1, <2>2, EndStep
<1> QED
  BY <1>1, <1>4, <1>5

-----------------------------------------------------------------------------
(* Claude and the user.                                                    *)

(* Dialogs come and go, and Claude writes: nothing of this is in the       *)
(* invariant.                                                              *)
LEMMA ScreenStep ==
    ASSUME PaneInv, view' \in {"composer", "choice", "approval"},
           young' \in BOOLEAN, young' => young,
           UNCHANGED <<herdr, box, keys, prompts, inj, own, verdict, doubtful, tries, told, fell,
                       drafted, unsaid, unseen>>
    PROVE  PaneInv'
<1>1. Typed'
  <2>1. young' => prompts' # <<>>
    BY DEF PaneInv, Typed
  <2> QED
    BY <2>1 DEF PaneInv, Typed
<1>2. Flow'
  BY DEF PaneInv, Flow, Alone, Busy, Steps, Pressed
<1>3. /\ Tainted => Tainted'
      /\ \A m : Fell(m)' = Fell(m)
      /\ \A s : Whole(s)' = Whole(s)
      /\ Prompted' = Prompted /\ FirstHalf' /\ AllWhole'
  BY BoxKept DEF PaneInv, Clear
<1>4. ASSUME ~Tainted'
      PROVE  Known'
  <2>1. Known /\ Ahead' = Ahead
    BY <1>3, <1>4 DEF PaneInv, Clear, Ahead
  <2>2. Typing' /\ Typeset' /\ Entered' /\ Owned'
    BY <1>3, <2>1 DEF Known, Typing, Typeset, Entered, Owned
  <2>3. EnterWhole' /\ ChordAlone' /\ Underway'
    BY <1>3, <2>1 DEF Known, EnterWhole, ChordAlone, Underway
  <2> QED
    BY <2>2, <2>3 DEF Known
<1>5. Mine' /\ Killing' /\ Somewhere'
  BY <1>3 DEF PaneInv, Clear, Mine, Killing, Somewhere, Covered
<1>6. AllAccounted'
  <2>1. Accounted' = Accounted
    BY DEF Accounted
  <2> QED
    BY <2>1 DEF PaneInv, Clear, AllAccounted, Sent
<1>7. Fresh'
  BY <1>3 DEF PaneInv, Clear, Fresh, Started, Submitting
<1> QED
  BY <1>1, <1>2, <1>3, <1>4, <1>5, <1>6, <1>7 DEF PaneInv, Clear

LEMMA OpensKeeps ==
    ASSUME PaneInv, NEW v \in {"choice", "approval"}, Opens(v), UNCHANGED herdr
    PROVE  PaneInv'
<1>1. /\ view' = v
      /\ UNCHANGED <<box, keys, prompts, young, inj, own, verdict, doubtful, tries, told, fell, drafted,
                     unsaid, unseen>>
  BY DEF Opens, memory, history
<1>2. young' \in BOOLEAN
  BY <1>1 DEF PaneInv, Typed
<1> QED
  BY <1>1, <1>2, ScreenStep

LEMMA ClosesKeeps ==
    ASSUME PaneInv, Closes, UNCHANGED herdr
    PROVE  PaneInv'
<1>1. /\ view' = "composer"
      /\ UNCHANGED <<box, keys, prompts, young, inj, own, verdict, doubtful, tries, told, fell, drafted,
                     unsaid, unseen>>
  BY DEF Closes, memory, history
<1>2. young' \in BOOLEAN
  BY <1>1 DEF PaneInv, Typed
<1> QED
  BY <1>1, <1>2, ScreenStep

LEMMA OutputsKeeps ==
    ASSUME PaneInv, Outputs, UNCHANGED herdr
    PROVE  PaneInv'
<1>1. /\ young' = FALSE
      /\ UNCHANGED <<view, box, keys, prompts, inj, own, verdict, doubtful, tries, told, fell, drafted,
                     unsaid, unseen>>
  BY DEF Outputs, memory, history
<1>2. view' \in {"composer", "choice", "approval"}
  BY <1>1 DEF PaneInv, Typed
<1> QED
  BY <1>1, <1>2, ScreenStep

(* Something is put into the box.  Late, it is unseen.                     *)
LEMMA BoxStep ==
    ASSUME PaneInv, box' \in Seq(Piece),
           UNCHANGED <<herdr, view, keys, prompts, inj, own, verdict, doubtful, tries, told, fell, unsaid>>,
           young' \in BOOLEAN, young' => young, drafted \subseteq drafted', drafted' \subseteq Drafts,
           unseen \subseteq unseen', unseen' \subseteq AllTexts,
           ToSet(box) \subseteq ToSet(box'), Late => Tainted',
           \A k \in ToSet(box') : k \in ToSet(box) \/ (Late => k[1] \in unseen'),
           \A k \in ToSet(box') : k \in ToSet(box) \cup Prompted \/ k[1] \notin Msgs,
           \A x \in drafted' : x \in drafted \/ \E k \in ToSet(box') : k[1] = x,
           box' # <<>> /\ box'[1][2] = 2 => Fell(box'[1][1])
    PROVE  PaneInv'
<1>1. Typed'
  <2>1. young' => prompts' # <<>>
    BY DEF PaneInv, Typed
  <2> QED
    BY <2>1 DEF PaneInv, Typed
<1>2. Flow'
  BY DEF PaneInv, Flow, Alone, Busy, Steps, Pressed
<1>3. \A k \in {Enter, Kill, Esc, Chord} : <<k>> # <<>>
  BY Specials
<1>4. /\ \A m : Fell(m)' = Fell(m)
      /\ Prompted' = Prompted
  BY DEF Fell, Prompted
<1>5. ASSUME ~Tainted'
      PROVE  Known'
  <2>1. keys' = <<>> /\ inj'.at \in {"idle", "read", "esc", "escaped", "now"}
    BY <1>5 DEF Late
  <2>2. Typing' /\ Typeset' /\ Entered' /\ Owned'
    BY <2>1 DEF Typing, Typeset, Entered, Owned
  <2>3. EnterWhole' /\ ChordAlone' /\ Underway'
    BY <1>3, <2>1 DEF EnterWhole, ChordAlone, Underway
  <2> QED
    BY <2>2, <2>3 DEF Known
<1>6. FirstHalf'
  BY <1>4 DEF PaneInv, Clear, FirstHalf
<1>7. Mine'
  BY DEF PaneInv, Clear, Mine, Late
<1>8. Killing'
  <2>1. \A k : Covered(k) => Covered(k)'
    BY <1>4 DEF Covered
  <2>2. inj.at = "clear" \/ keys = <<Kill>> => Late
    BY <1>3 DEF Late
  <2>3. \A k : k[1] \in unseen' => Covered(k)'
    BY DEF Covered
  <2> QED
    BY <2>1, <2>2, <2>3 DEF PaneInv, Clear, Killing
<1>9. Somewhere'
  BY <1>4 DEF PaneInv, Clear, Somewhere
<1>10. AllWhole'
  BY <1>4 DEF PaneInv, Clear, AllWhole, Whole
<1>11. AllAccounted'
  <2>1. Accounted \subseteq Accounted' /\ ToSet(box') \subseteq Accounted'
    BY AccountedIs DEF Accounted
  <2>2. Sent' = Sent
    BY DEF Sent
  <2> QED
    BY <2>1, <2>2 DEF PaneInv, Clear, AllAccounted
<1>12. Fresh'
  BY <1>4 DEF PaneInv, Clear, Fresh, Started, Submitting
<1> QED
  BY <1>1, <1>2, <1>5, <1>6, <1>7, <1>8, <1>9, <1>10, <1>11, <1>12 DEF PaneInv, Clear

LEMMA RestoresKeeps ==
    ASSUME PaneInv, Restores, UNCHANGED herdr
    PROVE  PaneInv'
<1>1. /\ young /\ box = <<>> /\ box' = Last(prompts) /\ young' = FALSE
      /\ unseen' = IF Late THEN unseen \cup Texts(Last(prompts)) ELSE unseen
      /\ UNCHANGED <<view, keys, prompts, inj, own, verdict, doubtful, tries, told, fell, drafted, unsaid>>
  BY DEF Restores, memory
<1>2. prompts \in Seq(Seq(Piece) \ {<<>>}) /\ prompts # <<>> /\ drafted \subseteq Drafts
  BY <1>1 DEF PaneInv, Typed
<1>3. box' \in Seq(Piece) \ {<<>>} /\ box' \in ToSet(prompts)
  BY <1>1, <1>2, FrontIs
<1>4. ToSet(box) = {} /\ ToSet(box') \subseteq Piece /\ ToSet(box') \subseteq Prompted /\ Head(box') \in ToSet(box')
  BY <1>1, <1>3, EmptyIs, ElementsOf, TailIs DEF Prompted
<1>5. box'[1][2] = 2 => Fell(box'[1][1])
  BY <1>3 DEF PaneInv, Clear, FirstHalf
<1>6. Texts(Last(prompts)) = {k[1] : k \in ToSet(box')}
  BY <1>1 DEF Texts
<1>7. unseen \subseteq unseen' /\ unseen' \subseteq AllTexts
  BY <1>1, <1>4, <1>6, TypesOfHub DEF Piece
<1>8. /\ Late => \A k \in ToSet(box') : k[1] \in unseen'
      /\ Late => Tainted'
  BY <1>1, <1>4, <1>6 DEF Tainted
<1> QED
  BY <1>1, <1>2, <1>3, <1>4, <1>5, <1>7, <1>8, BoxStep

LEMMA TypesDraftKeeps ==
    ASSUME PaneInv, NEW d \in Drafts, TypesDraft(d), UNCHANGED herdr
    PROVE  PaneInv'
<1>1. /\ box' = Append(box, <<d, 1>>) /\ drafted' = drafted \cup {d}
      /\ unseen' = IF Late THEN unseen \cup {d} ELSE unseen
      /\ UNCHANGED <<view, keys, prompts, young, inj, own, verdict, doubtful, tries, told, fell, unsaid>>
  BY DEF TypesDraft, memory
<1>2. <<d, 1>> \in Piece /\ <<d, 1>>[1] = d /\ <<d, 1>>[2] = 1 /\ box \in Seq(Piece)
      /\ drafted \subseteq Drafts /\ young \in BOOLEAN /\ d \notin Msgs
  BY DraftsAreOther DEF Piece, AllTexts, PaneInv, Typed
<1>3. /\ box' \in Seq(Piece) /\ ToSet(box') = ToSet(box) \cup {<<d, 1>>} /\ box' # <<>>
      /\ (box # <<>> => box'[1] = box[1]) /\ (box = <<>> => box'[1] = <<d, 1>>)
  BY <1>1, <1>2, AppendIs
<1>4. \A x \in drafted' : x \in drafted \/ \E k \in ToSet(box') : k[1] = x
  BY <1>1, <1>2, <1>3
<1>5. box'[1][2] = 2 => Fell(box'[1][1])
  BY <1>2, <1>3 DEF PaneInv, Clear, FirstHalf
<1>6. unseen \subseteq unseen' /\ unseen' \subseteq AllTexts
  BY <1>1, TypesOfHub DEF AllTexts
<1>7. /\ \A k \in ToSet(box') : k \in ToSet(box) \/ (Late => k[1] \in unseen')
      /\ \A k \in ToSet(box') : k \in ToSet(box) \cup Prompted \/ k[1] \notin Msgs
      /\ Late => Tainted'
  BY <1>1, <1>2, <1>3 DEF Tainted
<1> QED
  BY <1>1, <1>2, <1>3, <1>4, <1>5, <1>6, <1>7, BoxStep

(* Claude takes a piece of text: a dialog swallows it, or it arrives.      *)
LEMMA TextTaken ==
    ASSUME PaneInv, keys # <<>>, NEW m \in Msgs, Head(keys)[1] = m, keys' = Tail(keys),
           UNCHANGED <<herdr, view, prompts, young, inj, own, verdict, doubtful, tries, told, drafted,
                       unsaid, unseen>>,
           \/ fell' = fell \cup {Head(keys)} /\ box' = box
           \/ fell' = fell /\ box' = Append(box, Head(keys))
    PROVE  PaneInv'
<1> DEFINE k == Head(keys)
           t == Tail(keys)
<1>1. /\ k \in Key /\ k \in Piece /\ t \in Seq(Key) /\ k = <<m, k[2]>> /\ k[2] \in {1, 2}
      /\ ToSet(keys) = {k} \cup ToSet(t) /\ OfMsg(keys, m) /\ OfMsg(t, m) /\ m \in Msgs
      /\ keys \notin {<<Enter>>, <<Kill>>, <<Esc>>, <<Chord>>}
      /\ t \notin {<<Enter>>, <<Kill>>, <<Esc>>, <<Chord>>}
      /\ \A o \in Msgs : OfMsg(keys, o) => o = m
      /\ \A o \in Msgs : t # <<>> /\ OfMsg(t, o) => o = m
  BY Heads DEF PaneInv, Flow
<1>2. box \in Seq(Piece) /\ keys \in Seq(Key) /\ inj \in InjectionType
  BY DEF PaneInv, Typed
<1>3. Append(box, k) \in Seq(Piece) /\ ToSet(Append(box, k)) = ToSet(box) \cup {k}
      /\ Append(box, k) # <<>> /\ (box # <<>> => Append(box, k)[1] = box[1])
      /\ (box = <<>> => Append(box, k)[1] = k)
  <2> HIDE DEF k
  <2> QED
    BY <1>1, <1>2, AppendIs
<1>4. Append(box, k) \o t = box \o keys
  BY Contents, JoinIs DEF PaneInv
<1>5. keys[1] = k
  OBVIOUS
<1> HIDE DEF k, t
<1>6. /\ keys' = t
      /\ \/ fell' = fell \cup {k} /\ box' = box
         \/ fell' = fell /\ box' = Append(box, k)
  BY DEF k, t
<1>7. Typed'
  <2>1. box' \in Seq(Piece) /\ keys' \in Seq(Key) /\ fell' \subseteq Piece
    BY <1>1, <1>2, <1>3, <1>6 DEF PaneInv, Typed
  <2> QED
    BY <2>1 DEF PaneInv, Typed
<1>8. /\ inj.at \notin {"esc", "enter", "chord", "after"}
      /\ inj.at \in {"type", "check", "before", "clear"} => inj.msg = m
      /\ inj.at = "type" => inj.typed # 0
      /\ inj.at = "before" => inj.for # "own"
  <2>1. inj.at \in {"type", "check", "before", "clear"} => inj.msg \in Msgs
    BY <1>2 DEF PaneInv, Flow, Alone, Busy, InjectionType
  <2> QED
    BY <1>1, <2>1 DEF PaneInv, Flow, Pressed
<1>9. Flow'
  <2>1. Alone' /\ Steps'
    BY DEF PaneInv, Flow, Alone, Busy, Steps
  <2>2. Pressed'
    BY <1>1, <1>6, <1>8 DEF Pressed
  <2> QED
    BY <2>1, <2>2 DEF Flow
<1>10. /\ ToSet(box) \cup ToSet(keys) \subseteq ToSet(box') \cup ToSet(keys') \cup fell'
       /\ ToSet(box') \cup ToSet(keys') \subseteq ToSet(box) \cup ToSet(keys) /\ fell \subseteq fell'
       /\ ToSet(box) \subseteq ToSet(box') /\ ToSet(box') \subseteq ToSet(box) \cup {k} /\ k[1] = m
  <2>1. k[1] = m
    BY DEF k
  <2> QED
    BY <1>1, <1>3, <1>6, <2>1
<1>11. (\A o : Fell(o) => Fell(o)') /\ Prompted' = Prompted
  BY <1>6 DEF Fell, Prompted
<1>12. ASSUME ~Tainted
       PROVE  OfMsg(box, m) /\ (IsPrefix(Ahead, Pieces(m)) \/ Fell(m))
  BY <1>1, <1>12 DEF PaneInv, Clear, Known, Underway
<1>13. ASSUME ~Tainted'
       PROVE  Known'
  <2>1. ~Tainted /\ Known
    BY <1>10, <1>13 DEF Tainted, PaneInv, Clear
  <2>2. OfMsg(box, m) /\ (IsPrefix(Ahead, Pieces(m)) \/ Fell(m))
    BY <1>12, <2>1
  <2>4. Fell(m)' \/ Ahead' = Ahead
    <3>1. CASE fell' = fell \cup {k}
      <4>1. <<m, k[2]>> \in fell'
        BY <1>1, <3>1
      <4> QED
        BY <1>1, <4>1 DEF Fell
    <3>2. CASE box' = Append(box, k)
      BY <1>4, <1>6, <3>2 DEF Ahead
    <3> QED
      BY <1>6, <3>1, <3>2
  <2>5. OfMsg(box', m)
    <3>1. \A x \in ToSet(box) \cup {k} : x[1] = m
      BY <1>2, <1>10, <2>2, ElementsOf
    <3>2. box' \in Seq(Piece)
      BY <1>2, <1>3, <1>6
    <3> QED
      BY <1>10, <3>1, <3>2, ElementsOf
  <2>8. Typing'
    <3>1. SUFFICES ASSUME inj.at = "type"
                   PROVE  /\ OfMsg(box', m) /\ OfMsg(t, m) /\ inj.msg = m
                          /\ Ahead' = SubSeq(Pieces(m), 1, inj.typed) \/ Fell(m)'
      BY <1>6 DEF Typing
    <3>2. Ahead = SubSeq(Pieces(m), 1, inj.typed) \/ Fell(m)
      BY <1>8, <2>1, <3>1 DEF Known, Typing
    <3> QED
      BY <1>1, <1>8, <1>11, <2>4, <2>5, <3>1, <3>2
  <2>10. Typeset'
    <3>1. SUFFICES ASSUME inj.at \in {"check", "before", "enter"}, inj.for = "msg"
                   PROVE  /\ OfMsg(box', m) /\ OfMsg(t, m) /\ inj.msg = m
                          /\ Ahead' \in {<<>>, Pieces(m)} \/ Fell(m)'
      BY <1>6 DEF Typeset
    <3>2. Ahead \in {<<>>, Pieces(m)} \/ Fell(m)
      BY <1>8, <2>1, <3>1 DEF Known, Typeset
    <3> QED
      BY <1>1, <1>8, <1>11, <2>4, <2>5, <3>1, <3>2
  <2>11. Entered' /\ Owned'
    BY <1>8 DEF Entered, Owned
  <2>12. EnterWhole' /\ ChordAlone'
    BY <1>1, <1>6, <1>8 DEF EnterWhole, ChordAlone
  <2>13. Underway'
    <3>1. IsPrefix(Ahead', Pieces(m)) \/ Fell(m)'
      BY <1>11, <2>2, <2>4
    <3> QED
      BY <1>1, <1>6, <2>5, <3>1 DEF Underway
  <2> QED
    BY <2>8, <2>10, <2>11, <2>12, <2>13 DEF Known
<1>14. FirstHalf'
  <2>1. SUFFICES ASSUME box' # <<>>, box'[1][2] = 2
                 PROVE  Fell(box'[1][1])
    BY <1>11 DEF PaneInv, Clear, FirstHalf
  <2>2. CASE box # <<>> /\ box'[1] = box[1]
    BY <2>1, <2>2 DEF PaneInv, Clear, FirstHalf
  <2>3. CASE box = <<>> /\ box' = Append(box, k)
    <3>1. ~Tainted
      BY <2>3, EmptyIs DEF Tainted
    <3>2. Ahead = keys
      BY <1>2, <2>3, JoinIs DEF Ahead
    <3>3. IsPrefix(keys, Pieces(m)) => k = <<m, 1>>
      BY <1>1, <1>2, <1>5, PrefixIs
    <3>4. box'[1] = k
      BY <1>3, <2>3
    <3> QED
      BY <1>10, <1>12, <2>1, <3>1, <3>2, <3>3, <3>4
  <2> QED
    BY <1>3, <1>6, <2>1, <2>2, <2>3
<1>15. Mine'
  BY <1>8, <1>10 DEF PaneInv, Clear, Mine
<1>16. Killing'
  <2>1. \A x : Covered(x) => Covered(x)'
    BY <1>10, <1>11 DEF Covered
  <2> QED
    BY <1>1, <1>6, <1>10, <2>1 DEF PaneInv, Clear, Killing
<1>17. Somewhere'
  BY <1>10, <1>11 DEF PaneInv, Clear, Somewhere
<1>18. AllWhole'
  BY <1>11 DEF PaneInv, Clear, AllWhole, Whole
<1>19. AllAccounted'
  <2>1. Accounted \subseteq Accounted'
    BY <1>10 DEF Accounted
  <2> QED
    BY <2>1 DEF PaneInv, Clear, AllAccounted, Sent
<1>20. Fresh'
  BY <1>10, <1>11 DEF PaneInv, Clear, Fresh, Started, Submitting
<1> QED
  BY <1>7, <1>9, <1>13, <1>14, <1>15, <1>16, <1>17, <1>18, <1>19, <1>20 DEF PaneInv, Clear

(* Claude takes another key.                                               *)
LEMMA OtherTaken ==
    ASSUME PaneInv, NEW k \in {Enter, Kill, Esc, Chord}, keys = <<k>>, keys' = <<>>,
           UNCHANGED <<herdr, inj, own, verdict, doubtful, tries, told, fell, drafted, unsaid, unseen>>,
           view' \in {"composer", "choice", "approval"},
           young' \in BOOLEAN, young' => young \/ prompts' # <<>>,
           \/ box' = box /\ prompts' = prompts
           \/ /\ k \in {Enter, Chord} /\ box' = <<>>
              /\ prompts' = IF box = <<>> THEN prompts ELSE Append(prompts, box)
           \/ k = Kill /\ box # <<>> /\ box' = Front(box) /\ prompts' = prompts
    PROVE  PaneInv'
<1>1. /\ <<k>> # <<>> /\ ToSet(<<k>>) = {k} /\ \A m \in Msgs : ~OfMsg(<<k>>, m)
      /\ k[1] \notin Msgs /\ k[1] \notin Drafts /\ k \notin Piece
      /\ \A l \in {Enter, Kill, Esc, Chord} : <<l>> = <<k>> => l = k
      /\ \A l \in {Enter, Kill, Esc, Chord} : <<l>> # <<>>
      /\ \A m \in Msgs : k # <<m, 1>>
  BY Specials
<1>2. ToSet(<<>>) = {} /\ \A m : OfMsg(<<>>, m)
  BY EmptyIs
<1>3. box \in Seq(Piece) /\ prompts \in Seq(Seq(Piece) \ {<<>>}) /\ inj \in InjectionType
  BY DEF PaneInv, Typed
<1>4. box # <<>> => /\ Front(box) \in Seq(Piece) /\ Last(box) \in Piece
                    /\ ToSet(box) = {Last(box)} \cup ToSet(Front(box))
                    /\ (Front(box) # <<>> => Front(box)[1] = box[1])
  BY <1>3, FrontIs
<1>5. box # <<>> => /\ Append(prompts, box) \in Seq(Seq(Piece) \ {<<>>}) /\ Append(prompts, box) # <<>>
                    /\ ToSet(Append(prompts, box)) = ToSet(prompts) \cup {box}
  <2> DEFINE S == Seq(Piece) \ {<<>>}
  <2>1. box # <<>> => box \in S
    BY <1>3
  <2>2. prompts \in Seq(S)
    BY <1>3
  <2> HIDE DEF S
  <2>3. box # <<>> => /\ Append(prompts, box) \in Seq(S) /\ Append(prompts, box) # <<>>
                      /\ ToSet(Append(prompts, box)) = ToSet(prompts) \cup {box}
    BY <2>1, <2>2, AppendIs
  <2> QED
    BY <2>3 DEF S
<1>6. /\ box' \in Seq(Piece) /\ prompts' \in Seq(Seq(Piece) \ {<<>>})
      /\ ToSet(box') \subseteq ToSet(box) /\ (prompts # <<>> => prompts' # <<>>)
      /\ (box' # <<>> => box # <<>> /\ box'[1] = box[1])
  <2>1. <<>> \in Seq(Piece)
    OBVIOUS
  <2>2. CASE box' = box /\ prompts' = prompts
    BY <1>3, <2>2
  <2>3. CASE /\ k \in {Enter, Chord} /\ box' = <<>>
             /\ prompts' = IF box = <<>> THEN prompts ELSE Append(prompts, box)
    BY <1>2, <1>3, <1>5, <2>1, <2>3
  <2>4. CASE k = Kill /\ box # <<>> /\ box' = Front(box) /\ prompts' = prompts
    BY <1>3, <1>4, <2>4
  <2> QED
    BY <2>2, <2>3, <2>4
<1>7. Typed'
  <2>1. young' => prompts' # <<>>
    BY <1>6 DEF PaneInv, Typed
  <2>2. keys' \in Seq(Key)
    OBVIOUS
  <2> QED
    BY <1>6, <2>1, <2>2 DEF PaneInv, Typed
<1>8. /\ inj.at \notin {"esc", "enter", "chord", "type", "check", "before"}
      /\ inj.at = "after" => k = Enter
      /\ inj.at = "clear" => k = Kill
  <2>1. inj.at \in {"type", "check", "before", "clear"} => inj.msg \in Msgs
    BY <1>3 DEF PaneInv, Flow, Alone, Busy, InjectionType
  <2> QED
    BY <1>1, <2>1 DEF PaneInv, Flow, Pressed
<1>9. Flow'
  <2>1. Alone' /\ Steps'
    BY DEF PaneInv, Flow, Alone, Busy, Steps
  <2>2. Pressed'
    BY <1>8 DEF Pressed
  <2> QED
    BY <2>1, <2>2 DEF Flow
<1>10. /\ \A o : Fell(o)' = Fell(o)
       /\ \A s : Whole(s)' = Whole(s)
  BY DEF Fell, Whole
<1>11. /\ Prompted' = Prompted \cup (IF prompts' = prompts THEN {} ELSE ToSet(box))
       /\ prompts' # prompts => ToSet(prompts') = ToSet(prompts) \cup {box} /\ box # <<>> /\ k \in {Enter, Chord}
  <2>1. CASE prompts' = prompts
    BY <2>1 DEF Prompted
  <2>2. CASE prompts' # prompts
    <3>1. ToSet(prompts') = ToSet(prompts) \cup {box} /\ box # <<>> /\ k \in {Enter, Chord}
      BY <1>5, <2>2
    <3> QED
      BY <2>2, <3>1 DEF Prompted
  <2> QED
    BY <2>1, <2>2
<1>12. k = Enter => box' \in {box, <<>>}
  BY KindsOfKeys
<1>13. ASSUME ~Tainted'
       PROVE  Known'
  <2>1. Typing' /\ Typeset'
    BY <1>8 DEF Typing, Typeset
  <2>2. box' = box => Known
    BY <1>13 DEF Tainted, PaneInv, Clear
  <2>3. Entered'
    BY <1>2, <1>8, <1>10, <1>12, <2>2 DEF Known, Entered
  <2>4. Owned'
    BY <1>8, <1>10, <1>12, <2>2 DEF Known, Owned
  <2>5. EnterWhole' /\ ChordAlone' /\ Underway'
    BY <1>1, <1>8 DEF EnterWhole, ChordAlone, Underway
  <2> QED
    BY <2>1, <2>3, <2>4, <2>5 DEF Known
<1>14. FirstHalf'
  BY <1>6, <1>10, <1>11 DEF PaneInv, Clear, FirstHalf
<1>15. Mine'
  BY <1>6 DEF PaneInv, Clear, Mine
<1>16. \A x : Covered(x) => Covered(x)'
  BY <1>11 DEF Covered
<1>17. Killing'
  <2>1. SUFFICES ASSUME inj.at = "clear", NEW x \in ToSet(box')
                 PROVE  Covered(x)'
    BY <1>1, <1>2 DEF Killing
  <2>2. x \in ToSet(box) /\ x # Kill
    BY <1>3, <1>6, <2>1, ElementsOf, Specials
  <2> QED
    BY <1>16, <2>1, <2>2 DEF PaneInv, Clear, Killing
<1>18. Somewhere'
  <2>1. SUFFICES ASSUME inj.at = "after", inj.for = "msg", k = Enter
                 PROVE  <<inj.msg, 1>> \in ToSet(box') \cup ToSet(keys') \cup Prompted' \cup fell'
    BY <1>8 DEF Somewhere
  <2>2. <<inj.msg, 1>> \in ToSet(box) \cup ToSet(keys) \cup Prompted \cup fell
    BY <2>1 DEF PaneInv, Clear, Somewhere
  <2>3. inj.msg \in Msgs
    BY <1>3, <2>1 DEF PaneInv, Flow, Alone, Busy, InjectionType
  <2>4. <<inj.msg, 1>> \in ToSet(box) \cup Prompted \cup fell
    BY <1>1, <2>2, <2>3
  <2>5. ToSet(box) \subseteq ToSet(box') \cup Prompted'
    BY <1>2, <1>11, <2>1, KindsOfKeys
  <2> QED
    BY <1>11, <2>4, <2>5
<1>19. AllWhole'
  <2>1. prompts' # prompts => Whole(box) \/ \E e \in ToSet(box) : e[1] \in unseen
    BY <1>1, <1>11 DEF PaneInv, Clear, Known, EnterWhole, ChordAlone, Tainted
  <2> QED
    BY <1>10, <1>11, <2>1 DEF PaneInv, Clear, AllWhole
<1>20. AllAccounted'
  <2>1. ASSUME NEW x \in (Sent \cup drafted) \ unseen
        PROVE  \E e \in Accounted' : e[1] = x
    <3>1. PICK e \in Accounted : e[1] = x
      BY DEF PaneInv, Clear, AllAccounted
    <3>2. x \in Msgs \cup Drafts /\ e # k
      BY <1>1, <3>1 DEF PaneInv, Typed, Sent
    <3>3. e \in ToSet(box) \cup Prompted \cup told \cup unsaid \cup fell \cup inj.residue
      BY <1>1, <3>1, <3>2, AccountedIs
    <3>4. /\ ToSet(box') \subseteq Accounted' /\ told' \cup unsaid' \cup fell' \cup inj'.residue \subseteq Accounted'
          /\ Prompted' \subseteq Accounted'
      BY DEF Accounted, Prompted
    <3>5. CASE e \in Prompted \cup told \cup unsaid \cup fell \cup inj.residue
      BY <1>11, <3>1, <3>4, <3>5
    <3>6. CASE e \in ToSet(box) /\ k # Kill
      BY <1>2, <1>11, <3>1, <3>4, <3>6
    <3>7. CASE e \in ToSet(box) /\ k = Kill
      <4>1. Covered(e)
        <5>1. e # Kill
          BY <1>3, <3>7, ElementsOf, Specials
        <5> QED
          BY <3>7, <5>1 DEF PaneInv, Clear, Killing
      <4>2. /\ ~(e[1] \in Msgs /\ verdict[e[1]] \notin {"submitted", "unconfirmed"})
            /\ e[1] \notin unseen
        BY <2>1, <3>1, DraftsAreOther DEF Sent, PaneInv, Typed
      <4>3. e \in Prompted \cup told \cup unsaid \cup fell \cup inj.residue
        BY <4>1, <4>2 DEF Covered
      <4> QED
        BY <1>11, <3>1, <3>4, <4>3
    <3> QED
      BY <3>3, <3>5, <3>6, <3>7
  <2> QED
    BY <2>1 DEF AllAccounted, Sent
<1>21. Fresh'
  <2>1. SUFFICES ASSUME NEW m \in Msgs \ doubtful
                 PROVE  /\ (\E e \in ToSet(box') : e[1] = m) => inj.msg = m /\ Started
                        /\ (\E e \in Prompted' : e[1] = m) => inj.msg = m /\ Submitting
    BY <1>2 DEF Fresh, Started, Submitting
  <2>2. /\ (\E e \in ToSet(box) : e[1] = m) => inj.msg = m /\ Started
        /\ (\E e \in Prompted : e[1] = m) => inj.msg = m /\ Submitting
    BY DEF PaneInv, Clear, Fresh
  <2>3. k \in {Enter, Chord} /\ Started => Submitting
    BY <1>8, KindsOfKeys DEF Started
  <2> QED
    BY <1>6, <1>11, <2>2, <2>3
<1> QED
  BY <1>7, <1>9, <1>13, <1>14, <1>15, <1>17, <1>18, <1>19, <1>20, <1>21 DEF PaneInv, Clear

LEMMA TakesKeyKeeps ==
    ASSUME PaneInv, TakesKey, UNCHANGED herdr
    PROVE  PaneInv'
<1> DEFINE k == Head(keys)
<1>1. /\ keys # <<>> /\ keys' = Tail(keys)
      /\ UNCHANGED <<inj, own, verdict, doubtful, tries, told, drafted, unsaid, unseen>>
  BY DEF TakesKey, memory
<1>2. \/ /\ view # "composer" /\ k[1] \in Msgs
         /\ fell' = fell \cup {k} /\ UNCHANGED <<view, box, prompts, young>>
      \/ /\ view # "composer" /\ k[1] \in {"enter", "esc"}
         /\ view' = "composer" /\ UNCHANGED <<box, prompts, young, fell>>
      \/ /\ view = "composer" /\ k[1] \in Msgs
         /\ box' = Append(box, k) /\ UNCHANGED <<view, prompts, young, fell>>
      \/ /\ view = "composer" /\ k[1] \in {"enter", "chord"} /\ Submits /\ UNCHANGED <<view, fell>>
      \/ /\ view = "composer" /\ k[1] = "kill" /\ box # <<>>
         /\ box' = Front(box) /\ UNCHANGED <<view, prompts, young, fell>>
      \/ k[1] \notin Msgs /\ UNCHANGED <<view, box, prompts, young, fell>>
  BY DEF TakesKey
<1>3. view \in {"composer", "choice", "approval"} /\ young \in BOOLEAN
  BY DEF PaneInv, Typed
<1>4. CASE k[1] \in Msgs
  <2>1. \/ fell' = fell \cup {k} /\ box' = box
        \/ fell' = fell /\ box' = Append(box, k)
    BY <1>2, <1>4, KeysAreNoTexts
  <2>2. UNCHANGED <<view, prompts, young>>
    BY <1>2, <1>4, KeysAreNoTexts
  <2> QED
    BY <1>1, <1>4, <2>1, <2>2, TextTaken
<1>5. CASE k[1] \notin Msgs
  <2>1. keys = <<k>> /\ keys' = <<>> /\ k \in {Enter, Kill, Esc, Chord}
    BY <1>1, <1>5, Heads DEF PaneInv, Flow
  <2>2. /\ k[1] \in {"enter", "chord"} => k \in {Enter, Chord}
        /\ k[1] = "kill" => k = Kill
    BY <2>1, KindsOfKeys
  <2> HIDE DEF k
  <2>3. CASE UNCHANGED <<view, box, prompts, young, fell>>
    BY <1>1, <1>3, <2>1, <2>3, OtherTaken
  <2>6. CASE view' = "composer" /\ UNCHANGED <<box, prompts, young, fell>>
    BY <1>1, <1>3, <2>1, <2>6, OtherTaken
  <2>4. CASE k \in {Enter, Chord} /\ Submits /\ UNCHANGED <<view, fell>>
    <3>1. /\ young' \in BOOLEAN /\ (young' => young \/ prompts' # <<>>)
          /\ \/ box' = box /\ prompts' = prompts
             \/ /\ k \in {Enter, Chord} /\ box' = <<>>
                /\ prompts' = IF box = <<>> THEN prompts ELSE Append(prompts, box)
      <4>1. CASE UNCHANGED <<box, prompts, young>>
        BY <1>3, <4>1
      <4>2. CASE /\ box' = <<>> /\ young' = (young \/ box # <<>>)
                 /\ prompts' = IF box = <<>> THEN prompts ELSE Append(prompts, box)
        <5>1. box # <<>> => Append(prompts, box) # <<>>
          <6>1. prompts \in Seq(Seq(Piece) \ {<<>>}) /\ box \in Seq(Piece)
            BY DEF PaneInv, Typed
          <6>2. box # <<>> => box \in Seq(Piece) \ {<<>>}
            BY <6>1
          <6>3. ASSUME box # <<>>
                PROVE  Len(Append(prompts, box)) = Len(prompts) + 1 /\ Len(prompts) \in Nat
            <7>1. box \in Seq(Piece) \ {<<>>}
              BY <6>2, <6>3
            <7> QED
              BY <6>1, <7>1, AppendProperties, LenProperties
          <6> QED
            BY <6>3, EmptySeq
        <5>2. young' \in BOOLEAN
          BY <1>3, <4>2
        <5>3. young' => young \/ prompts' # <<>>
          BY <4>2, <5>1
        <5> QED
          BY <2>4, <4>2, <5>2, <5>3
      <4> QED
        BY <2>4, <4>1, <4>2 DEF Submits
    <3>2. view' \in {"composer", "choice", "approval"} /\ fell' = fell
      BY <1>3, <2>4
    <3> QED
      BY <1>1, <2>1, <3>1, <3>2, OtherTaken
  <2>5. CASE k = Kill /\ box # <<>> /\ box' = Front(box) /\ UNCHANGED <<view, prompts, young, fell>>
    BY <1>1, <1>3, <2>1, <2>5, OtherTaken
  <2> QED
    BY <1>2, <1>5, <2>2, <2>3, <2>4, <2>5, <2>6
<1> QED
  BY <1>4, <1>5

-----------------------------------------------------------------------------
(* The invariant.                                                          *)

LEMMA Starts == Init => PaneInv
<1> SUFFICES ASSUME Init
             PROVE  PaneInv
  OBVIOUS
<1>1. /\ box = <<>> /\ keys = <<>> /\ prompts = <<>> /\ inj = Idle /\ own = Nobody /\ young = FALSE
      /\ verdict = [m \in Msgs |-> "none"] /\ tries = [m \in Msgs |-> 0] /\ view = "composer"
      /\ told = {} /\ fell = {} /\ drafted = {} /\ unsaid = {} /\ unseen = {} /\ doubtful = {}
      /\ herdr \in BOOLEAN
  BY DEF Init
<1>2. /\ inj \in InjectionType /\ inj.at = "idle" /\ inj.msg = Nobody /\ inj.residue = {} /\ inj.typed = 0
  BY <1>1, IdleIs
<1>3. ToSet(<<>>) = {} /\ \A k \in {Enter, Kill, Esc, Chord} : <<k>> # <<>>
  BY EmptyIs, Specials
<1>4. Typed
  <2>1. box \in Seq(Piece) /\ keys \in Seq(Key) /\ prompts \in Seq(Seq(Piece) \ {<<>>})
    BY <1>1
  <2>2. verdict \in [Msgs -> Outcomes] /\ tries \in [Msgs -> Nat]
    BY <1>1 DEF Outcomes
  <2> QED
    BY <1>1, <1>2, <2>1, <2>2 DEF Typed
<1>5. Flow
  BY <1>1, <1>2 DEF Flow, Alone, Busy, Steps, Pressed
<1>6. Typing /\ Typeset /\ Entered /\ Owned /\ Somewhere
  BY <1>2 DEF Typing, Typeset, Entered, Owned, Somewhere
<1>7. EnterWhole /\ ChordAlone /\ Underway /\ FirstHalf /\ Killing /\ Mine
  BY <1>1, <1>2, <1>3 DEF EnterWhole, ChordAlone, Underway, FirstHalf, Killing, Mine
<1>8. AllWhole
  BY <1>1, <1>3 DEF AllWhole
<1>9. AllAccounted
  BY <1>1 DEF AllAccounted, Sent
<1>10. Fresh
  BY <1>1, <1>3 DEF Fresh, Prompted
<1> QED
  BY <1>4, <1>5, <1>6, <1>7, <1>8, <1>9, <1>10 DEF PaneInv, Clear, Known

LEMMA Stays == PaneInv /\ UNCHANGED vars => PaneInv'
<1> SUFFICES ASSUME PaneInv, UNCHANGED vars
             PROVE  PaneInv'
  OBVIOUS
<1>1. UNCHANGED <<herdr, view, box, keys, prompts, young, inj, own, verdict, doubtful, tries, told, fell,
                  drafted, unsaid, unseen>>
  BY DEF vars, claude, memory, history
<1>2. view' \in {"composer", "choice", "approval"} /\ young' \in BOOLEAN
  BY <1>1 DEF PaneInv, Typed
<1> QED
  BY <1>1, <1>2, ScreenStep

LEMMA NextKeeps ==
    ASSUME PaneInv, Next
    PROVE  PaneInv'
<1>1. UNCHANGED herdr
  BY DEF Next
<1>2. CASE \E v \in {"choice", "approval"} : Opens(v)
  BY <1>1, <1>2, OpensKeeps
<1>3. CASE \E d \in Drafts : TypesDraft(d)
  BY <1>1, <1>3, TypesDraftKeeps
<1>4. CASE \E m \in Msgs : Begins(m)
  BY <1>1, <1>4, BeginsKeeps
<1>5. ASSUME NEW f \in Frames,
             Reads(f) \/ Clears(f) \/ Checks(f) \/ LooksBefore(f) \/ LooksAfter(f) \/ ReadsNow(f)
      PROVE  PaneInv'
  BY <1>1, <1>5, ReadsKeeps, ClearsKeeps, ChecksKeeps, LooksBeforeKeeps, LooksAfterKeeps, ReadsNowKeeps
<1>6. CASE Closes \/ Outputs \/ Restores \/ TakesKey
  BY <1>1, <1>6, ClosesKeeps, OutputsKeeps, RestoresKeeps, TakesKeyKeeps
<1>7. CASE Defers \/ PressesEsc \/ Types \/ PressesEnter
  BY <1>1, <1>7, DefersKeeps, PressesEscKeeps, TypesKeeps, PressesEnterKeeps
<1>8. CASE Fails \/ Restarts \/ AsksNow \/ PressesChord
  BY <1>1, <1>8, FailsKeeps, RestartsKeeps, AsksNowKeeps, PressesChordKeeps
<1> QED
  BY <1>2, <1>3, <1>4, <1>5, <1>6, <1>7, <1>8 DEF Next, Frames

(* In every reachable state the injection, the box, the keys under way and *)
(* the prompts of Claude agree as PaneInv says.                            *)
THEOREM InputInvariant == Spec => []PaneInv
<1>1. PaneInv /\ [Next]_vars => PaneInv'
  BY NextKeeps, Stays
<1> QED
  BY <1>1, Starts, PTL DEF Spec

(* Every prompt is one message, whole and alone, or what a dialog has left *)
(* of one: the drafts of the Mac and the leftovers of other messages stay  *)
(* out of it (prepareInputForSend), but for what stood in the box without  *)
(* the hub seeing it there.                                                *)
THEOREM PromptsApart == Spec => []Apart
<1>1. PaneInv => Apart
  <2>1. SUFFICES ASSUME PaneInv, NEW p \in ToSet(prompts), Texts(p) \cap unseen = {}
                 PROVE  \/ \E m \in Msgs : p = Pieces(m)
                        \/ \E x \in Texts(p), i \in {1, 2} : <<x, i>> \in fell
    BY DEF Apart
  <2>2. PICK m \in Msgs : OfMsg(p, m) /\ (p = Pieces(m) \/ Fell(m))
    BY <2>1 DEF PaneInv, Clear, AllWhole, Whole, Texts
  <2>3. p \in Seq(Piece) /\ p # <<>>
    <3>1. prompts \in Seq(Seq(Piece) \ {<<>>})
      BY <2>1 DEF PaneInv, Typed
    <3>2. ToSet(prompts) \subseteq Seq(Piece) \ {<<>>}
      <4> DEFINE S == Seq(Piece) \ {<<>>}
      <4>1. prompts \in Seq(S)
        BY <3>1
      <4> HIDE DEF S
      <4>2. ToSet(prompts) \subseteq S
        BY <4>1, ElementsOf
      <4> QED
        BY <4>2 DEF S
    <3> QED
      BY <2>1, <3>2
  <2>4. m \in Texts(p)
    <3>1. ToSet(p) = {Head(p)} \cup ToSet(Tail(p))
      BY <2>3, TailIs
    <3>2. Head(p)[1] = m
      BY <2>2, <2>3, <3>1, ElementsOf
    <3> QED
      BY <3>1, <3>2 DEF Texts
  <2> QED
    BY <2>2, <2>4 DEF Fell
<1> QED
  BY <1>1, InputInvariant, PTL

(* What the phone shows as sent is with Claude, on its way, swallowed by a *)
(* dialog or told of; what the user typed at the Mac is there, or its      *)
(* removal was told, or a message ended in an error for it; but for what   *)
(* stood in the box without the hub seeing it there.                       *)
THEOREM NoneLost == Spec => []NothingLost
<1>1. PaneInv => NothingLost
  BY DEF NothingLost, PaneInv, Clear, AllAccounted
<1> QED
  BY <1>1, InputInvariant, PTL

(* A message given back as not delivered (ChatInjectionRejectedError, or   *)
(* put off for the end of the hub) is nowhere with Claude: not in the box, *)
(* not as a key, not as a prompt; unless an earlier try ended otherwise.   *)
THEOREM GivenBack == Spec => []GivenBackWhole
<1>1. PaneInv => GivenBackWhole
  <2>1. SUFFICES ASSUME PaneInv, NEW m \in NotDelivered
                 PROVE  m \notin Texts(box) \cup Texts(keys) \cup UNION {Texts(p) : p \in ToSet(prompts)}
    BY DEF GivenBackWhole
  <2>2. m \in Msgs \ doubtful /\ inj.msg # m
    BY <2>1 DEF NotDelivered
  <2>3. ~(\E k \in ToSet(box) \cup ToSet(keys) : k[1] = m) /\ ~(\E k \in Prompted : k[1] = m)
    BY <2>1, <2>2 DEF PaneInv, Clear, Fresh
  <2> QED
    BY <2>3 DEF Texts, Prompted
<1> QED
  BY <1>1, InputInvariant, PTL

=============================================================================
