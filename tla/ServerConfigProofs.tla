------------------------- MODULE ServerConfigProofs -------------------------
(***************************************************************************)
(* Proofs about ServerConfig: whatever file is read, every setting is the  *)
(* value of the last line that gives it one.                               *)
(*                                                                         *)
(* Copied, AfterColon and Set are recursions and choices over sequences of *)
(* any length.  What they return is proved without an induction rule: from *)
(* the set of places where the claim fails take the least, and it does not *)
(* fail there either.  The lemmas go from the tokens of a line             *)
(* (KeptSetting, CopiedSetting) to the setting found in them (SetIs) and   *)
(* from one line to the next (SettingNext).                                *)
(***************************************************************************)
EXTENDS ServerConfig, FiniteSetTheorems, SequenceTheorems, WellFoundedInduction, TLAPS

(* Every non-empty set of natural numbers has a least element.             *)
LEMMA LeastNat ==
  ASSUME NEW T, T \subseteq Nat, T # {}
  PROVE  \E m \in T : \A n \in T : m <= n
<1>1. IsWellFoundedOn(OpToRel(<, Nat), Nat)
  BY NatLessThanWellFounded
<1>2. PICK m \in T : \A n \in T : ~ (<<n, m>> \in OpToRel(<, Nat))
  BY <1>1, WFMin
<1>3. \A n \in T : ~ (n < m)
  BY <1>2 DEF OpToRel
<1> QED
  BY <1>3

LEMMA MinIsLeast ==
  ASSUME NEW T, T \subseteq Nat, T # {}
  PROVE  Min(T) \in T /\ \A n \in T : Min(T) <= n
BY LeastNat DEF Min

(* Kept is what its recursion computes: a function that satisfies the      *)
(* equation is the only one, or there would be a first place to differ.    *)
KeptBy(tokens, n, g) ==
  g = [i \in 0 .. n |->
         IF i = 0 THEN <<>>
         ELSE IF tokens[i] = " " THEN g[i - 1] ELSE Append(g[i - 1], tokens[i])]

LEMMA KeptByIf ==
  ASSUME NEW tokens, NEW n \in Nat, NEW g, g = [i \in 0 .. n |-> g[i]],
         \A i \in 0 .. n :
           g[i] = IF i = 0 THEN <<>>
                  ELSE IF tokens[i] = " " THEN g[i - 1] ELSE Append(g[i - 1], tokens[i])
  PROVE  KeptBy(tokens, n, g)
BY DEF KeptBy

LEMMA KeptByAt ==
  ASSUME NEW tokens, NEW n \in Nat, NEW g, KeptBy(tokens, n, g), NEW i \in 0 .. n, i # 0
  PROVE  g[i] = IF tokens[i] = " " THEN g[i - 1] ELSE Append(g[i - 1], tokens[i])
BY DEF KeptBy

LEMMA KeptIs ==
  ASSUME NEW tokens, NEW n \in Nat, NEW g, KeptBy(tokens, n, g)
  PROVE  Kept(tokens, n) = g[n]
<1> DEFINE f == CHOOSE h : KeptBy(tokens, n, h)
           T == {i \in 0 .. n : f[i] # g[i]}
<1>1. KeptBy(tokens, n, f)
  OBVIOUS
<1>2. Kept(tokens, n) = f[n]
  BY DEF Kept, KeptBy
<1> HIDE DEF f
<1>3. T = {}
  <2> SUFFICES ASSUME T # {} PROVE FALSE
    OBVIOUS
  <2>0. T \subseteq Nat
    OBVIOUS
  <2>1. PICK m \in T : \A i \in T : m <= i
    BY <2>0, LeastNat
  <2>2. m # 0
    BY <1>1, <2>1 DEF KeptBy
  <2>3. m - 1 \in 0 .. n /\ m - 1 \notin T
    BY <2>1, <2>2
  <2>4. f[m - 1] = g[m - 1]
    BY <2>3
  <2>5. m \in 0 .. n /\ f[m] # g[m]
    BY <2>1
  <2>6. f[m] = IF tokens[m] = " " THEN f[m - 1] ELSE Append(f[m - 1], tokens[m])
    BY <1>1, <2>2, <2>5, KeptByAt
  <2>7. g[m] = IF tokens[m] = " " THEN g[m - 1] ELSE Append(g[m - 1], tokens[m])
    BY <2>2, <2>5, KeptByAt
  <2> QED
    BY <2>4, <2>5, <2>6, <2>7
<1> QED
  BY <1>2, <1>3

-----------------------------------------------------------------------------
(* Keys, words and signs are different tokens.                             *)
LEMMA KeysAre ==
  Keys = {"_port1", "_port2", "_server_ip1", "_server_ip2",
          "_prepare_accept_socket_count1", "_acceptor_work_count1",
          "_acceptor_work_count2", "_receive_buffer_size1", "_receive_buffer_size2",
          "_send_buffer_size1", "_send_buffer_size2",
          "_info_transfer_station_work_thread_count",
          "_database_receive_buffer_size", "_database_work_thread_count",
          "_database_name", "_database_account_name", "_database_account_pwd"}
BY DEF Keys, ToSet, Fields

LEMMA TokensDiffer ==
  /\ \A key \in UsedKeys : key \in Keys /\ key \notin {":", "-", " "}
  /\ \A word \in Words : word \notin Keys /\ word \notin {":", "-", " "}
  /\ ":" \notin Keys
BY KeysAre, KeysAssumption

(* There is one for every length.                                          *)
LEMMA KeptExists ==
  ASSUME NEW tokens
  PROVE  \A n \in Nat : \E g : KeptBy(tokens, n, g)
<1> DEFINE T == {n \in Nat : ~ \E g : KeptBy(tokens, n, g)}
<1> SUFFICES ASSUME T # {} PROVE FALSE
  OBVIOUS
<1>1. T \subseteq Nat
  OBVIOUS
<1>2. PICK m \in T : \A n \in T : m <= n
  BY <1>1, LeastNat
<1>3. CASE m = 0
  <2>1. KeptBy(tokens, 0, [i \in 0 .. 0 |-> <<>>])
    <3> DEFINE g == [i \in 0 .. 0 |-> <<>>]
    <3>1. \A i \in 0 .. 0 : i = 0 /\ g[i] = <<>>
      OBVIOUS
    <3>2. g = [i \in 0 .. 0 |-> g[i]]
      OBVIOUS
    <3> HIDE DEF g
    <3> QED
      BY <3>1, <3>2, KeptByIf
  <2> QED
    BY <1>2, <1>3, <2>1
<1>4. CASE m # 0
  <2>1. m - 1 \in Nat /\ m - 1 \notin T
    BY <1>2, <1>4
  <2>2. PICK g : KeptBy(tokens, m - 1, g)
    BY <2>1
  <2> DEFINE last == IF tokens[m] = " " THEN g[m - 1] ELSE Append(g[m - 1], tokens[m])
             h == [i \in 0 .. m |-> IF i = m THEN last ELSE g[i]]
  <2>0. m \in Nat /\ m - 1 \in 0 .. m /\ m - 1 # m
    BY <1>2, <2>1
  <2> HIDE DEF T
  <2>3. h = [i \in 0 .. m |-> h[i]]
    OBVIOUS
  <2>4. h[m] = last /\ \A i \in 0 .. m : i # m => h[i] = g[i]
    <3> HIDE DEF last
    <3> QED
      BY <2>0
  <2>5. \A i \in 0 .. m - 1 :
          g[i] = IF i = 0 THEN <<>>
                 ELSE IF tokens[i] = " " THEN g[i - 1] ELSE Append(g[i - 1], tokens[i])
    BY <2>2 DEF KeptBy
  <2> HIDE DEF h
  <2>6. ASSUME NEW i \in 0 .. m
        PROVE  h[i] = IF i = 0 THEN <<>>
                      ELSE IF tokens[i] = " " THEN h[i - 1] ELSE Append(h[i - 1], tokens[i])
    <3>1. h[m - 1] = g[m - 1]
      BY <2>0, <2>4
    <3>2. CASE i = m
      BY <1>4, <2>4, <3>1, <3>2
    <3>3. CASE i # m
      <4>0. i \in 0 .. m - 1
        BY <2>0, <3>3
      <4>1. i \in 0 .. m - 1 /\ h[i] = g[i]
        BY <2>4, <3>3, <4>0
      <4>2. i # 0 => i - 1 \in 0 .. m /\ i - 1 # m
        BY <2>0, <4>1
      <4> QED
        BY <2>4, <2>5, <4>1, <4>2
    <3> QED
      BY <3>2, <3>3
  <2>7. KeptBy(tokens, m, h)
    BY <2>0, <2>3, <2>6, KeptByIf
  <2> QED
    BY <1>2, <2>7 DEF T
<1> QED
  BY <1>3, <1>4

(* The equation of Kept, token by token.                                   *)
LEMMA KeptNext ==
  ASSUME NEW tokens
  PROVE  /\ Kept(tokens, 0) = <<>>
         /\ \A n \in Nat : Kept(tokens, n + 1) =
              IF tokens[n + 1] = " " THEN Kept(tokens, n)
              ELSE Append(Kept(tokens, n), tokens[n + 1])
<1>1. Kept(tokens, 0) = <<>>
  <2>1. KeptBy(tokens, 0, [i \in 0 .. 0 |-> <<>>])
    <3> DEFINE g == [i \in 0 .. 0 |-> <<>>]
    <3>1. \A i \in 0 .. 0 : i = 0 /\ g[i] = <<>>
      OBVIOUS
    <3>2. g = [i \in 0 .. 0 |-> g[i]]
      OBVIOUS
    <3> HIDE DEF g
    <3> QED
      BY <3>1, <3>2, KeptByIf
  <2> QED
    BY <2>1, KeptIs
<1>2. ASSUME NEW n \in Nat
      PROVE  Kept(tokens, n + 1) =
               IF tokens[n + 1] = " " THEN Kept(tokens, n)
               ELSE Append(Kept(tokens, n), tokens[n + 1])
  <2>1. PICK g : KeptBy(tokens, n + 1, g)
    BY KeptExists
  <2> DEFINE h == [i \in 0 .. n |-> g[i]]
  <2>0. g = [i \in 0 .. n + 1 |-> g[i]] /\ \A i \in 0 .. n + 1 :
          g[i] = IF i = 0 THEN <<>>
                 ELSE IF tokens[i] = " " THEN g[i - 1] ELSE Append(g[i - 1], tokens[i])
    BY <2>1 DEF KeptBy
  <2>2. KeptBy(tokens, n, h)
    <3>1. \A i \in 0 .. n : i \in 0 .. n + 1 /\ h[i] = g[i] /\ (i # 0 => h[i - 1] = g[i - 1])
      OBVIOUS
    <3>2. h = [i \in 0 .. n |-> h[i]]
      OBVIOUS
    <3> HIDE DEF h
    <3> QED
      BY <2>0, <3>1, <3>2, KeptByIf
  <2>3. Kept(tokens, n) = g[n]
    <3>1. h[n] = g[n]
      OBVIOUS
    <3> HIDE DEF h
    <3> QED
      BY <2>2, <3>1, KeptIs
  <2>4. Kept(tokens, n + 1) = g[n + 1]
    <3>1. n + 1 \in Nat
      OBVIOUS
    <3> QED
      BY <2>1, <3>1, KeptIs
  <2>5. n + 1 \in 0 .. n + 1 /\ n + 1 # 0 /\ (n + 1) - 1 = n
    OBVIOUS
  <2> QED
    BY <2>0, <2>3, <2>4, <2>5
<1> QED
  BY <1>1, <1>2

LEMMA KeptBlank ==
  ASSUME NEW tokens, NEW n \in Nat, NEW m, m = n + 1, tokens[m] = " "
  PROVE  Kept(tokens, m) = Kept(tokens, n)
BY KeptNext

LEMMA KeptToken ==
  ASSUME NEW tokens, NEW n \in Nat, NEW m, m = n + 1, tokens[m] # " "
  PROVE  Kept(tokens, m) = Append(Kept(tokens, n), tokens[m])
BY KeptNext

(* The tokens begin with key and value as they are written in a file.      *)
Writes(tokens, key, value) ==
  /\ tokens[1] = key /\ tokens[2] = " " /\ tokens[3] = ":" /\ tokens[4] = " "
  /\ \A i \in 1 .. Len(value) : tokens[i + 4] = value[i]
  /\ tokens[Len(value) + 5] = " "

LEMMA ConcatIs ==
  ASSUME NEW S, NEW a \in Seq(S), NEW b \in Seq(S), NEW c, c = a \o b
  PROVE  /\ c \in Seq(S) /\ Len(c) = Len(a) + Len(b) /\ Len(a) \in Nat /\ Len(b) \in Nat
         /\ \A i \in 1 .. Len(a) + Len(b) : c[i] = IF i <= Len(a) THEN a[i] ELSE b[i - Len(a)]
<1>1. c \in Seq(S) /\ Len(c) = Len(a) + Len(b)
  BY ConcatProperties
<1>2. \A i \in 1 .. Len(a) + Len(b) : c[i] = IF i <= Len(a) THEN a[i] ELSE b[i - Len(a)]
  BY ConcatProperties
<1> QED
  BY <1>1, <1>2

(* Two tokens and a value, as they are copied.                             *)
LEMMA TextIs ==
  ASSUME NEW S, NEW a \in S, NEW b \in S, NEW value \in Seq(S), NEW text, text = <<a, b>> \o value
  PROVE  /\ text \in Seq(S) /\ Len(text) = Len(value) + 2 /\ Len(value) \in Nat
         /\ text[1] = a /\ text[2] = b
         /\ \A i \in 1 .. Len(value) : text[i + 2] = value[i]
<1>1. <<a, b>> \in Seq(S) /\ Len(<<a, b>>) = 2 /\ Len(value) \in Nat
  OBVIOUS
<1>2. /\ text \in Seq(S) /\ Len(text) = 2 + Len(value)
      /\ \A i \in 1 .. 2 + Len(value) : text[i] = IF i <= 2 THEN <<a, b>>[i] ELSE value[i - 2]
  BY <1>1, ConcatProperties
<1>3. text[1] = a /\ text[2] = b
  <2>1. 1 \in 1 .. 2 + Len(value) /\ 2 \in 1 .. 2 + Len(value)
    BY <1>1
  <2> QED
    BY <1>2, <2>1
<1>4. ASSUME NEW i \in 1 .. Len(value)
      PROVE  text[i + 2] = value[i]
  <2>1. i + 2 \in 1 .. 2 + Len(value) /\ ~ (i + 2 <= 2) /\ (i + 2) - 2 = i
    BY <1>1
  <2> QED
    BY <1>2, <2>1
<1> QED
  BY <1>1, <1>2, <1>3, <1>4

LEMMA AppendIs ==
  ASSUME NEW S, NEW one \in Seq(S), NEW b \in S, NEW two, two = Append(one, b)
  PROVE  /\ two \in Seq(S) /\ Len(two) = Len(one) + 1 /\ two[Len(one) + 1] = b
         /\ \A i \in 1 .. Len(one) : two[i] = one[i]
<1>1. two \in Seq(S) /\ Len(two) = Len(one) + 1
  BY AppendProperties
<1>2. two[Len(one) + 1] = b
  BY AppendProperties
<1>3. \A i \in 1 .. Len(one) : two[i] = one[i]
  BY AppendProperties
<1> QED
  BY <1>1, <1>2, <1>3

LEMMA PairIs ==
  ASSUME NEW a, NEW b
  PROVE  Append(Append(<<>>, a), b) = <<a, b>>
<1> DEFINE S == {a, b}
<1>1. a \in S /\ b \in S /\ <<>> \in Seq(S) /\ Len(<<>>) = 0
  OBVIOUS
<1>2. <<a, b>> \in Seq(S) /\ Len(<<a, b>>) = 2 /\ <<a, b>>[1] = a /\ <<a, b>>[2] = b
  OBVIOUS
<1> HIDE DEF S
<1>3. PICK one : one = Append(<<>>, a)
  OBVIOUS
<1>4. PICK two : two = Append(one, b)
  OBVIOUS
<1>5. one \in Seq(S) /\ Len(one) = 1 /\ one[1] = a
  BY <1>1, <1>3, AppendIs
<1>6. two \in Seq(S) /\ Len(two) = 2 /\ two[2] = b
  BY <1>1, <1>4, <1>5, AppendIs
<1>7. two[1] = a
  <2>1. 1 \in 1 .. Len(one)
    BY <1>5
  <2> QED
    BY <1>1, <1>4, <1>5, <2>1, AppendIs
<1>8. \A i \in 1 .. 2 : two[i] = <<a, b>>[i]
  BY <1>2, <1>6, <1>7
<1> QED
  BY <1>2, <1>3, <1>4, <1>6, <1>8, SeqEqual

LEMMA TwoAre ==
  ASSUME NEW S, NEW s \in Seq(S), Len(s) = 2, NEW a, NEW b, s[1] = a, s[2] = b
  PROVE  s = <<a, b>>
OBVIOUS

(* What is copied of a setting: its key, ":" and its value.                *)
LEMMA KeptSetting ==
  ASSUME NEW key \in UsedKeys, NEW value \in Seq(Words), NEW tokens, Writes(tokens, key, value)
  PROVE  Kept(tokens, Len(value) + 5) = <<key, ":">> \o value
<1> DEFINE S == Words \cup {key, ":"}
<1> DEFINE text == <<key, ":">> \o value
<1>1. /\ text \in Seq(S) /\ Len(text) = Len(value) + 2 /\ Len(value) \in Nat
      /\ text[1] = key /\ text[2] = ":"
      /\ \A i \in 1 .. Len(value) : text[i + 2] = value[i]
  <2>1. value \in Seq(S) /\ key \in S /\ ":" \in S
    BY SeqMonotonic
  <2> HIDE DEF S
  <2> QED
    BY <2>1, TextIs
<1> HIDE DEF text, S
<1> DEFINE Wrong == {k \in 0 .. Len(value) : Kept(tokens, k + 4) # SubSeq(text, 1, k + 2)}
<1>2. Kept(tokens, 4) = SubSeq(text, 1, 2)
  <2>1. Kept(tokens, 0) = <<>>
    BY KeptNext
  <2>2. tokens[1] = key /\ tokens[2] = " " /\ tokens[3] = ":" /\ tokens[4] = " "
    BY DEF Writes
  <2>3. Kept(tokens, 1) = Append(<<>>, key)
    <3>1. 0 \in Nat /\ 1 = 0 + 1
      OBVIOUS
    <3>2. tokens[1] # " "
      BY <2>2, TokensDiffer
    <3> QED
      BY <2>1, <2>2, <3>1, <3>2, KeptToken
  <2>4. Kept(tokens, 2) = Kept(tokens, 1)
    <3>1. 1 \in Nat /\ 2 = 1 + 1
      OBVIOUS
    <3> QED
      BY <2>2, <3>1, KeptBlank
  <2>5. Kept(tokens, 3) = Append(Kept(tokens, 2), ":")
    <3>1. 2 \in Nat /\ 3 = 2 + 1
      OBVIOUS
    <3>2. tokens[3] # " "
      BY <2>2
    <3> QED
      BY <2>2, <3>1, <3>2, KeptToken
  <2>5a. Kept(tokens, 4) = Kept(tokens, 3)
    <3>1. 3 \in Nat /\ 4 = 3 + 1
      OBVIOUS
    <3> QED
      BY <2>2, <3>1, KeptBlank
  <2>6. Kept(tokens, 4) = <<key, ":">>
    <3>1. Kept(tokens, 4) = Append(Append(<<>>, key), ":")
      BY <2>3, <2>4, <2>5, <2>5a
    <3> QED
      BY <3>1, PairIs
  <2>7. SubSeq(text, 1, 2) = <<key, ":">>
    <3> DEFINE front == SubSeq(text, 1, 2)
    <3>1. \A i \in 1 .. 2 : text[i] \in S
      BY <1>1
    <3>2. front \in Seq(S) /\ Len(front) = 2 /\ \A i \in 1 .. 2 : front[i] = text[i]
      BY <3>1, SubSeqProperties
    <3> HIDE DEF front
    <3>3. front[1] = key /\ front[2] = ":"
      BY <1>1, <3>2
    <3>4. front = <<key, ":">>
      BY <3>2, <3>3, TwoAre
    <3> QED
      BY <3>4 DEF front
  <2> QED
    BY <2>6, <2>7
<1>3. ASSUME NEW k \in 1 .. Len(value), Kept(tokens, k + 3) = SubSeq(text, 1, k + 1)
      PROVE  Kept(tokens, k + 4) = SubSeq(text, 1, k + 2)
  <2>1. k + 3 \in Nat /\ (k + 3) + 1 = k + 4
    OBVIOUS
  <2>2. tokens[k + 4] = value[k] /\ value[k] # " "
    <3>1. value[k] \in Words
      BY ElementOfSeq
    <3> QED
      BY <3>1, TokensDiffer DEF Writes
  <2>3. Kept(tokens, k + 4) = Append(SubSeq(text, 1, k + 1), value[k])
    BY <1>3, <2>1, <2>2, KeptNext
  <2>4. SubSeq(text, 1, k + 2) = SubSeq(text, 1, k + 1) \o <<text[k + 2]>>
    <3>1. 1 \in 1 .. Len(text) /\ k + 2 \in 1 .. Len(text) /\ (k + 2) - 1 = k + 1
      BY <1>1
    <3> QED
      BY <1>1, <3>1, SubSeqRecursiveSecond
  <2>5. SubSeq(text, 1, k + 1) \in Seq(S)
    BY <1>1
  <2>6. Append(SubSeq(text, 1, k + 1), value[k]) = SubSeq(text, 1, k + 1) \o <<value[k]>>
    BY <2>5
  <2> QED
    BY <1>1, <2>3, <2>4, <2>6
<1>4. Wrong = {}
  <2> SUFFICES ASSUME Wrong # {} PROVE FALSE
    OBVIOUS
  <2>1. Wrong \subseteq Nat
    BY <1>1
  <2>2. PICK k \in Wrong : \A i \in Wrong : k <= i
    BY <2>1, LeastNat
  <2>3. k \in 0 .. Len(value) /\ Kept(tokens, k + 4) # SubSeq(text, 1, k + 2)
    BY <2>2
  <2> HIDE DEF Wrong
  <2>4. k # 0
    <3>1. Kept(tokens, 0 + 4) = SubSeq(text, 1, 0 + 2)
      BY <1>2
    <3> QED
      BY <2>3, <3>1
  <2>5. k \in 1 .. Len(value) /\ k - 1 \in 0 .. Len(value) /\ k - 1 < k
    BY <1>1, <2>3, <2>4
  <2>6. (k - 1) + 4 = k + 3 /\ (k - 1) + 2 = k + 1
    BY <2>5
  <2>7. k - 1 \notin Wrong
    BY <2>2, <2>5
  <2>8. Kept(tokens, k + 3) = SubSeq(text, 1, k + 1)
    <3>1. Kept(tokens, (k - 1) + 4) = SubSeq(text, 1, (k - 1) + 2)
      BY <2>5, <2>7 DEF Wrong
    <3> QED
      BY <2>6, <3>1
  <2> QED
    BY <1>3, <2>3, <2>5, <2>8
<1>5. Kept(tokens, Len(value) + 4) = text
  <2>1. Kept(tokens, Len(value) + 4) = SubSeq(text, 1, Len(value) + 2)
    BY <1>1, <1>4
  <2> QED
    BY <1>1, <2>1, SubSeqFull
<1>6. Kept(tokens, Len(value) + 5) = text
  <2>1. Len(value) + 4 \in Nat /\ (Len(value) + 4) + 1 = Len(value) + 5
    BY <1>1
  <2> QED
    BY <1>5, <2>1, KeptNext DEF Writes
<1> QED
  BY <1>6 DEF text

(* The comments name the used keys one after the other, in some order.     *)
LEMMA SetToSeqIs ==
  ASSUME NEW T, IsFiniteSet(T)
  PROVE  SetToSeq(T) \in Seq(T)
<1>1. PICK n \in Nat : n = Cardinality(T) /\ ExistsBijection(1 .. n, T)
  BY FS_CardinalityType
<1>2. PICK f : f \in Bijection(1 .. n, T)
  BY <1>1 DEF ExistsBijection
<1>3. f \in [1 .. n -> T] /\ IsInjective(f)
  BY <1>2 DEF Bijection, Injection, IsInjective
<1>4. SetToSeq(T) \in [1 .. n -> T]
  BY <1>1, <1>3 DEF SetToSeq
<1> QED
  BY <1>4

AllTokens == Keys \cup Words \cup {":", "-", " "}

LEMMA UsedKeysFinite == IsFiniteSet(UsedKeys)
<1>1. IsFiniteSet(Keys)
  <2>1. DOMAIN Fields = 1 .. 17
    BY DEF Fields
  <2>2. Keys = {Fields[i] : i \in 1 .. 17}
    BY <2>1 DEF Keys, ToSet
  <2> DEFINE f == [i \in 1 .. 17 |-> Fields[i]]
  <2>3. f \in Surjection(1 .. 17, Keys)
    BY <2>2 DEF Surjection
  <2>4. IsFiniteSet(1 .. 17)
    BY FS_Interval, 1 \in Int, 17 \in Int
  <2> QED
    BY <2>3, <2>4, FS_Surjection
<1> QED
  BY <1>1, KeysAssumption, FS_Subset

(* A longer sequence begins like its beginning.                            *)
LEMMA BeginsLike ==
  ASSUME NEW S, NEW a \in Seq(S), NEW b \in Seq(S), NEW c, c = a \o b, NEW i \in 1 .. Len(a)
  PROVE  c \in Seq(S) /\ c[i] = a[i] /\ Len(a) \in Nat /\ Len(a) <= Len(c) /\ i \in 1 .. Len(c)
<1>1. /\ c \in Seq(S) /\ Len(c) = Len(a) + Len(b) /\ Len(a) \in Nat /\ Len(b) \in Nat
      /\ \A j \in 1 .. Len(a) + Len(b) : c[j] = IF j <= Len(a) THEN a[j] ELSE b[j - Len(a)]
  BY ConcatIs
<1>2. i \in 1 .. Len(a) + Len(b) /\ i <= Len(a)
  BY <1>1
<1> QED
  BY <1>1, <1>2

LEMMA CommentIs ==
  Comment \in Seq(AllTokens) /\ 1 \in 1 .. Len(Comment) /\ Comment[1] = "-"
<1> DEFINE first == <<"-", "-">>
           names == SetToSeq(UsedKeys)
           last  == <<":", "-">>
<1>1. first \in Seq(AllTokens) /\ 1 \in 1 .. Len(first) /\ first[1] = "-"
  BY DEF AllTokens
<1>2. last \in Seq(AllTokens)
  BY DEF AllTokens
<1>3. names \in Seq(AllTokens)
  <2>1. UsedKeys \subseteq AllTokens
    BY KeysAssumption DEF AllTokens
  <2>2. names \in Seq(UsedKeys)
    BY UsedKeysFinite, SetToSeqIs
  <2> HIDE DEF names
  <2> QED
    BY <2>1, <2>2, SeqMonotonic
<1>4. Comment = (first \o names) \o last
  BY DEF Comment
<1> HIDE DEF first, names, last
<1>5. PICK both : both = first \o names
  OBVIOUS
<1>6. both \in Seq(AllTokens) /\ both[1] = first[1] /\ 1 \in 1 .. Len(both)
  BY <1>1, <1>3, <1>5, BeginsLike
<1>7. Comment = both \o last
  BY <1>4, <1>5
<1>8. Comment \in Seq(AllTokens) /\ Comment[1] = both[1] /\ 1 \in 1 .. Len(Comment)
  BY <1>2, <1>6, <1>7, BeginsLike
<1> QED
  BY <1>1, <1>6, <1>8

(* Where a sequence of two or of three parts has what.                     *)
IsConcat(c, a, b) ==
  /\ Len(c) = Len(a) + Len(b) /\ Len(a) \in Nat /\ Len(b) \in Nat
  /\ \A i \in 1 .. Len(a) + Len(b) : c[i] = IF i <= Len(a) THEN a[i] ELSE b[i - Len(a)]

IsParts(s, a, b, c) ==
  /\ Len(s) = Len(b) + 5 /\ Len(b) \in Nat
  /\ \A i \in 1 .. 4 : s[i] = a[i]
  /\ \A i \in 1 .. Len(b) : s[i + 4] = b[i]
  /\ s[Len(b) + 5] = c[1]

LEMMA ConcatIsConcat ==
  ASSUME NEW S, NEW a \in Seq(S), NEW b \in Seq(S), NEW c, c = a \o b
  PROVE  c \in Seq(S) /\ IsConcat(c, a, b)
BY ConcatIs DEF IsConcat

LEMMA PartsOf ==
  ASSUME NEW a, NEW b, NEW c, NEW d, NEW s, Len(a) = 4, Len(c) = 1,
         IsConcat(d, a, b), IsConcat(s, d, c)
  PROVE  IsParts(s, a, b, c)
<1>2. /\ Len(d) = Len(a) + Len(b) /\ Len(b) \in Nat
      /\ \A i \in 1 .. Len(a) + Len(b) : d[i] = IF i <= Len(a) THEN a[i] ELSE b[i - Len(a)]
  BY DEF IsConcat
<1>3. /\ Len(s) = Len(d) + Len(c)
      /\ \A i \in 1 .. Len(d) + Len(c) : s[i] = IF i <= Len(d) THEN d[i] ELSE c[i - Len(d)]
  BY DEF IsConcat
<1>4. Len(d) = Len(b) + 4
  BY <1>2
<1>5. Len(s) = Len(b) + 5
  BY <1>2, <1>3, <1>4
<1>6. ASSUME NEW i \in 1 .. 4
      PROVE  s[i] = a[i]
  <2>1. /\ i \in 1 .. Len(a) + Len(b) /\ i <= Len(a)
        /\ i \in 1 .. Len(d) + Len(c) /\ i <= Len(d)
    BY <1>2, <1>4
  <2> QED
    BY <1>2, <1>3, <2>1
<1>7. ASSUME NEW i \in 1 .. Len(b)
      PROVE  s[i + 4] = b[i]
  <2>1. /\ i + 4 \in 1 .. Len(a) + Len(b) /\ ~ (i + 4 <= Len(a)) /\ (i + 4) - Len(a) = i
        /\ i + 4 \in 1 .. Len(d) + Len(c) /\ i + 4 <= Len(d)
    BY <1>2, <1>4
  <2> QED
    BY <1>2, <1>3, <2>1
<1>8. s[Len(b) + 5] = c[1]
  <2>1. /\ Len(b) + 5 \in 1 .. Len(d) + Len(c) /\ ~ (Len(b) + 5 <= Len(d))
        /\ (Len(b) + 5) - Len(d) = 1
    BY <1>2, <1>4
  <2> QED
    BY <1>3, <2>1
<1> QED
  BY <1>2, <1>3, <1>5, <1>6, <1>7, <1>8 DEF IsParts

LEMMA PartsAre ==
  ASSUME NEW S, NEW a \in Seq(S), NEW b \in Seq(S), NEW c \in Seq(S), Len(a) = 4, Len(c) = 1,
         NEW s, s = (a \o b) \o c
  PROVE  s \in Seq(S) /\ IsParts(s, a, b, c)
<1>1. PICK d : d = a \o b
  OBVIOUS
<1>2. d \in Seq(S) /\ IsConcat(d, a, b)
  BY <1>1, ConcatIsConcat, Zenon
<1>3. s = d \o c
  BY <1>1
<1>4. s \in Seq(S) /\ IsConcat(s, d, c)
  BY <1>2, <1>3, ConcatIsConcat, Zenon
<1> QED
  BY <1>2, <1>4, PartsOf

LEMMA FourAre ==
  ASSUME NEW S, NEW p \in S, NEW q \in S, NEW r \in S, NEW t \in S
  PROVE  /\ <<p, q, r, t>> \in Seq(S) /\ Len(<<p, q, r, t>>) = 4
         /\ <<p, q, r, t>>[1] = p /\ <<p, q, r, t>>[2] = q
         /\ <<p, q, r, t>>[3] = r /\ <<p, q, r, t>>[4] = t
OBVIOUS

LEMMA OneIs ==
  ASSUME NEW S, NEW p \in S
  PROVE  <<p>> \in Seq(S) /\ Len(<<p>>) = 1 /\ <<p>>[1] = p
OBVIOUS

LEMMA Cases ==
  ASSUME NEW n \in Nat, NEW i \in 1 .. n + 5
  PROVE  \/ i = 1 \/ i = 2 \/ i = 3 \/ i = 4 \/ i = n + 5
         \/ \E j \in 1 .. n : i = j + 4
<1>1. i \in 5 .. n + 4 => i - 4 \in 1 .. n /\ i = (i - 4) + 4
  OBVIOUS
<1> QED
  BY <1>1

(* The tokens of a setting without its comment.                            *)
LEMMA SettingIs ==
  ASSUME NEW key \in UsedKeys, NEW value \in Seq(Words)
  PROVE  \E s : /\ s = <<key, " ", ":", " ">> \o value \o <<" ">>
                /\ s \in Seq(AllTokens) /\ Len(s) = Len(value) + 5 /\ Writes(s, key, value)
                /\ \A i \in 1 .. Len(s) : s[i] # "-"
<1> DEFINE first == <<key, " ", ":", " ">>
           last  == <<" ">>
<1>1. first \in Seq(AllTokens)
  <2>1. key \in AllTokens /\ " " \in AllTokens /\ ":" \in AllTokens
    BY TokensDiffer DEF AllTokens
  <2> QED
    BY <2>1, FourAre
<1>2. Len(first) = 4 /\ first[1] = key /\ first[2] = " " /\ first[3] = ":" /\ first[4] = " "
  OBVIOUS
<1>3. last \in Seq(AllTokens)
  <2>1. " " \in AllTokens
    BY DEF AllTokens
  <2> QED
    BY <2>1, OneIs
<1>4. Len(last) = 1 /\ last[1] = " "
  OBVIOUS
<1>5. value \in Seq(AllTokens)
  <2>1. Words \subseteq AllTokens
    BY DEF AllTokens
  <2> QED
    BY <2>1, SeqMonotonic
<1> HIDE DEF first, last
<1>0. PICK s : s = (first \o value) \o last
  OBVIOUS
<1>5a. s \in Seq(AllTokens) /\ IsParts(s, first, value, last)
  <2>1. first \in Seq(AllTokens) /\ last \in Seq(AllTokens) /\ Len(first) = 4 /\ Len(last) = 1
    BY <1>1, <1>2, <1>3, <1>4
  <2> QED
    BY <1>0, <1>5, <2>1, PartsAre, Zenon
<1>6. /\ Len(s) = Len(value) + 5 /\ Len(value) \in Nat
      /\ \A i \in 1 .. 4 : s[i] = first[i]
      /\ \A i \in 1 .. Len(value) : s[i + 4] = value[i]
      /\ s[Len(value) + 5] = last[1]
  BY <1>5a DEF IsParts
<1>7. 1 \in 1 .. 4 /\ 2 \in 1 .. 4 /\ 3 \in 1 .. 4 /\ 4 \in 1 .. 4
  OBVIOUS
<1>8. s[1] = key /\ s[2] = " " /\ s[3] = ":" /\ s[4] = " "
  BY <1>2, <1>6, <1>7
<1>9. Writes(s, key, value)
  BY <1>4, <1>6, <1>8 DEF Writes
<1>10. ASSUME NEW i \in 1 .. Len(s)
       PROVE  s[i] # "-"
  <2>1. CASE i = 1 \/ i = 2 \/ i = 3 \/ i = 4
    BY <1>8, <2>1, TokensDiffer
  <2>2. CASE \E j \in 1 .. Len(value) : i = j + 4
    <3>1. PICK j \in 1 .. Len(value) : i = j + 4
      BY <2>2
    <3>2. s[i] = value[j]
      BY <1>6, <3>1
    <3>3. value[j] \in Words
      BY <3>1, ElementOfSeq
    <3> QED
      BY <3>2, <3>3, TokensDiffer
  <2>3. CASE i = Len(value) + 5
    BY <1>4, <1>6, <2>3
  <2>4. i \in 1 .. Len(value) + 5
    BY <1>6
  <2> QED
    BY <1>6, <2>1, <2>2, <2>3, <2>4, Cases
<1>11. s = <<key, " ", ":", " ">> \o value \o <<" ">>
  BY <1>0 DEF first, last
<1> QED
  BY <1>5a, <1>6, <1>9, <1>10, <1>11

NoDash(tokens, n) == \A i \in 1 .. n : tokens[i] # "-"
DashAt(tokens, n) == n \in 1 .. Len(tokens) /\ tokens[n] = "-"

(* Copying stops before the first "-".                                     *)
LEMMA CopiedIs ==
  ASSUME NEW S, NEW tokens \in Seq(S), NEW n \in 0 .. Len(tokens), NoDash(tokens, n),
         n = Len(tokens) \/ DashAt(tokens, n + 1)
  PROVE  Copied(tokens) = Kept(tokens, n)
<1> DEFINE dashes == {i \in DOMAIN tokens : tokens[i] = "-"}
<1>1. DOMAIN tokens = 1 .. Len(tokens) /\ Len(tokens) \in Nat
  OBVIOUS
<1>2. Copied(tokens) = Kept(tokens, IF dashes = {} THEN Len(tokens) ELSE Min(dashes) - 1)
  BY DEF Copied
<1>3. \A i \in dashes : i \in 1 .. Len(tokens) /\ i \notin 1 .. n
  BY <1>1 DEF NoDash
<1>4. DashAt(tokens, n + 1) => n + 1 \in dashes
  BY <1>1 DEF DashAt
<1> HIDE DEF dashes
<1>5. CASE n = Len(tokens)
  <2>1. dashes = {}
    BY <1>3, <1>5
  <2> QED
    BY <1>2, <1>5, <2>1
<1>6. CASE DashAt(tokens, n + 1)
  <2>1. n + 1 \in dashes /\ dashes \subseteq Nat
    BY <1>3, <1>4, <1>6
  <2>2. Min(dashes) \in dashes /\ Min(dashes) <= n + 1
    BY <2>1, MinIsLeast
  <2>3. n < Min(dashes) /\ Min(dashes) \in Nat
    BY <1>3, <2>2
  <2>4. Min(dashes) - 1 = n
    BY <2>2, <2>3
  <2> QED
    BY <1>2, <2>1, <2>4
<1> QED
  BY <1>5, <1>6

(* What follows a setting does not change what it writes.                  *)
LEMMA WritesLonger ==
  ASSUME NEW key, NEW value, NEW s, Writes(s, key, value), Len(value) \in Nat,
         NEW tokens, \A i \in 1 .. Len(value) + 5 : tokens[i] = s[i]
  PROVE  Writes(tokens, key, value)
<1>1. /\ 1 \in 1 .. Len(value) + 5 /\ 2 \in 1 .. Len(value) + 5 /\ 3 \in 1 .. Len(value) + 5
      /\ 4 \in 1 .. Len(value) + 5 /\ Len(value) + 5 \in 1 .. Len(value) + 5
      /\ \A i \in 1 .. Len(value) : i + 4 \in 1 .. Len(value) + 5
  OBVIOUS
<1>2. tokens[1] = key /\ tokens[2] = " " /\ tokens[3] = ":" /\ tokens[4] = " "
  BY <1>1 DEF Writes
<1>3. \A i \in 1 .. Len(value) : tokens[i + 4] = value[i]
  BY <1>1 DEF Writes
<1>4. tokens[Len(value) + 5] = " "
  BY <1>1 DEF Writes
<1> QED
  BY <1>2, <1>3, <1>4 DEF Writes

LEMMA LineIs ==
  ASSUME NEW line \in Line, "key" \in DOMAIN line
  PROVE  line.key \in UsedKeys /\ line.value \in Seq(Words)
<1>1. line \in [key : UsedKeys, value : Values, comment : BOOLEAN]
  BY DEF Line
<1>2. PICK n \in 0 .. MaxWords : line.value \in [1 .. n -> Words]
  BY <1>1 DEF Values
<1>3. n \in Nat
  BY LinesAssumption
<1> QED
  BY <1>1, <1>2, <1>3

(* Of a line its setting is copied, and nothing of its comment.            *)
LEMMA CopiedSetting ==
  ASSUME NEW line \in Line, "key" \in DOMAIN line
  PROVE  Copied(Tokens(line)) = <<line.key, ":">> \o line.value
<1> DEFINE key == line.key
           value == line.value
<1>1. key \in UsedKeys /\ value \in Seq(Words)
  BY LineIs
<1>2. Tokens(line) = (<<key, " ", ":", " ">> \o value \o <<" ">>)
                       \o (IF line.comment THEN Comment ELSE <<>>)
  BY DEF Tokens
<1> HIDE DEF key, value
<1>3. PICK s : /\ s = <<key, " ", ":", " ">> \o value \o <<" ">>
               /\ s \in Seq(AllTokens) /\ Len(s) = Len(value) + 5 /\ Writes(s, key, value)
               /\ \A i \in 1 .. Len(s) : s[i] # "-"
  BY <1>1, SettingIs
<1>4. s \in Seq(AllTokens) /\ Len(s) = Len(value) + 5 /\ Writes(s, key, value) /\ NoDash(s, Len(s))
  BY <1>3 DEF NoDash
<1>5. Len(value) \in Nat /\ Len(s) \in Nat
  BY <1>1, <1>4
<1>6. PICK tokens : tokens = Tokens(line)
  OBVIOUS
<1>7. CASE line.comment
  <2>1. tokens = s \o Comment
    BY <1>2, <1>3, <1>6, <1>7
  <2>2. tokens \in Seq(AllTokens) /\ IsConcat(tokens, s, Comment)
    BY <1>4, <2>1, CommentIs, ConcatIsConcat, Zenon
  <2>3. /\ Len(tokens) = Len(s) + Len(Comment) /\ Len(Comment) \in Nat
        /\ \A i \in 1 .. Len(s) + Len(Comment) :
             tokens[i] = IF i <= Len(s) THEN s[i] ELSE Comment[i - Len(s)]
    BY <2>2 DEF IsConcat
  <2>4. ASSUME NEW i \in 1 .. Len(s)
        PROVE  tokens[i] = s[i]
    <3>1. i \in 1 .. Len(s) + Len(Comment) /\ i <= Len(s)
      BY <1>5, <2>3
    <3> QED
      BY <2>3, <3>1
  <2>5. DashAt(tokens, Len(s) + 1)
    <3>1. /\ Len(s) + 1 \in 1 .. Len(s) + Len(Comment) /\ ~ (Len(s) + 1 <= Len(s))
          /\ (Len(s) + 1) - Len(s) = 1
      BY <1>5, <2>3, CommentIs
    <3>2. tokens[Len(s) + 1] = Comment[(Len(s) + 1) - Len(s)]
      BY <2>3, <3>1
    <3> QED
      BY <2>3, <3>1, <3>2, CommentIs DEF DashAt
  <2>6. NoDash(tokens, Len(s)) /\ Len(s) \in 0 .. Len(tokens)
    <3>1. NoDash(tokens, Len(s))
      BY <1>4, <2>4 DEF NoDash
    <3> QED
      BY <1>5, <2>3, <3>1
  <2>7. Writes(tokens, key, value)
    BY <1>4, <1>5, <2>4, WritesLonger
  <2>8. Copied(tokens) = Kept(tokens, Len(s))
    BY <2>2, <2>5, <2>6, CopiedIs
  <2> QED
    BY <1>1, <1>4, <1>6, <2>7, <2>8, KeptSetting DEF key, value
<1>8. CASE ~ line.comment
  <2>1. tokens = s
    <3>1. tokens = s \o <<>>
      BY <1>2, <1>3, <1>6, <1>8
    <3> QED
      BY <1>4, <3>1, ConcatEmptySeq
  <2>2. Copied(tokens) = Kept(tokens, Len(s))
    <3>1. Len(s) \in 0 .. Len(s)
      BY <1>5
    <3> QED
      BY <1>4, <2>1, <3>1, CopiedIs
  <2> QED
    BY <1>1, <1>4, <1>6, <2>1, <2>2, KeptSetting DEF key, value
<1> QED
  BY <1>7, <1>8

LEMMA CopiedNothing ==
  ASSUME NEW line \in Line, "key" \notin DOMAIN line
  PROVE  Copied(Tokens(line)) = <<>>
<1>1. Tokens(line) = <<>> \o (IF line.comment THEN Comment ELSE <<>>)
  BY DEF Tokens
<1>2. ASSUME NEW tokens \in Seq(AllTokens), 0 = Len(tokens) \/ DashAt(tokens, 0 + 1)
      PROVE  Copied(tokens) = <<>>
  <2>1. 0 \in 0 .. Len(tokens) /\ NoDash(tokens, 0)
    BY DEF NoDash
  <2>2. Copied(tokens) = Kept(tokens, 0)
    BY <1>2, <2>1, CopiedIs
  <2> QED
    BY <2>2, KeptNext
<1>3. CASE line.comment
  <2>1. Tokens(line) = Comment
    BY <1>1, <1>3, CommentIs, ConcatEmptySeq
  <2>2. DashAt(Comment, 0 + 1)
    <3>1. 0 + 1 = 1
      OBVIOUS
    <3> QED
      BY <3>1, CommentIs DEF DashAt
  <2> QED
    BY <1>2, <2>1, <2>2, CommentIs
<1>4. CASE ~ line.comment
  <2>1. Tokens(line) = <<>> /\ <<>> \in Seq(AllTokens) /\ Len(<<>>) = 0
    BY <1>1, <1>4
  <2> QED
    BY <1>2, <2>1
<1> QED
  BY <1>3, <1>4

-----------------------------------------------------------------------------
(* The text of a setting: its key, ":" and its value.                      *)
IsText(text, key, value) ==
  /\ text \in Seq(AllTokens) /\ Len(text) = Len(value) + 2 /\ Len(value) \in Nat
  /\ text[1] = key /\ text[2] = ":"
  /\ \A i \in 1 .. Len(value) : text[i + 2] = value[i]

LEMMA SettingText ==
  ASSUME NEW key \in UsedKeys, NEW value \in Seq(Words), NEW text, text = <<key, ":">> \o value
  PROVE  IsText(text, key, value)
<1>1. key \in AllTokens /\ ":" \in AllTokens /\ Words \subseteq AllTokens
  BY TokensDiffer DEF AllTokens
<1>2. value \in Seq(AllTokens)
  BY <1>1, SeqMonotonic
<1> QED
  BY <1>1, <1>2, TextIs DEF IsText

(* A setting is what follows the colon, all of the value.                  *)
LEMMA AfterColonIs ==
  ASSUME NEW key \in UsedKeys, NEW value \in Seq(Words), NEW text, text = <<key, ":">> \o value
  PROVE  AfterColon(text) = value
<1> DEFINE colons == {i \in DOMAIN text : text[i] = ":"}
<1>1. /\ text \in Seq(AllTokens) /\ Len(text) = Len(value) + 2 /\ Len(value) \in Nat
      /\ text[1] = key /\ text[2] = ":"
      /\ \A i \in 1 .. Len(value) : text[i + 2] = value[i]
  <2>1. IsText(text, key, value)
    BY SettingText, Zenon
  <2> QED
    BY <2>1 DEF IsText
<1>2. DOMAIN text = 1 .. Len(value) + 2
  BY <1>1
<1>3. 2 \in colons
  BY <1>1, <1>2
<1>4. 1 \notin colons
  BY <1>1, TokensDiffer
<1>5. colons \subseteq 1 .. Len(value) + 2
  BY <1>2
<1>6. AfterColon(text) = IF colons = {} THEN text ELSE SubSeq(text, Min(colons) + 1, Len(text))
  BY DEF AfterColon
<1> HIDE DEF colons
<1>7. Min(colons) = 2
  <2>1. colons \subseteq Nat
    BY <1>5
  <2>2. Min(colons) \in colons /\ Min(colons) <= 2
    BY <1>3, <2>1, MinIsLeast
  <2>3. Min(colons) # 1 /\ Min(colons) \in 1 .. Len(value) + 2
    BY <1>4, <1>5, <2>2
  <2> QED
    BY <1>1, <2>2, <2>3
<1>8. AfterColon(text) = SubSeq(text, 3, Len(text))
  <2>1. colons # {} /\ Min(colons) + 1 = 3
    BY <1>3, <1>7
  <2> QED
    BY <1>6, <2>1
<1>9. ASSUME NEW rest, rest = SubSeq(text, 3, Len(text))
      PROVE  rest = value
  <2>1. 3 \in Int /\ Len(text) \in Int /\ \A i \in 3 .. Len(text) : text[i] \in AllTokens
    <3>1. \A i \in 3 .. Len(text) : i \in 1 .. Len(text)
      BY <1>1
    <3> QED
      BY <1>1, <3>1, ElementOfSeq
  <2>2. /\ rest \in Seq(AllTokens)
        /\ Len(rest) = IF 3 <= Len(text) THEN Len(text) - 3 + 1 ELSE 0
        /\ \A i \in 1 .. Len(text) - 3 + 1 : rest[i] = text[3 + i - 1]
    BY <1>9, <2>1, SubSeqProperties
  <2>3. Len(rest) = Len(value)
    BY <1>1, <2>2
  <2>4. ASSUME NEW i \in 1 .. Len(rest)
        PROVE  rest[i] = value[i]
    <3>1. i \in 1 .. Len(text) - 3 + 1 /\ 3 + i - 1 = i + 2 /\ i \in 1 .. Len(value)
      BY <1>1, <2>3
    <3> QED
      BY <1>1, <2>2, <3>1
  <2>5. value \in Seq(AllTokens)
    <3>1. Words \subseteq AllTokens
      BY DEF AllTokens
    <3> QED
      BY <3>1, SeqMonotonic
  <2> QED
    BY <2>2, <2>3, <2>4, <2>5, SeqEqual
<1> QED
  BY <1>8, <1>9

(* The setting found is the one of the key: no other is in the text.       *)
LEMMA SetIs ==
  ASSUME NEW key \in UsedKeys, NEW value \in Seq(Words), NEW text, text = <<key, ":">> \o value,
         NEW c
  PROVE  Set(c, text) = [c EXCEPT ![key] = [text |-> value, by |-> ConversionOf(key)]]
<1>1. \A k \in Keys : k \in ToSet(text) <=> k = key
  <2>1. /\ text \in Seq(AllTokens) /\ Len(text) = Len(value) + 2 /\ Len(value) \in Nat
        /\ text[1] = key /\ text[2] = ":"
        /\ \A i \in 1 .. Len(value) : text[i + 2] = value[i]
    <3>1. IsText(text, key, value)
      BY SettingText, Zenon
    <3> QED
      BY <3>1 DEF IsText
  <2>2. DOMAIN text = 1 .. Len(value) + 2
    BY <2>1
  <2>3. 1 \in DOMAIN text
    BY <2>1, <2>2
  <2>4. key \in ToSet(text)
    BY <2>1, <2>3 DEF ToSet
  <2>5. ASSUME NEW k \in Keys, k \in ToSet(text)
        PROVE  k = key
    <3>1. PICK i \in 1 .. Len(value) + 2 : k = text[i]
      BY <2>2, <2>5 DEF ToSet
    <3>2. i = 1 \/ i = 2 \/ (i - 2 \in 1 .. Len(value) /\ (i - 2) + 2 = i)
      BY <2>1, <3>1
    <3>3. i # 2
      BY <2>1, <2>5, <3>1, TokensDiffer
    <3>4. CASE i - 2 \in 1 .. Len(value) /\ (i - 2) + 2 = i
      <4>1. text[i] = value[i - 2] /\ value[i - 2] \in Words
        BY <2>1, <3>4, ElementOfSeq
      <4> QED
        BY <2>5, <3>1, <4>1, TokensDiffer
    <3> QED
      BY <2>1, <3>1, <3>2, <3>3, <3>4
  <2> QED
    BY <2>4, <2>5
<1>2. key \in Keys
  BY TokensDiffer
<1> DEFINE T == {j \in DOMAIN Fields : Fields[j] \in ToSet(text)}
<1>3. \A j \in T : Fields[j] = key
  BY <1>1 DEF Keys, ToSet
<1>4. T # {}
  BY <1>1, <1>2 DEF Keys, ToSet
<1>5. T \subseteq Nat
  <2>1. DOMAIN Fields = 1 .. 17
    BY DEF Fields
  <2> QED
    BY <2>1
<1>6. Keys \cap ToSet(text) # {}
  BY <1>1, <1>2
<1>7. Set(c, text) = [c EXCEPT ![Fields[Min(T)]] =
                       [text |-> AfterColon(text), by |-> ConversionOf(Fields[Min(T)])]]
  BY <1>6 DEF Set
<1> HIDE DEF T
<1>8. Fields[Min(T)] = key
  BY <1>3, <1>4, <1>5, MinIsLeast
<1> QED
  <2>1. AfterColon(text) = value
    BY AfterColonIs
  <2> QED
    BY <1>7, <1>8, <2>1, Zenon

(* Into a cleared buffer a line is copied as it is.                        *)
LEMMA CopyIs ==
  ASSUME NEW line \in Line
  PROVE  Copy(<<>>, Tokens(line)) = Copied(Tokens(line))
<1>1. PICK text : text = Copied(Tokens(line))
  OBVIOUS
<1>2. text \in Seq(AllTokens)
  <2>1. CASE "key" \in DOMAIN line
    <3>1. line.key \in UsedKeys /\ line.value \in Seq(Words)
      BY <2>1, LineIs
    <3>2. text = <<line.key, ":">> \o line.value
      BY <1>1, <2>1, CopiedSetting
    <3>3. IsText(text, line.key, line.value)
      BY <3>1, <3>2, SettingText, Zenon
    <3> QED
      BY <3>3 DEF IsText
  <2>2. CASE "key" \notin DOMAIN line
    <3>1. text = <<>>
      BY <1>1, <2>2, CopiedNothing
    <3> QED
      BY <3>1, EmptySeq
  <2> QED
    BY <2>1, <2>2
<1>3. SubSeq(<<>>, Len(text) + 1, Len(<<>>)) = <<>>
  <2>1. Len(text) + 1 \in Int /\ Len(<<>>) \in Int /\ Len(<<>>) < Len(text) + 1
    BY <1>2
  <2> QED
    BY <2>1, SubSeqEmpty
<1>4. text \o <<>> = text
  BY <1>2, ConcatEmptySeq
<1> QED
  BY <1>1, <1>3, <1>4 DEF Copy

-----------------------------------------------------------------------------
(* What is so between two lines: the file is one, no more lines were read  *)
(* than it has, the buffer is empty.                                       *)
Between ==
  /\ DOMAIN file = 1 .. Len(file) /\ Len(file) \in Nat
  /\ \A i \in 1 .. Len(file) : file[i] \in Line
  /\ at \in 0 .. Len(file)
  /\ transfer = <<>>
  /\ config = [key \in Keys |-> config[key]]

(* What the file says of a key up to its line n.                           *)
GivingUpTo(n, key) ==
  {i \in 1 .. n : "key" \in DOMAIN file[i] /\ file[i].key = key}

SettingUpTo(n, key) ==
  IF GivingUpTo(n, key) = {} THEN Default
  ELSE [text |-> file[Max(GivingUpTo(n, key))].value, by |-> ConversionOf(key)]

LEMMA LastLineWinsIs ==
  LastLineWins <=> \A key \in Keys : config[key] = SettingUpTo(at, key)
BY DEF LastLineWins, Giving, SettingUpTo, GivingUpTo

(* The last line read is the last that counts, if it gives the key.        *)
LEMMA SettingNext ==
  ASSUME NEW n \in Nat, NEW key
  PROVE  SettingUpTo(n + 1, key) =
           IF "key" \in DOMAIN file[n + 1] /\ file[n + 1].key = key
           THEN [text |-> file[n + 1].value, by |-> ConversionOf(key)]
           ELSE SettingUpTo(n, key)
<1>1. CASE "key" \in DOMAIN file[n + 1] /\ file[n + 1].key = key
  <2> DEFINE T == GivingUpTo(n + 1, key)
  <2>1. n + 1 \in T /\ \A i \in T : i \in Nat /\ i <= n + 1
    BY <1>1 DEF GivingUpTo
  <2>2. SettingUpTo(n + 1, key) =
          IF T = {} THEN Default ELSE [text |-> file[Max(T)].value, by |-> ConversionOf(key)]
    BY DEF SettingUpTo
  <2> HIDE DEF T
  <2>3. Max(T) = n + 1
    <3>1. n + 1 \in T /\ \A i \in T : n + 1 >= i
      BY <2>1
    <3>2. Max(T) \in T /\ \A i \in T : Max(T) >= i
      BY <3>1 DEF Max
    <3> QED
      BY <2>1, <3>1, <3>2
  <2> QED
    BY <1>1, <2>1, <2>2, <2>3
<1>2. CASE ~ ("key" \in DOMAIN file[n + 1] /\ file[n + 1].key = key)
  <2>1. GivingUpTo(n + 1, key) = GivingUpTo(n, key)
    <3>1. \A i : i \in 1 .. n + 1 <=> i \in 1 .. n \/ i = n + 1
      OBVIOUS
    <3> QED
      BY <1>2, <3>1 DEF GivingUpTo
  <2> QED
    BY <1>2, <2>1 DEF SettingUpTo
<1> QED
  BY <1>1, <1>2

LInv == Between /\ \A key \in Keys : config[key] = SettingUpTo(at, key)

LEMMA LInvInit ==
  Init => LInv
<1> SUFFICES ASSUME Init PROVE LInv
  OBVIOUS
<1>1. PICK n \in 0 .. MaxLines : file \in [1 .. n -> Line]
  BY DEF Init
<1>2. n \in Nat
  BY LinesAssumption
<1>3. Len(file) = n /\ DOMAIN file = 1 .. n /\ \A i \in 1 .. n : file[i] \in Line
  BY <1>1, <1>2
<1>4. at = 0 /\ transfer = <<>> /\ config = [key \in Keys |-> Default]
  BY DEF Init
<1>5. \A key \in Keys : GivingUpTo(at, key) = {}
  BY <1>4 DEF GivingUpTo
<1>6. Between
  BY <1>2, <1>3, <1>4 DEF Between
<1> QED
  BY <1>4, <1>5, <1>6 DEF LInv, SettingUpTo

LEMMA LInvNext ==
  LInv /\ [Next]_vars => LInv'
<1> SUFFICES ASSUME LInv, [Next]_vars PROVE LInv'
  OBVIOUS
<1>1. CASE UNCHANGED <<file, at, transfer, config>>
  BY <1>1 DEF LInv, Between, SettingUpTo, GivingUpTo
<1>2. CASE ReadLine
  <2> DEFINE line == file[at + 1]
             text == Copy(transfer, Tokens(line))
  <2>1. /\ at < Len(file) /\ at' = at + 1 /\ file' = file
        /\ text = <<>> => transfer' = transfer /\ config' = config
        /\ text # <<>> => transfer' = <<>> /\ config' = Set(config, text)
    BY <1>2 DEF ReadLine, HasLine
  <2>2. at \in Nat /\ at + 1 \in 1 .. Len(file) /\ line \in Line
    BY <2>1 DEF LInv, Between
  <2>3. text = Copied(Tokens(line))
    BY <2>2, CopyIs DEF LInv, Between
  <2>4. at' \in 0 .. Len(file) /\ transfer' = <<>>
    BY <2>1, <2>2 DEF LInv, Between
  <2>5. \A key : SettingUpTo(at, key)' = SettingUpTo(at + 1, key)
    BY <2>1 DEF SettingUpTo, GivingUpTo
  <2> HIDE DEF text
  <2>6. CASE "key" \in DOMAIN line
    <3> DEFINE k == line.key
               v == line.value
    <3>1. k \in UsedKeys /\ v \in Seq(Words)
      BY <2>2, <2>6, LineIs
    <3>2. text = <<k, ":">> \o v
      BY <2>2, <2>3, <2>6, CopiedSetting
    <3>3. text # <<>>
      <4>1. Len(text) = Len(v) + 2 /\ Len(v) \in Nat
        BY <3>1, <3>2, SettingText DEF IsText
      <4> QED
        BY <4>1
    <3>4. config' = [config EXCEPT ![k] = [text |-> v, by |-> ConversionOf(k)]]
      <4>1. config' = Set(config, text)
        BY <2>1, <3>3
      <4>2. Set(config, text) = [config EXCEPT ![k] = [text |-> v, by |-> ConversionOf(k)]]
        BY <3>1, <3>2, SetIs, Zenon
      <4> QED
        BY <4>1, <4>2
    <3>5. \A key : SettingUpTo(at + 1, key) =
                     IF k = key THEN [text |-> v, by |-> ConversionOf(key)]
                     ELSE SettingUpTo(at, key)
      BY <2>2, <2>6, SettingNext
    <3> HIDE DEF k, v
    <3>6. \A key \in Keys : config'[key] = SettingUpTo(at, key)'
      BY <2>5, <3>4, <3>5 DEF LInv, Between
    <3>7. config' = [key \in Keys |-> config'[key]]
      BY <3>4 DEF LInv, Between
    <3> QED
      BY <2>1, <2>4, <3>6, <3>7 DEF LInv, Between
  <2>7. CASE "key" \notin DOMAIN line
    <3>1. config' = config
      BY <2>1, <2>2, <2>3, <2>7, CopiedNothing
    <3>2. \A key : SettingUpTo(at + 1, key) = SettingUpTo(at, key)
      BY <2>2, <2>7, SettingNext
    <3>3. \A key \in Keys : config'[key] = SettingUpTo(at, key)'
      BY <2>5, <3>1, <3>2 DEF LInv
    <3> QED
      BY <2>1, <2>4, <3>1, <3>3 DEF LInv, Between
  <2> QED
    BY <2>6, <2>7
<1> QED
  BY <1>1, <1>2 DEF Next, Open, End, vars

(* Every setting is the value of the last line that gives it one, in every *)
(* file, whatever its lines, comments and values are.                      *)
THEOREM SettingsAreThoseOfTheLastLines == Spec => []LastLineWins
<1>1. LInv => LastLineWins
  BY LastLineWinsIs DEF LInv
<1> QED
  BY <1>1, LInvInit, LInvNext, PTL DEF Spec
=============================================================================
