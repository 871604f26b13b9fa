-------------------------- MODULE MessagePathProofs --------------------------
(***************************************************************************)
(* Proofs about a message's way from the network to the paper: that Hoppie's *)
(* replies are read as they were written, for any messages (HoppieWire); that *)
(* a strip has every letter in its place and fits, for any line            *)
(* (TicketLayout); that the station polls, and a request of the phone prints *)
(* one reply, for any number of threads, messages and requests             *)
(* (OutboundRequests).                                                     *)
(***************************************************************************)
EXTENDS OutboundRequests, HoppieWire, TicketLayout, SequenceLemmas

-----------------------------------------------------------------------------
(* The scan of a reply for its blocks.                                     *)

\* The states of a scan.
Scans == [ok : BOOLEAN, depth : Nat, block : Seq(Marks), blocks : Seq(Seq(Marks))]

\* A brace counts one up or down, any other mark nothing.
LEMMA BraceIs ==
  /\ Brace("{") = 1 /\ Brace("}") = -1
  /\ \A mark : mark \notin {"{", "}"} => Brace(mark) = 0
  /\ \A mark : Brace(mark) \in Int /\ Brace(mark) + 1 \in Nat /\ (mark # "}" => Brace(mark) \in Nat)
<1>1. Brace("{") = 1 /\ Brace("}") = -1
  BY DEF Brace
<1>2. \A mark : mark \notin {"{", "}"} => Brace(mark) = 0
  BY DEF Brace
<1>3. ASSUME NEW mark
      PROVE  Brace(mark) \in Int /\ Brace(mark) + 1 \in Nat /\ (mark # "}" => Brace(mark) \in Nat)
  <2>1. CASE mark = "{"
    <3>1. Brace(mark) = 1
      BY <1>1, <2>1
    <3>2. QED BY <3>1
  <2>2. CASE mark = "}"
    <3>1. Brace(mark) = -1
      BY <1>1, <2>2
    <3>2. \A b : b = -1 => b \in Int /\ b + 1 \in Nat
      OBVIOUS
    <3>3. QED BY <2>2, <3>1, <3>2, Zenon
  <2>3. CASE mark \notin {"{", "}"}
    <3>1. Brace(mark) = 0
      BY <1>2, <2>3
    <3>2. QED BY <3>1
  <2>4. QED BY <2>1, <2>2, <2>3
<1>4. QED BY <1>1, <1>2, <1>3

\* A mark keeps the type of the scan.
LEMMA ScanMarkType ==
  ASSUME NEW scan \in Scans, NEW mark \in Marks
  PROVE  ScanMark(scan, mark) \in Scans
<1>1. Brace(mark) \in Int /\ (mark # "}" => Brace(mark) \in Nat) /\ Brace(mark) + 1 \in Nat
  BY BraceIs
<1>2. scan.depth \in Nat /\ Append(scan.block, mark) \in Seq(Marks) /\ <<>> \in Seq(Marks)
      /\ Append(scan.blocks, scan.block) \in Seq(Seq(Marks))
  BY DEF Scans
<1>3. scan.depth # 0 /\ ~(scan.depth = 1 /\ mark = "}") => scan.depth + Brace(mark) \in Nat
  <2>1. ASSUME NEW d \in Nat, NEW b \in Int, b + 1 \in Nat, d # 0, d # 1 \/ b \in Nat
        PROVE  d + b \in Nat
    BY <2>1
  <2>2. QED BY <1>1, <1>2, <2>1
<1>4. QED BY <1>2, <1>3 DEF Scans, ScanMark

\* The scan of a text takes its marks one by one.
LEMMA ScanIs ==
  ASSUME NEW text \in Seq(Marks)
  PROVE  \E g \in [0..Len(text) -> Scans] :
            /\ g[0] = ScanStart /\ \A i \in 1..Len(text) : g[i] = ScanMark(g[i - 1], text[i])
            /\ Scan(text) = g[Len(text)]
<1> DEFINE n == Len(text)
           step == [i \in 1..n |-> [r \in Scans |-> ScanMark(r, text[i])]]
           Is(f) == f = [i \in 0..n |-> IF i = 0 THEN ScanStart ELSE ScanMark(f[i - 1], text[i])]
           c == CHOOSE f : Is(f)
<1>1. n \in Nat /\ \A i \in 1..n : text[i] \in Marks
  OBVIOUS
<1>2. step \in [1..n -> [Scans -> Scans]]
  BY <1>1, ScanMarkType
<1>3. ScanStart \in Scans
  BY DEF ScanStart, Scans
<1>4. PICK g \in [0..n -> Scans] : g[0] = ScanStart /\ \A i \in 1..n : g[i] = step[i][g[i - 1]]
  <2> HIDE DEF step, n
  <2>1. \E g : g \in FoldOf(n, Scans, ScanStart, step)
    BY <1>1, <1>2, <1>3, FoldExists
  <2>2. QED BY <2>1 DEF FoldOf
<1>5. ASSUME NEW i \in 1..n PROVE g[i] = ScanMark(g[i - 1], text[i])
  <2>1. i - 1 \in 0..n
    BY <1>1
  <2>2. g[i - 1] \in Scans
    BY <2>1
  <2>3. g[i] = step[i][g[i - 1]]
    BY <1>4
  <2>4. QED BY <2>2, <2>3
<1>6. Is(g)
  <2> HIDE DEF n
  <2>1. \A i \in 0..n : g[i] = IF i = 0 THEN ScanStart ELSE ScanMark(g[i - 1], text[i])
    BY <1>1, <1>4, <1>5
  <2>2. QED BY <2>1
<1>7. Is(c)
  <2> HIDE DEF Is
  <2> QED BY <1>6
<1>8. Scan(text) = c[n]
  BY Zenon DEF Scan
<1> HIDE DEF c
<1>9. StepAlike(n, g, c)
  <2>1. c[0] = ScanStart
    BY <1>1, <1>7
  <2>2. \A i \in 1..n : c[i] = ScanMark(c[i - 1], text[i])
    BY <1>1, <1>7
  <2>3. QED BY <1>4, <1>5, <2>1, <2>2 DEF StepAlike
<1>10. g[n] = c[n]
  <2> HIDE DEF n
  <2> QED BY <1>1, <1>9, FoldsAgree
<1>11. QED BY <1>4, <1>5, <1>8, <1>10

\* No mark leaves the scan at its start.
LEMMA ScanEmpty == Scan(<<>>) = ScanStart
<1>1. <<>> \in Seq(Marks) /\ Len(<<>>) = 0
  OBVIOUS
<1>2. QED BY <1>1, ScanIs

\* A further mark is taken last.
LEMMA ScanAppend ==
  ASSUME NEW text \in Seq(Marks), NEW mark \in Marks
  PROVE  Scan(text) \in Scans /\ Scan(Append(text, mark)) = ScanMark(Scan(text), mark)
<1> DEFINE n == Len(text)
           more == Append(text, mark)
<1>1. n \in Nat /\ more \in Seq(Marks) /\ Len(more) = n + 1 /\ more[n + 1] = mark
      /\ \A i \in 1..n : more[i] = text[i]
  OBVIOUS
<1>2. PICK g \in [0..Len(text) -> Scans] :
        /\ g[0] = ScanStart /\ \A i \in 1..Len(text) : g[i] = ScanMark(g[i - 1], text[i])
        /\ Scan(text) = g[Len(text)]
  BY ScanIs
<1> HIDE DEF more
<1>3. PICK h \in [0..Len(more) -> Scans] :
        /\ h[0] = ScanStart /\ \A i \in 1..Len(more) : h[i] = ScanMark(h[i - 1], more[i])
        /\ Scan(more) = h[Len(more)]
  BY <1>1, ScanIs
<1>4. \A i \in 1..n : i \in 1..Len(more)
  BY <1>1
<1>5. StepAlike(n, g, h)
  BY <1>1, <1>2, <1>3, <1>4 DEF StepAlike
<1>6. g[n] = h[n]
  BY <1>1, <1>5, FoldsAgree
<1>7. n + 1 \in 1..Len(more) /\ (n + 1) - 1 = n /\ n \in 0..n
  BY <1>1
<1>8. Scan(more) = ScanMark(h[n], mark)
  BY <1>1, <1>3, <1>7
<1>9. Scan(text) = g[n] /\ g[n] \in Scans
  BY <1>2, <1>7
<1>10. QED BY <1>6, <1>8, <1>9 DEF more

\* The depth of a text sums up its braces.
LEMMA DepthIs ==
  ASSUME NEW text \in Seq(Marks)
  PROVE  /\ Depth(text) \in [0..Len(text) -> Int] /\ Depth(text)[0] = 0
         /\ \A i \in 1..Len(text) : Depth(text)[i] = Depth(text)[i - 1] + Brace(text[i])
<1> DEFINE n == Len(text)
           step == [i \in 1..n |-> [r \in Int |-> r + Brace(text[i])]]
           Is(f) == f = [i \in 0..n |-> IF i = 0 THEN 0 ELSE f[i - 1] + Brace(text[i])]
           c == CHOOSE f : Is(f)
<1>1. n \in Nat /\ \A i \in 1..n : Brace(text[i]) \in Int
  <2>1. n \in Nat
    OBVIOUS
  <2>2. QED BY <2>1, BraceIs
<1>2. step \in [1..n -> [Int -> Int]]
  <2> HIDE DEF n
  <2> QED BY <1>1
<1>3. PICK g \in [0..n -> Int] : g[0] = 0 /\ \A i \in 1..n : g[i] = step[i][g[i - 1]]
  <2> HIDE DEF step, n
  <2>1. 0 \in Int
    OBVIOUS
  <2>2. \E g : g \in FoldOf(n, Int, 0, step)
    BY <1>1, <1>2, <2>1, FoldExists
  <2>3. QED BY <2>2 DEF FoldOf
<1>4. ASSUME NEW i \in 1..n PROVE g[i] = g[i - 1] + Brace(text[i])
  <2>1. i - 1 \in 0..n
    BY <1>1
  <2>2. g[i - 1] \in Int
    BY <2>1
  <2>3. g[i] = step[i][g[i - 1]]
    BY <1>3
  <2>4. QED BY <2>2, <2>3
<1>5. Is(g)
  <2> HIDE DEF n
  <2>1. \A i \in 0..n : g[i] = IF i = 0 THEN 0 ELSE g[i - 1] + Brace(text[i])
    BY <1>1, <1>3, <1>4
  <2>2. QED BY <2>1
<1>6. Is(c)
  <2> HIDE DEF Is
  <2> QED BY <1>5
<1>7. Depth(text) = c
  BY Zenon DEF Depth
<1> HIDE DEF c
<1>8. \A i \in 1..n : c[i] = c[i - 1] + Brace(text[i])
  BY <1>1, <1>6
<1>9. c[0] = 0 /\ c = [i \in 0..n |-> c[i]]
  BY <1>1, <1>6
<1>10. ASSUME NEW k \in 0..n PROVE c[k] \in Int
  <2> DEFINE Q == {i \in 0..n : c[i] \in Int}
  <2>1. 0 \in Q
    BY <1>1, <1>9
  <2>2. ASSUME NEW m \in 0..(n - 1), m \in Q PROVE m + 1 \in Q
    <3>1. m + 1 \in 1..n /\ (m + 1) - 1 = m /\ m + 1 \in 0..n
      BY <1>1
    <3>2. QED BY <1>1, <1>8, <2>2, <3>1
  <2>3. \A m \in 0..n : m \in Q
    <3> HIDE DEF Q, n
    <3> QED BY <1>1, <2>1, <2>2, UpTo
  <2>4. QED BY <2>3
<1>11. QED BY <1>7, <1>8, <1>9, <1>10

\* The type of a scan.
LEMMA ScanType ==
  ASSUME NEW text \in Seq(Marks)
  PROVE  Scan(text) \in Scans
<1>1. PICK g \in [0..Len(text) -> Scans] :
        /\ g[0] = ScanStart /\ \A i \in 1..Len(text) : g[i] = ScanMark(g[i - 1], text[i])
        /\ Scan(text) = g[Len(text)]
  BY ScanIs
<1>2. Len(text) \in 0..Len(text)
  OBVIOUS
<1>3. QED BY <1>1, <1>2

-----------------------------------------------------------------------------
(* The scan, by its depth.                                                 *)

\* A state of the scan, by its parts.
ScanAt(ok, depth, block, blocks) ==
  [ok |-> ok, depth |-> depth, block |-> block, blocks |-> blocks]

\* A scan and its parts.
LEMMA AtIs ==
  /\ \A scan \in Scans : /\ scan = ScanAt(scan.ok, scan.depth, scan.block, scan.blocks)
                        /\ scan.ok \in BOOLEAN /\ scan.depth \in Nat
                        /\ scan.block \in Seq(Marks) /\ scan.blocks \in Seq(Seq(Marks))
  /\ \A ok, depth, block, blocks :
       LET scan == ScanAt(ok, depth, block, blocks) IN
       /\ scan.ok = ok /\ scan.depth = depth /\ scan.block = block /\ scan.blocks = blocks
BY DEF ScanAt, Scans

\* At depth 0 a brace opens a block.
LEMMA MarkOpens ==
  ASSUME NEW ok, NEW block, NEW blocks
  PROVE  ScanMark(ScanAt(ok, 0, block, blocks), "{") = ScanAt(ok, 1, <<>>, blocks)
BY DEF ScanMark, ScanAt

\* At depth 1 a closing brace ends the block.
LEMMA MarkCloses ==
  ASSUME NEW ok, NEW block, NEW blocks
  PROVE  ScanMark(ScanAt(ok, 1, block, blocks), "}") = ScanAt(ok, 0, block, Append(blocks, block))
<1> DEFINE scan == ScanAt(ok, 1, block, blocks)
<1>1. scan.depth = 1 /\ scan.block = block /\ 1 # 0
  BY DEF ScanAt
<1>2. ScanMark(scan, "}") = [scan EXCEPT !.depth = 0, !.blocks = Append(@, block)]
  <2> HIDE DEF scan
  <2> QED BY <1>1 DEF ScanMark
<1>3. QED BY <1>2 DEF ScanAt

\* The state after a mark that is part of the block.
Inside(ok, depth, block, blocks, mark) ==
  ScanAt(ok, depth + Brace(mark), Append(block, mark), blocks)

\* Any other mark in a block is part of it.
LEMMA MarkInside ==
  ASSUME NEW ok, NEW depth, NEW block, NEW blocks, NEW mark,
         depth # 0, depth # 1 \/ mark # "}"
  PROVE  ScanMark(ScanAt(ok, depth, block, blocks), mark)
           = Inside(ok, depth, block, blocks, mark)
BY DEF ScanMark, ScanAt, Inside

\* A balanced body is part of the block it stands in.
LEMMA ScanBody ==
  ASSUME NEW text \in Seq(Marks), NEW body \in Seq(Marks), Balanced(body),
         NEW ok, NEW block \in Seq(Marks), NEW blocks,
         Scan(text) = ScanAt(ok, 2, block, blocks)
  PROVE  Scan(text \o body) = ScanAt(ok, 2, block \o body, blocks)
<1> DEFINE n == Len(body)
           d == Depth(body)
           After(m) == ScanAt(ok, 2 + d[m], block \o SubSeq(body, 1, m), blocks)
           Q == {m \in 0..n : Scan(text \o SubSeq(body, 1, m)) = After(m)}
<1>1. n \in Nat /\ body \in Seq(Marks) /\ DOMAIN body = 1..n
  OBVIOUS
<1>2. /\ d \in [0..n -> Int] /\ d[0] = 0 /\ d[n] = 0
      /\ \A i \in 1..n : d[i] = d[i - 1] + Brace(body[i])
      /\ \A i \in 1..n : d[i] >= 0
  <2>1. d[n] = 0 /\ \A i \in DOMAIN body : d[i] >= 0
    BY DEF Balanced
  <2>2. d \in [0..n -> Int] /\ d[0] = 0 /\ \A i \in 1..n : d[i] = d[i - 1] + Brace(body[i])
    BY <1>1, DepthIs
  <2> HIDE DEF d
  <2>3. QED BY <1>1, <2>1, <2>2
<1>3. 0 \in Q
  <2>1. SubSeq(body, 1, 0) = <<>> /\ text \o <<>> = text /\ block \o <<>> = block
    OBVIOUS
  <2>2. 2 + d[0] = 2 /\ 0 \in 0..n
    <3> HIDE DEF d
    <3> QED BY <1>1, <1>2
  <2> HIDE DEF d, n
  <2>3. QED BY <2>1, <2>2
<1>4. ASSUME NEW m \in 0..(n - 1), m \in Q PROVE m + 1 \in Q
  <2> DEFINE pre == SubSeq(body, 1, m)
             mark == body[m + 1]
  <2>1. pre \in Seq(Marks) /\ mark \in Marks /\ m + 1 \in 1..n
        /\ SubSeq(body, 1, m + 1) = Append(pre, mark)
    BY <1>1
  <2>2. text \o Append(pre, mark) = Append(text \o pre, mark) /\ text \o pre \in Seq(Marks)
        /\ block \o Append(pre, mark) = Append(block \o pre, mark)
    <3> HIDE DEF pre, mark
    <3> QED BY <2>1, AppendLater, SMTT(30)
  <2>3. Scan(text \o pre) = After(m)
    BY <1>4
  <2>4. Scan(Append(text \o pre, mark)) = ScanMark(After(m), mark)
    <3> HIDE DEF After, pre, mark
    <3> QED BY <2>1, <2>2, <2>3, ScanAppend
  <2>5. d[m] \in Int /\ d[m] >= 0 /\ d[m + 1] = d[m] + Brace(mark)
    <3>1. m \in 0..n /\ (m + 1) - 1 = m /\ (m = 0 \/ m \in 1..n)
      BY <1>1
    <3> HIDE DEF d, n
    <3>2. d[m] \in Int /\ d[m] >= 0
      BY <1>2, <3>1
    <3>3. d[m + 1] = d[(m + 1) - 1] + Brace(mark)
      BY <1>2, <2>1
    <3>4. QED BY <3>1, <3>2, <3>3
  <2>6. ScanMark(After(m), mark)
          = ScanAt(ok, (2 + d[m]) + Brace(mark), Append(block \o pre, mark), blocks)
    <3>1. After(m) = ScanAt(ok, 2 + d[m], block \o pre, blocks)
      OBVIOUS
    <3> HIDE DEF d, pre, mark, After
    <3>2. 2 + d[m] # 0 /\ 2 + d[m] # 1
      BY <2>5
    <3>3. ScanMark(ScanAt(ok, 2 + d[m], block \o pre, blocks), mark)
            = Inside(ok, 2 + d[m], block \o pre, blocks, mark)
      BY <3>2, MarkInside
    <3>4. QED BY <3>1, <3>3, Zenon DEF Inside
  <2>7. (2 + d[m]) + Brace(mark) = 2 + d[m + 1]
    <3> HIDE DEF d, mark
    <3>1. Brace(mark) \in Int
      BY BraceIs
    <3>2. QED BY <2>5, <3>1
  <2>8. m + 1 \in 0..n
    BY <1>1
  <2> HIDE DEF d, pre, mark, n
  <2>9. Scan(text \o Append(pre, mark)) = ScanAt(ok, 2 + d[m + 1], block \o Append(pre, mark), blocks)
    BY <2>2, <2>4, <2>6, <2>7
  <2>10. QED BY <2>1, <2>8, <2>9
<1>5. Scan(text \o SubSeq(body, 1, n)) = After(n)
  <2>1. \A m \in 0..n : m \in Q
    <3> HIDE DEF Q, n
    <3> QED BY <1>1, <1>3, <1>4, UpTo
  <2>2. n \in 0..n
    BY <1>1
  <2>3. QED BY <2>1, <2>2
<1>6. SubSeq(body, 1, n) = body /\ 2 + 0 = 2
  OBVIOUS
<1> HIDE DEF d, n
<1>7. QED BY <1>2, <1>5, <1>6

\* A block without its outer braces.
BlockText(m) == m.id \o <<m.sender, m.type, "{">> \o m.body \o <<"}">>

-----------------------------------------------------------------------------
(* A block as the network writes it.                                       *)

\* A block may start with a number.
Numbers(id, n) == id = <<>> \/ id = <<n>>
Ids == {<<>>, <<Digits>>}

\* The parts of a message, and that senders, types and marks differ.
LEMMA MessageType ==
  /\ \A m \in Message : /\ m.id \in Ids /\ m.sender \in Sender /\ m.type \in Type
                        /\ m.body \in Seq(Marks)
                        /\ m.sender \notin Type \cup Mark /\ m.type \notin Mark
  /\ Sender \subseteq Marks /\ Type \subseteq Marks /\ Mark \subseteq Marks
  /\ "{" \in Mark /\ "}" \in Mark /\ Digits \in Mark
<1>1. Type \cap Mark = {} /\ "{" \in Mark /\ "}" \in Mark /\ Digits \in Mark
  BY DEF Type, Mark, Digits
<1>2. ASSUME NEW m \in Message
      PROVE  m.id \in Ids /\ m.sender \in Sender /\ m.type \in Type /\ m.body \in Seq(Marks)
  BY WireAssumption DEF Message, Ids
<1>3. Sender \subseteq Marks /\ Type \subseteq Marks /\ Mark \subseteq Marks
  BY DEF Marks
<1>4. ASSUME NEW m \in Message
      PROVE  m.sender \notin Type \cup Mark /\ m.type \notin Mark
  BY <1>1, <1>2, WireAssumption
<1>5. QED BY <1>1, <1>2, <1>3, <1>4

\* The braces.
OpenMark(l) == l = "{"
CloseMark(r) == r = "}"

\* A mark inside a block that does not end it, after a text.
LEMMA MarkMore ==
  ASSUME NEW text \in Seq(Marks), NEW mark \in Marks, NEW ok, NEW depth, NEW block, NEW blocks,
         depth # 0, depth # 1 \/ ~CloseMark(mark),
         Scan(text) = ScanAt(ok, depth, block, blocks)
  PROVE  /\ Append(text, mark) \in Seq(Marks)
         /\ Scan(Append(text, mark)) = Inside(ok, depth, block, blocks, mark)
<1>1. Append(text, mark) \in Seq(Marks)
  BY AppendType
<1>2. Scan(Append(text, mark)) = ScanMark(Scan(text), mark)
  BY ScanAppend
<1>3. ScanMark(ScanAt(ok, depth, block, blocks), mark) = Inside(ok, depth, block, blocks, mark)
  BY MarkInside DEF CloseMark
<1>4. QED BY <1>1, <1>2, <1>3

\* A block of a number id, the marks a and b and a body.
Wrapped(id, l, a, b, body, r) == <<l>> \o id \o <<a, b, l>> \o body \o <<r, r>>
Wholly(id, l, a, b, body, r) == id \o <<a, b, l>> \o body \o <<r>>

\* Three texts one after the other, joined from the left or from the right.
Left(a, b, c) == (a \o b) \o c
Right(a, b, c) == a \o (b \o c)

\* It makes no difference.
LEMMA LeftIsRight ==
  ASSUME NEW S, NEW a \in Seq(S), NEW b \in Seq(S), NEW c \in Seq(S)
  PROVE  /\ Left(a, b, c) = Right(a, b, c) /\ Left(a, b, c) \in Seq(S)
         /\ b \o c \in Seq(S) /\ a \o b \in Seq(S)
<1>1. (a \o b) \o c = a \o (b \o c)
  BY ConcatAssoc
<1>2. a \o b \in Seq(S) /\ b \o c \in Seq(S)
  OBVIOUS
<1> DEFINE ab == a \o b
<1>3. ab \in Seq(S)
  BY <1>2
<1> HIDE DEF ab
<1>4. ab \o c \in Seq(S)
  BY <1>3
<1>5. QED BY <1>1, <1>2, <1>4 DEF Left, Right, ab

\* The head of the block, appended mark by mark, and the rest of it.
Headed(id, l, a, b) == Append(Append(Append(id, a), b), l)
Inner(id, l, a, b, body) == Headed(id, l, a, b) \o body
Begun(text, id, l, a, b) == Append(Append(Append(Append(text, l) \o id, a), b), l)
Ended(s, r) == Append(Append(s, r), r)
More(s, e) == Append(s, e)

\* What the head is, from its parts.
HeadWritten(S, text, id, l, a, b) ==
  /\ id \in Seq(S) /\ Headed(id, l, a, b) \in Seq(S) /\ <<l>> \o id \o <<a, b, l>> \in Seq(S)
  /\ id \o <<a, b, l>> = Headed(id, l, a, b)
  /\ text \o (<<l>> \o id \o <<a, b, l>>) = Begun(text, id, l, a, b)
  /\ Begun(text, id, l, a, b) \in Seq(S)

\* The marks of the head, one by one.
LEMMA HeadIsWritten ==
  ASSUME NEW S, NEW text \in Seq(S), NEW l \in S, NEW a \in S, NEW b \in S,
         NEW n \in S, NEW id, Numbers(id, n)
  PROVE  HeadWritten(S, text, id, l, a, b)
<1> DEFINE t0 == Append(text, l)
           tail == <<a, b, l>>
           first == <<l>>
<1>1. id \in Seq(S) /\ Append(text, l) = text \o <<l>>
  <2>1. <<>> \in Seq(S) /\ <<n>> \in Seq(S)
    OBVIOUS
  <2>2. Append(text, l) = text \o <<l>>
    OBVIOUS
  <2>3. QED BY <2>1, <2>2, Zenon DEF Numbers
<1>2. t0 \in Seq(S) /\ tail \in Seq(S) /\ first \in Seq(S)
  OBVIOUS
<1>3. t0 = text \o first
  BY <1>1
<1>4. \A u \in Seq(S) : u \o <<a, b, l>> = Append(Append(Append(u, a), b), l)
  OBVIOUS
<1>5. \A u \in Seq(S) : u \o tail = Append(Append(Append(u, a), b), l)
  BY <1>4
<1> HIDE DEF t0, tail, first
<1> DEFINE ti == t0 \o id
           li == first \o id
<1>6. ti \in Seq(S) /\ li \in Seq(S)
  BY <1>1, <1>2
<1>7. ti = text \o li
  <2>1. Left(text, first, id) = Right(text, first, id)
    BY <1>1, <1>2, LeftIsRight
  <2>2. QED BY <1>3, <2>1 DEF Left, Right, ti, li
<1> HIDE DEF ti, li
<1>8. id \o tail = Headed(id, l, a, b) /\ id \o tail \in Seq(S)
  BY <1>1, <1>2, <1>5 DEF Headed
<1>9. li \o tail \in Seq(S) /\ text \o (li \o tail) = (text \o li) \o tail
  <2>1. Left(text, li, tail) = Right(text, li, tail) /\ li \o tail \in Seq(S)
    BY <1>2, <1>6, LeftIsRight
  <2>2. QED BY <2>1 DEF Left, Right
<1>10. ti \o tail = Append(Append(Append(ti, a), b), l) /\ ti \o tail \in Seq(S)
  <2>1. ti \o tail = Append(Append(Append(ti, a), b), l)
    BY <1>5, <1>6, Zenon
  <2>2. ti \o tail \in Seq(S)
    BY <1>2, <1>6, LeftIsRight
  <2>3. QED BY <2>1, <2>2
<1>11. text \o (li \o tail) = Begun(text, id, l, a, b)
  BY <1>7, <1>9, <1>10 DEF Begun, ti, t0
<1>12. Begun(text, id, l, a, b) \in Seq(S)
  BY <1>10 DEF Begun, ti, t0
<1>13. QED BY <1>1, <1>8, <1>9, <1>11, <1>12, Zenon DEF HeadWritten, li, first, tail

\* What the block is, from its parts.
WrapWritten(S, text, id, l, a, b, body, r) ==
  /\ text \o Wrapped(id, l, a, b, body, r) = Ended(Begun(text, id, l, a, b) \o body, r)
  /\ Wrapped(id, l, a, b, body, r) \in Seq(S)
  /\ Inner(id, l, a, b, body) \in Seq(S)
  /\ More(Inner(id, l, a, b, body), r) = Wholly(id, l, a, b, body, r)
  /\ Wholly(id, l, a, b, body, r) \in Seq(S)

\* The marks of a wrapped body, one by one.
LEMMA WrappedIs ==
  ASSUME NEW S, NEW text \in Seq(S), NEW l \in S, NEW a \in S, NEW b \in S, NEW r \in S,
         NEW body \in Seq(S), NEW n \in S, NEW id, Numbers(id, n)
  PROVE  WrapWritten(S, text, id, l, a, b, body, r)
<1> DEFINE head == <<l>> \o id \o <<a, b, l>>
           tail == <<r, r>>
           begun == Begun(text, id, l, a, b)
           headed == Headed(id, l, a, b)
<1>1. /\ head \in Seq(S) /\ tail \in Seq(S) /\ begun \in Seq(S) /\ headed \in Seq(S)
      /\ text \o head = begun /\ id \o <<a, b, l>> = headed
  <2>1. tail \in Seq(S)
    OBVIOUS
  <2>2. HeadWritten(S, text, id, l, a, b)
    BY HeadIsWritten
  <2>3. QED BY <2>1, <2>2, Zenon DEF HeadWritten
<1>2. Wrapped(id, l, a, b, body, r) = (head \o body) \o tail
  BY DEF Wrapped
<1>3. Wholly(id, l, a, b, body, r) = (headed \o body) \o <<r>> /\ Inner(id, l, a, b, body) = headed \o body
  BY <1>1 DEF Wholly, Inner
<1> HIDE DEF head, begun, headed
<1> DEFINE hb == head \o body
           bb == begun \o body
           inner == headed \o body
<1>4. hb \in Seq(S) /\ bb \in Seq(S) /\ inner \in Seq(S)
  BY <1>1
<1>5. text \o hb = bb
  <2>1. Left(text, head, body) = Right(text, head, body)
    BY <1>1, LeftIsRight
  <2>2. QED BY <1>1, <2>1 DEF Left, Right, hb, bb
<1> HIDE DEF hb, bb, inner
<1>6. text \o (hb \o tail) = bb \o tail /\ hb \o tail \in Seq(S)
  <2>1. text \o (hb \o tail) = (text \o hb) \o tail
    <3> HIDE DEF tail
    <3>1. Left(text, hb, tail) = Right(text, hb, tail)
      BY <1>1, <1>4, LeftIsRight
    <3>2. QED BY <3>1 DEF Left, Right
  <2>2. hb \o tail \in Seq(S)
    BY <1>1, <1>4
  <2>3. QED BY <1>5, <2>1, <2>2
<1>7. bb \o tail = Append(Append(bb, r), r)
  BY <1>4
<1>8. inner \o <<r>> = Append(inner, r) /\ Append(inner, r) \in Seq(S)
  BY <1>4
<1>9. text \o Wrapped(id, l, a, b, body, r) = Ended(bb, r)
  BY <1>2, <1>6, <1>7, Zenon DEF hb, Ended
<1>10. Wrapped(id, l, a, b, body, r) \in Seq(S)
  BY <1>2, <1>6 DEF hb
<1>11. Inner(id, l, a, b, body) = inner /\ Wholly(id, l, a, b, body, r) = inner \o <<r>>
  BY <1>3 DEF inner
<1>12. QED BY <1>4, <1>8, <1>9, <1>10, <1>11, Zenon DEF WrapWritten, bb, begun, More

\* What the marks of a block are to the scan.
LEMMA MarksAre ==
  /\ \A l : OpenMark(l) => /\ Brace(l) = 1 /\ l \in Mark /\ l \in Marks /\ ~CloseMark(l)
  /\ \A r : CloseMark(r) => Brace(r) + 1 = 0 /\ 2 + Brace(r) = 1 /\ r \in Mark /\ r \in Marks
  /\ \A a : a \notin Mark => ~CloseMark(a) /\ Brace(a) = 0 /\ 1 + Brace(a) = 1
  /\ Mark \subseteq Marks
<1>1. \A b : b = -1 => 2 + b = 1 /\ b + 1 = 0
  OBVIOUS
<1>2. "{" \in Mark /\ "}" \in Mark /\ Mark \subseteq Marks
  BY MessageType
<1>3. \A r : CloseMark(r) => Brace(r) = -1 /\ r \in Mark /\ r \in Marks
  BY <1>2, BraceIs DEF CloseMark
<1>4. \A r : CloseMark(r) => Brace(r) + 1 = 0 /\ 2 + Brace(r) = 1 /\ r \in Mark /\ r \in Marks
  BY <1>1, <1>3, Zenon
<1>5. \A l : OpenMark(l) => Brace(l) = 1 /\ l \in Mark /\ l \in Marks /\ ~CloseMark(l)
  BY <1>2, BraceIs DEF OpenMark, CloseMark
<1>6. ASSUME NEW a, a \notin Mark PROVE ~CloseMark(a) /\ Brace(a) = 0 /\ 1 + Brace(a) = 1
  <2>1. a # "}" /\ a # "{"
    BY <1>2, <1>6
  <2>2. Brace(a) = 0
    BY <2>1, BraceIs
  <2>3. ~CloseMark(a)
    BY <2>1 DEF CloseMark
  <2>4. QED BY <2>2, <2>3
<1>7. QED BY <1>2, <1>4, <1>5, <1>6

\* After the block, one more block is complete.
ReadsOn(ok, text, blocks, id, l, a, b, body, r) ==
  Scan(text \o Wrapped(id, l, a, b, body, r))
    = ScanAt(ok, 0, Wholly(id, l, a, b, body, r), Append(blocks, Wholly(id, l, a, b, body, r)))

\* A number at the start of a block is part of it.
LEMMA ScanId ==
  ASSUME NEW text \in Seq(Marks), NEW n \in Marks, Brace(n) = 0, ~CloseMark(n), NEW id, Numbers(id, n),
         NEW ok, NEW blocks, Scan(text) = ScanAt(ok, 1, <<>>, blocks)
  PROVE  text \o id \in Seq(Marks) /\ Scan(text \o id) = ScanAt(ok, 1, id, blocks)
<1>1. CASE id = <<>>
  <2>1. text \o <<>> = text
    OBVIOUS
  <2>2. QED BY <1>1, <2>1
<1>2. CASE id = <<n>>
  <2>1. text \o <<n>> = Append(text, n) /\ Append(<<>>, n) = <<n>>
    OBVIOUS
  <2>2. Append(text, n) \in Seq(Marks) /\ Scan(Append(text, n)) = Inside(ok, 1, <<>>, blocks, n)
    BY MarkMore
  <2>3. 1 + Brace(n) = 1
    OBVIOUS
  <2>4. QED BY <1>2, <2>1, <2>2, <2>3 DEF Inside
<1>3. QED BY <1>1, <1>2 DEF Numbers

\* A block with a balanced body is scanned as one block.
LEMMA ScanWrapped ==
  ASSUME NEW text \in Seq(Marks), NEW a \in Marks, NEW b \in Marks, NEW body \in Seq(Marks),
         NEW l, NEW r, OpenMark(l), CloseMark(r),
         NEW n \in Marks, Brace(n) = 0, ~CloseMark(n), NEW id, Numbers(id, n),
         a \notin Mark, b \notin Mark, Balanced(body),
         NEW ok, NEW block, NEW blocks,
         Scan(text) = ScanAt(ok, 0, block, blocks)
  PROVE  /\ Wholly(id, l, a, b, body, r) \in Seq(Marks)
         /\ ReadsOn(ok, text, blocks, id, l, a, b, body, r)
<1> DEFINE t0 == Append(text, l)
           t1 == t0 \o id
           t2 == Append(t1, a)
           t3 == Append(t2, b)
           t4 == Append(t3, l)
           t5 == t4 \o body
           t6 == Append(t5, r)
           t7 == Append(t6, r)
           head == Headed(id, l, a, b)
           inner == Inner(id, l, a, b, body)
           whole == Append(inner, r)
<1>1. /\ l \in Marks /\ r \in Marks /\ ~CloseMark(l) /\ ~CloseMark(a) /\ ~CloseMark(b)
      /\ id \in Seq(Marks)
  <2>1. id \in Seq(Marks)
    <3>1. <<>> \in Seq(Marks) /\ <<n>> \in Seq(Marks)
      OBVIOUS
    <3>2. QED BY <3>1, Zenon DEF Numbers
  <2>2. QED BY <2>1, MarksAre
<1>2. text \o Wrapped(id, l, a, b, body, r) = t7 /\ inner \in Seq(Marks) /\ head \in Seq(Marks)
  <2>0. /\ WrapWritten(Marks, text, id, l, a, b, body, r)
        /\ HeadWritten(Marks, text, id, l, a, b)
    BY <1>1, WrappedIs, HeadIsWritten
  <2>1. text \o Wrapped(id, l, a, b, body, r) = Ended(Begun(text, id, l, a, b) \o body, r)
    BY <2>0, Zenon DEF WrapWritten
  <2>2. inner \in Seq(Marks)
    BY <2>0, Zenon DEF WrapWritten
  <2>3. head \in Seq(Marks)
    BY <2>0, Zenon DEF HeadWritten
  <2>4. QED BY <2>1, <2>2, <2>3, Zenon DEF Ended, Begun
<1>3. t0 \in Seq(Marks) /\ Scan(t0) = ScanAt(ok, 1, <<>>, blocks)
  <2>1. t0 \in Seq(Marks)
    BY <1>1, AppendType
  <2>2. Scan(t0) = ScanMark(Scan(text), l)
    BY <1>1, ScanAppend
  <2>3. QED BY <2>1, <2>2, MarkOpens DEF OpenMark
<1> HIDE DEF t0
<1>4. t1 \in Seq(Marks) /\ Scan(t1) = ScanAt(ok, 1, id, blocks)
  BY <1>3, ScanId
<1> HIDE DEF t1
<1>5. t2 \in Seq(Marks) /\ Scan(t2) = ScanAt(ok, 1, Append(id, a), blocks)
  <2>1. t2 \in Seq(Marks) /\ Scan(t2) = Inside(ok, 1, id, blocks, a)
    BY <1>1, <1>4, MarkMore
  <2>2. 1 + Brace(a) = 1
    BY MarksAre
  <2>3. QED BY <2>1, <2>2 DEF Inside
<1> HIDE DEF t2
<1>6. t3 \in Seq(Marks) /\ Scan(t3) = ScanAt(ok, 1, Append(Append(id, a), b), blocks)
  <2>1. t3 \in Seq(Marks) /\ Scan(t3) = Inside(ok, 1, Append(id, a), blocks, b)
    BY <1>1, <1>5, MarkMore
  <2>2. 1 + Brace(b) = 1
    BY MarksAre
  <2>3. QED BY <2>1, <2>2 DEF Inside
<1> HIDE DEF t3
<1>7. t4 \in Seq(Marks) /\ Scan(t4) = ScanAt(ok, 2, head, blocks)
  <2>1. t4 \in Seq(Marks) /\ Scan(t4) = Inside(ok, 1, Append(Append(id, a), b), blocks, l)
    BY <1>1, <1>6, MarkMore
  <2>2. 1 + Brace(l) = 2
    BY MarksAre
  <2>3. QED BY <2>1, <2>2 DEF Inside, Headed
<1> HIDE DEF t4
<1>8. t5 \in Seq(Marks) /\ Scan(t5) = ScanAt(ok, 2, inner, blocks)
  <2>1. inner = head \o body
    BY DEF Inner
  <2> HIDE DEF head
  <2>2. Scan(t4 \o body) = ScanAt(ok, 2, head \o body, blocks)
    BY <1>2, <1>7, ScanBody
  <2>3. t4 \o body \in Seq(Marks)
    BY <1>7
  <2>4. QED BY <2>1, <2>2, <2>3
<1> HIDE DEF t5, inner
<1>9. t6 \in Seq(Marks) /\ Scan(t6) = ScanAt(ok, 1, whole, blocks)
  <2>1. t6 \in Seq(Marks) /\ Scan(t6) = Inside(ok, 2, inner, blocks, r)
    BY <1>1, <1>8, MarkMore
  <2>2. 2 + Brace(r) = 1
    BY MarksAre
  <2>3. QED BY <2>1, <2>2 DEF Inside
<1> HIDE DEF t6, whole
<1>10. Scan(t7) = ScanAt(ok, 0, whole, Append(blocks, whole))
  <2>1. Scan(t7) = ScanMark(Scan(t6), r)
    BY <1>1, <1>9, ScanAppend
  <2>2. QED BY <1>9, <2>1, MarkCloses DEF CloseMark
<1> HIDE DEF t7
<1>11. whole = Wholly(id, l, a, b, body, r) /\ Wholly(id, l, a, b, body, r) \in Seq(Marks)
  <2>0. WrapWritten(Marks, text, id, l, a, b, body, r)
    BY <1>1, WrappedIs
  <2>1. More(Inner(id, l, a, b, body), r) = Wholly(id, l, a, b, body, r)
    BY <2>0, Zenon DEF WrapWritten
  <2>2. Wholly(id, l, a, b, body, r) \in Seq(Marks)
    BY <2>0, Zenon DEF WrapWritten
  <2>3. QED BY <2>1, <2>2 DEF whole, inner, More
<1>12. QED BY <1>2, <1>10, <1>11 DEF ReadsOn

\* A block and its text, mark by mark.
LEMMA BlockIs ==
  ASSUME NEW m \in Message
  PROVE  /\ Block(m) = Wrapped(m.id, "{", m.sender, m.type, m.body, "}")
         /\ BlockText(m) = Wholly(m.id, "{", m.sender, m.type, m.body, "}")
BY DEF Block, BlockText, Wrapped, Wholly

\* The marks of a message.
LEMMA MessageMarks ==
  ASSUME NEW m \in Message
  PROVE  /\ m.sender \in Marks /\ m.type \in Marks /\ m.body \in Seq(Marks) /\ m.id \in Ids
         /\ m.sender \notin Mark /\ m.type \notin Mark
         /\ m.sender \notin Type /\ m.type \in Type /\ m.sender \in Sender
BY MessageType

\* A number is no brace.
LEMMA DigitsAre == Digits \in Marks /\ Brace(Digits) = 0 /\ ~CloseMark(Digits)
BY MessageType DEF Digits, Brace, CloseMark

\* The marks of a block.
LEMMA BlockMarks ==
  ASSUME NEW m \in Message
  PROVE  Block(m) \in Seq(Marks) /\ BlockText(m) \in Seq(Marks)
<1> DEFINE Good(l, r) == /\ Wrapped(m.id, l, m.sender, m.type, m.body, r) \in Seq(Marks)
                         /\ Wholly(m.id, l, m.sender, m.type, m.body, r) \in Seq(Marks)
<1>1. ASSUME NEW l \in Marks, NEW r \in Marks PROVE Good(l, r)
  <2> DEFINE a == m.sender
             b == m.type
             body == m.body
             id == m.id
             n == Digits
  <2>1. a \in Marks /\ b \in Marks /\ body \in Seq(Marks) /\ n \in Marks /\ Numbers(id, n)
    BY MessageMarks, DigitsAre DEF Ids, Numbers
  <2> HIDE DEF a, b, body, id, n
  <2>2. <<>> \in Seq(Marks)
    OBVIOUS
  <2>3. Wrapped(id, l, a, b, body, r) \in Seq(Marks)
    <3>1. WrapWritten(Marks, <<>>, id, l, a, b, body, r)
      BY <2>1, <2>2, WrappedIs
    <3>2. QED BY <3>1 DEF WrapWritten
  <2>4. Wholly(id, l, a, b, body, r) \in Seq(Marks)
    <3>1. WrapWritten(Marks, <<>>, id, l, a, b, body, r)
      BY <2>1, <2>2, WrappedIs
    <3>2. QED BY <3>1 DEF WrapWritten
  <2>5. QED BY <2>3, <2>4 DEF a, b, body, id
<1>2. "{" \in Marks /\ "}" \in Marks
  BY MessageType
<1> HIDE DEF Good
<1>3. Good("{", "}")
  BY <1>1, <1>2
<1>4. QED BY <1>3, BlockIs DEF Good

\* The block of each message.
BlockOf == [m \in Message |-> Block(m)]

-----------------------------------------------------------------------------
(* A reply whose bodies are balanced is taken apart into its blocks.       *)

\* The blocks of a reply.
Texts(w) == [i \in DOMAIN w |-> BlockText(w[i])]
AllBalanced(w) == \A i \in DOMAIN w : Balanced(w[i].body)
ReadWhole(w) == \E block : Scan(Each(BlockOf, w)) = ScanAt(TRUE, 0, block, Texts(w))

\* Each message has its block.
LEMMA BlockOfType == BlockOf \in Maps(Message, Marks) /\ \A m \in Message : BlockOf[m] = Block(m)
BY BlockMarks DEF BlockOf, Maps

\* The texts of blocks.
LEMMA TextsType ==
  ASSUME NEW w \in Seq(Message)
  PROVE  Texts(w) \in Seq(Seq(Marks))
<1>1. Len(w) \in Nat /\ DOMAIN w = 1..Len(w) /\ \A i \in 1..Len(w) : w[i] \in Message
  OBVIOUS
<1>2. \A i \in 1..Len(w) : BlockText(w[i]) \in Seq(Marks)
  BY <1>1, BlockMarks
<1>3. Texts(w) \in [1..Len(w) -> Seq(Marks)]
  BY <1>1, <1>2 DEF Texts
<1>4. QED BY <1>1, <1>3

\* The text of a further block.
LEMMA TextsAppend ==
  ASSUME NEW w \in Seq(Message), NEW m \in Message
  PROVE  Texts(Append(w, m)) = Append(Texts(w), BlockText(m))
BY DEF Texts

\* A reply of balanced messages is scanned as their blocks, none left over.
LEMMA ScanWire ==
  ASSUME NEW w \in Seq(Message), AllBalanced(w)
  PROVE  ReadWhole(w)
<1> DEFINE Q == {v \in Seq(Message) : AllBalanced(v) => ReadWhole(v)}
<1>1. <<>> \in Q
  <2>1. Scan(<<>>) = ScanAt(TRUE, 0, <<>>, <<>>)
    BY ScanEmpty DEF ScanStart, ScanAt
  <2>2. Texts(<<>>) = <<>> /\ Each(BlockOf, <<>>) = <<>> /\ <<>> \in Seq(Message)
    BY EachEmpty DEF Texts
  <2>3. QED BY <2>1, <2>2 DEF ReadWhole
<1>2. ASSUME NEW v \in Seq(Message), v \in Q, NEW m \in Message PROVE Append(v, m) \in Q
  <2>1. ASSUME AllBalanced(Append(v, m)) PROVE ReadWhole(Append(v, m))
    <3>1. /\ Append(v, m)[Len(v) + 1] = m /\ Len(v) + 1 \in DOMAIN Append(v, m)
          /\ \A i \in DOMAIN v : i \in DOMAIN Append(v, m) /\ Append(v, m)[i] = v[i]
      OBVIOUS
    <3>2. AllBalanced(v) /\ Balanced(m.body)
      BY <2>1, <3>1 DEF AllBalanced
    <3>3. ReadWhole(v)
      BY <1>2, <3>2
    <3> DEFINE text == Each(BlockOf, v)
    <3>4. text \in Seq(Marks)
      BY BlockOfType, EachType
    <3>5. Each(BlockOf, Append(v, m)) = text \o Block(m)
      <4>1. Each(BlockOf, Append(v, m)) = Each(BlockOf, v) \o BlockOf[m]
        BY BlockOfType, EachAppend
      <4>2. QED BY <4>1, BlockOfType
    <3>6. PICK block : Scan(text) = ScanAt(TRUE, 0, block, Texts(v))
      BY <3>3 DEF ReadWhole
    <3> HIDE DEF text
    <3>7. Scan(text \o Block(m)) = ScanAt(TRUE, 0, BlockText(m), Append(Texts(v), BlockText(m)))
      <4> DEFINE a == m.sender
                 b == m.type
                 body == m.body
                 l == "{"
                 r == "}"
                 id == m.id
                 n == Digits
      <4>1. /\ a \in Marks /\ b \in Marks /\ body \in Seq(Marks) /\ a \notin Mark /\ b \notin Mark
            /\ n \in Marks /\ Brace(n) = 0 /\ ~CloseMark(n) /\ Numbers(id, n)
        BY MessageMarks, DigitsAre DEF Ids, Numbers
      <4>2. OpenMark(l) /\ CloseMark(r) /\ Balanced(body)
        BY <3>2 DEF OpenMark, CloseMark
      <4>3. Block(m) = Wrapped(id, l, a, b, body, r) /\ BlockText(m) = Wholly(id, l, a, b, body, r)
        BY BlockIs
      <4> HIDE DEF a, b, body, l, r, id, n
      <4>4. ReadsOn(TRUE, text, Texts(v), id, l, a, b, body, r)
        BY <3>4, <3>6, <4>1, <4>2, ScanWrapped
      <4>5. QED BY <4>3, <4>4 DEF ReadsOn
    <3>8. Scan(Each(BlockOf, Append(v, m))) = ScanAt(TRUE, 0, BlockText(m), Texts(Append(v, m)))
      BY <3>5, <3>7, TextsAppend
    <3>9. QED BY <3>8 DEF ReadWhole
  <2>2. Append(v, m) \in Seq(Message)
    OBVIOUS
  <2>3. QED BY <2>1, <2>2
<1>3. \A v \in Seq(Message) : v \in Q
  <2> HIDE DEF Q
  <2> QED BY <1>1, <1>2, ByAppending
<1>4. QED BY <1>3

-----------------------------------------------------------------------------
(* A block is read as the message it stands for.                           *)

\* Where the parts of a block are, without its number.
HasParts(w, S, l, a, b, body, r) ==
  /\ w \in Seq(S) /\ Len(w) >= 4
  /\ w[1] = a /\ w[2] = b /\ w[3] = l /\ w[Len(w)] = r
  /\ SubSeq(w, 4, Len(w) - 1) = body

\* The block without its number.
Bare(l, a, b, body, r) == <<a, b, l>> \o body \o <<r>>

\* The parts of a block are where it was written.
LEMMA BareParts ==
  ASSUME NEW S, NEW l \in S, NEW a \in S, NEW b \in S, NEW r \in S, NEW body \in Seq(S)
  PROVE  HasParts(Bare(l, a, b, body, r), S, l, a, b, body, r)
<1> DEFINE w == Bare(l, a, b, body, r)
<1> DEFINE head == <<a, b, l>>
           hb == head \o body
<1>1. head \in Seq(S) /\ Len(head) = 3 /\ head[1] = a /\ head[2] = b /\ head[3] = l
  OBVIOUS
<1> HIDE DEF head
<1>2. /\ hb \in Seq(S) /\ Len(hb) = 3 + Len(body) /\ Len(body) \in Nat
      /\ \A i \in 1..3 : hb[i] = head[i]
      /\ \A i \in 1..Len(body) : hb[i + 3] = body[i]
  <2> HIDE DEF hb
  <2>1. hb \in Seq(S) /\ IsConcat(hb, head, body)
    <3>1. hb = head \o body
      BY DEF hb
    <3>2. QED BY <1>1, <3>1, ConcatIs
  <2>2. QED BY <1>1, <2>1 DEF IsConcat
<1>3. w = hb \o <<r>>
  BY DEF Bare, head
<1> HIDE DEF hb, w
<1>4. /\ w \in Seq(S) /\ Len(w) = Len(hb) + 1 /\ w[Len(hb) + 1] = r
      /\ \A i \in 1..Len(hb) : w[i] = hb[i]
  BY <1>2, <1>3
<1>5. w[1] = a /\ w[2] = b /\ w[3] = l
  BY <1>1, <1>2, <1>4
<1>6. SubSeq(w, 4, Len(w) - 1) = body
  <2>1. \A i \in 1..Len(body) : w[i + 3] = body[i]
    BY <1>2, <1>4
  <2>2. Len(w) - 1 = Len(body) + 3
    BY <1>2, <1>4
  <2>3. SubSeq(w, 4, Len(body) + 3) = body
    BY <1>2, <1>4, <2>1
  <2>4. QED BY <2>2, <2>3
<1>7. HasParts(w, S, l, a, b, body, r)
  BY <1>2, <1>4, <1>5, <1>6 DEF HasParts
<1>8. QED BY <1>7 DEF w

\* What is left without the number.
BareIs(id, l, a, b, body, r) ==
  Unnumbered(Wholly(id, l, a, b, body, r)) = Bare(l, a, b, body, r)

\* A text starts with a number or its sender; without the number it is bare.
LEMMA WhollyIs ==
  ASSUME NEW S, NEW l \in S, NEW a \in S, NEW b \in S, NEW r \in S, NEW body \in Seq(S),
         NEW id \in Ids, Digits \in S, a # Digits
  PROVE  BareIs(id, l, a, b, body, r)
<1> DEFINE w == Bare(l, a, b, body, r)
           d == Digits
<1>1. w \in Seq(S) /\ Len(w) >= 4 /\ w[1] = a
  BY BareParts DEF HasParts
<1>2. CASE id = <<>>
  <2>1. Wholly(<<>>, l, a, b, body, r) = w
    <3>1. <<>> \o <<a, b, l>> = <<a, b, l>>
      OBVIOUS
    <3>2. QED BY <3>1 DEF Wholly, Bare
  <2> HIDE DEF w
  <2>2. ~(Len(w) >= 2 /\ w[1] = Digits)
    BY <1>1
  <2>3. Unnumbered(w) = w
    BY <2>2 DEF Unnumbered
  <2>4. QED BY <1>2, <2>1, <2>3, Zenon DEF BareIs, w
<1>3. CASE id = <<Digits>>
  <2> DEFINE hb == <<a, b, l>> \o body
             abl == <<a, b, l>>
             v == Wholly(<<Digits>>, l, a, b, body, r)
  <2>1. v = <<d>> \o w
    <3>1. abl \in Seq(S) /\ <<d>> \in Seq(S) /\ <<r>> \in Seq(S)
      OBVIOUS
    <3>2. v = ((<<d>> \o abl) \o body) \o <<r>> /\ w = (abl \o body) \o <<r>>
      BY DEF Wholly, Bare
    <3> HIDE DEF abl, d, v, w
    <3> DEFINE ab == abl \o body
               sd == <<d>>
               sr == <<r>>
    <3>3. ab \in Seq(S)
      BY <3>1
    <3> HIDE DEF sd, sr
    <3>4. sd \in Seq(S) /\ sr \in Seq(S)
      BY <3>1 DEF sd, sr
    <3>5. (sd \o abl) \o body = sd \o ab
      BY <3>1, <3>4, ConcatAssoc
    <3> HIDE DEF ab
    <3>6. (sd \o ab) \o sr = sd \o (ab \o sr)
      BY <3>3, <3>4, ConcatAssoc
    <3>7. QED BY <3>2, <3>5, <3>6 DEF sd, sr, ab
  <2> HIDE DEF v, w, d
  <2>2. \A e \in S : Len(<<e>> \o w) >= 2 /\ (<<e>> \o w)[1] = e /\ Tail(<<e>> \o w) = w
    BY <1>1
  <2>3. Len(v) >= 2 /\ v[1] = d /\ Tail(v) = w
    BY <2>1, <2>2 DEF d
  <2>4. Unnumbered(v) = w
    BY <2>3 DEF Unnumbered, d
  <2>5. QED BY <1>3, <2>4, Zenon DEF BareIs, v, w
<1>4. QED BY <1>2, <1>3, Zenon DEF Ids, BareIs

\* The text of a block reads as its sender, its type and its body.
LEMMA BlockRead ==
  ASSUME NEW m \in Message, NEW c
  PROVE  /\ IsMessage(BlockText(m))
         /\ AsMessage(BlockText(m), c).callsign = c
         /\ AsMessage(BlockText(m), c).sender = m.sender
         /\ AsMessage(BlockText(m), c).type = m.type
         /\ AsMessage(BlockText(m), c).body = Expanded(m.type, m.body)
<1> DEFINE a == m.sender
           b == m.type
           body == m.body
           l == "{"
           r == "}"
           id == m.id
           t == BlockText(m)
           w == Unnumbered(t)
<1>1. /\ a \in Marks /\ b \in Marks /\ body \in Seq(Marks) /\ b \in Type /\ id \in Ids
      /\ a # Digits /\ Digits \in Marks /\ b # "{"
  BY MessageMarks, MessageType
<1>2. l \in Marks /\ r \in Marks
  BY MessageType
<1>3. t = Wholly(id, l, a, b, body, r)
  BY BlockIs
<1>4. w \in Seq(Marks) /\ Len(w) >= 4 /\ w[1] = a /\ w[2] = b /\ w[3] = l /\ w[Len(w)] = r
      /\ SubSeq(w, 4, Len(w) - 1) = body
  <2> HIDE DEF a, b, body, l, r, t, id
  <2>1. w = Bare(l, a, b, body, r)
    <3>1. BareIs(id, l, a, b, body, r)
      BY <1>1, <1>2, WhollyIs
    <3>2. Unnumbered(t) = Bare(l, a, b, body, r)
      BY <1>3, <3>1 DEF BareIs
    <3>3. QED BY <3>2 DEF w
  <2> HIDE DEF w
  <2>2. HasParts(w, Marks, l, a, b, body, r)
    BY <1>1, <1>2, <2>1, BareParts
  <2>3. QED BY <2>2 DEF HasParts
<1> HIDE DEF w, t, body, a, b, id, l, r
<1>5. /\ \A k \in 3..Len(w) : OpensBody(w, k) => k = 3
      /\ 3 \in 3..Len(w) /\ OpensBody(w, 3)
  <2>1. Len(w) \in Nat
    BY <1>4
  <2>0. w[3] = "{" /\ w[2] # "{"
    BY <1>1, <1>4, Zenon DEF l
  <2>2. ASSUME NEW k \in 3..Len(w), OpensBody(w, k) PROVE k = 3
    <3>1. SUFFICES ASSUME k # 3 PROVE FALSE
      OBVIOUS
    <3>2. 3 \in 2..(k - 1)
      BY <2>1, <3>1
    <3>3. QED BY <2>0, <2>2, <3>2, Zenon DEF OpensBody
  <2>3. \A i \in 2..(3 - 1) : i = 2
    OBVIOUS
  <2>4. 3 \in 2..Len(w) /\ 3 \in 3..Len(w)
    <3>1. Len(w) >= 4
      BY <1>4
    <3>2. QED BY <2>1, <3>1
  <2>5. OpensBody(w, 3)
    BY <2>0, <2>3, <2>4, Zenon DEF OpensBody
  <2>6. QED BY <2>2, <2>4, <2>5
<1>6. Opening(w) = 3
  BY <1>5 DEF Opening
<1>7. IsMessage(t)
  <2>1. Last(w) = "}"
    BY <1>4, Zenon DEF Last, r
  <2>2. QED BY <1>5, <2>1, Zenon DEF IsMessage, w
<1>8. Body(w) = body
  <2>1. Body(w) = SubSeq(w, 3 + 1, Len(w) - 1)
    BY <1>6, Zenon DEF Body
  <2>2. SubSeq(w, 3 + 1, Len(w) - 1) = SubSeq(w, 4, Len(w) - 1)
    OBVIOUS
  <2>3. QED BY <1>4, <2>1, <2>2
<1>9. TypeOf(SubSeq(w, 2, Opening(w) - 1)) = b
  <2>1. SubSeq(w, 2, 2) = <<b>>
    <3>1. /\ SubSeq(w, 2, 2) \in Seq(Marks) /\ Len(SubSeq(w, 2, 2)) = 1
          /\ SubSeq(w, 2, 2)[1] = w[2]
      BY <1>4
    <3>2. \A v \in Seq(Marks) : Len(v) = 1 => v = <<v[1]>>
      OBVIOUS
    <3>3. w[2] = b
      BY <1>4
    <3>4. QED BY <3>1, <3>2, <3>3, Zenon
  <2>2. Opening(w) - 1 = 2
    BY <1>6
  <2>3. TypeOf(<<b>>) = b
    BY <1>1 DEF TypeOf
  <2>4. QED BY <2>1, <2>2, <2>3
<1>10. AsMessage(t, c) = [callsign |-> c, sender |-> a, type |-> b, body |-> Expanded(b, body)]
  BY <1>4, <1>8, <1>9, Zenon DEF AsMessage, w
<1> DEFINE read == AsMessage(t, c)
<1>11. /\ read.callsign = c /\ read.sender = a /\ read.type = b
       /\ read.body = Expanded(b, body)
  <2> HIDE DEF read
  <2>1. read = [callsign |-> c, sender |-> a, type |-> b, body |-> Expanded(b, body)]
    BY <1>10 DEF read
  <2>2. QED BY <2>1
<1>12. QED BY <1>7, <1>11, Zenon DEF read, t, body, a, b

\* What may be read.
Readings(c) == {AsMessage(b, c) : b \in Seq(Marks)}
ReadOf(c) == [b \in Seq(Marks) |-> AsMessage(b, c)]

\* The message a block is read as, if it is one.
Reads(c) == [b \in Seq(Marks) |-> IF IsMessage(b) THEN <<AsMessage(b, c)>> ELSE <<>>]

\* A block that does not read as a message is skipped.
LEMMA ReadsType ==
  ASSUME NEW c
  PROVE  /\ Reads(c) \in Maps(Seq(Marks), Readings(c))
         /\ \A b \in Seq(Marks) : /\ Reads(c)[b] \in {<<>>, <<AsMessage(b, c)>>}
                                  /\ Len(Reads(c)[b]) <= 1
                                  /\ ~IsMessage(b) => Reads(c)[b] = <<>>
                                  /\ IsMessage(b) => Reads(c)[b] = <<ReadOf(c)[b]>>
         /\ \A blocks \in Seq(Seq(Marks)) : Parsed(blocks, c) = Each(Reads(c), blocks)
<1>1. ASSUME NEW b \in Seq(Marks)
      PROVE  /\ Reads(c)[b] \in {<<>>, <<AsMessage(b, c)>>}
             /\ Reads(c)[b] \in Seq(Readings(c))
             /\ Len(Reads(c)[b]) <= 1
             /\ ~IsMessage(b) => Reads(c)[b] = <<>>
             /\ IsMessage(b) => Reads(c)[b] = <<ReadOf(c)[b]>>
  <2>1. AsMessage(b, c) \in Readings(c) /\ ReadOf(c)[b] = AsMessage(b, c)
    BY DEF Readings, ReadOf
  <2>2. Reads(c)[b] = IF IsMessage(b) THEN <<AsMessage(b, c)>> ELSE <<>>
    BY DEF Reads
  <2> DEFINE read == AsMessage(b, c)
             R == Readings(c)
  <2> HIDE DEF read, R
  <2>3. \A e \in R : <<e>> \in Seq(R) /\ Len(<<e>>) <= 1
    OBVIOUS
  <2>4. <<>> \in Seq(R) /\ Len(<<>>) <= 1
    OBVIOUS
  <2>5. QED BY <2>1, <2>2, <2>3, <2>4, Zenon DEF read, R
<1>2. Reads(c) \in Maps(Seq(Marks), Readings(c))
  BY <1>1 DEF Reads, Maps
<1>3. ASSUME NEW blocks \in Seq(Seq(Marks)) PROVE Parsed(blocks, c) = Each(Reads(c), blocks)
  <2>1. \A i \in DOMAIN blocks : blocks[i] \in Seq(Marks)
    OBVIOUS
  <2>2. [i \in DOMAIN blocks |-> IF IsMessage(blocks[i]) THEN <<AsMessage(blocks[i], c)>> ELSE <<>>]
          = [i \in DOMAIN blocks |-> Reads(c)[blocks[i]]]
    BY <2>1 DEF Reads
  <2>3. QED BY <2>2, Zenon DEF Parsed, Each
<1>4. QED BY <1>1, <1>2, <1>3

\* The messages read of the blocks of messages.
LEMMA ParsedTexts ==
  ASSUME NEW w \in Seq(Message), NEW c
  PROVE  Parsed(Texts(w), c) = [i \in DOMAIN w |-> AsMessage(BlockText(w[i]), c)]
<1> DEFINE s == Texts(w)
           F == Reads(c)
           G == ReadOf(c)
<1>1. s \in Seq(Seq(Marks)) /\ DOMAIN s = DOMAIN w /\ \A i \in DOMAIN w : s[i] = BlockText(w[i])
  <2>1. s \in Seq(Seq(Marks))
    BY TextsType
  <2>2. QED BY <2>1 DEF Texts
<1>2. \A i \in DOMAIN w : w[i] \in Message
  OBVIOUS
<1>3. \A i \in DOMAIN s : F[s[i]] = <<G[s[i]]>> /\ G[s[i]] = AsMessage(BlockText(w[i]), c)
  <2>1. ASSUME NEW i \in DOMAIN w
        PROVE  F[s[i]] = <<G[s[i]]>> /\ G[s[i]] = AsMessage(BlockText(w[i]), c)
    <3>1. s[i] = BlockText(w[i]) /\ w[i] \in Message
      BY <1>1, <1>2
    <3>2. IsMessage(s[i]) /\ s[i] \in Seq(Marks)
      BY <3>1, BlockRead, BlockMarks
    <3> HIDE DEF s
    <3>3. F[s[i]] = <<G[s[i]]>>
      BY <3>2, ReadsType
    <3>4. G[s[i]] = AsMessage(s[i], c)
      BY <3>2 DEF ReadOf
    <3>5. QED BY <3>1, <3>3, <3>4
  <2>2. QED BY <1>1, <2>1
<1>4. Parsed(s, c) = Each(F, s) /\ F \in Maps(Seq(Marks), Readings(c))
  BY <1>1, ReadsType
<1> HIDE DEF s, F, G
<1>5. Each(F, s) = [i \in DOMAIN s |-> G[s[i]]]
  BY <1>1, <1>3, <1>4, EachOne
<1>6. QED BY <1>1, <1>3, <1>4, <1>5 DEF s

\* The messages the filter lets through.
Wanted(m) == filter \in {NoCallsign, m.callsign, m.sender}
Keeps(S) == [m \in S |-> IF Wanted(m) THEN <<m>> ELSE <<>>]

-----------------------------------------------------------------------------
(* The reply, and what the tap keeps of it.                                *)

\* The filter drops messages, and none of those it wants.
LEMMA KeptIs ==
  ASSUME NEW S, NEW messages \in Seq(S)
  PROVE  /\ Kept(messages) \in Seq(S) /\ Len(Kept(messages)) <= Len(messages)
         /\ (\A i \in DOMAIN messages : Wanted(messages[i])) => Kept(messages) = messages
<1> DEFINE F == Keeps(S)
           G == [m \in S |-> m]
<1>1. ASSUME NEW m \in S
      PROVE  /\ F[m] \in Seq(S) /\ Len(F[m]) <= 1 /\ (Wanted(m) => F[m] = <<G[m]>>)
  <2>1. <<m>> \in Seq(S) /\ Len(<<m>>) <= 1 /\ <<>> \in Seq(S) /\ Len(<<>>) <= 1
    OBVIOUS
  <2>2. F[m] = IF Wanted(m) THEN <<m>> ELSE <<>>
    BY DEF Keeps
  <2>3. G[m] = m
    OBVIOUS
  <2>4. QED BY <2>1, <2>2, <2>3, Zenon
<1>2. F \in Maps(S, S)
  BY <1>1 DEF Keeps, Maps
<1>3. Kept(messages) = Each(F, messages)
  <2>1. \A i \in DOMAIN messages : messages[i] \in S
    OBVIOUS
  <2>2. [i \in DOMAIN messages |->
           IF filter \in {NoCallsign, messages[i].callsign, messages[i].sender}
             THEN <<messages[i]>> ELSE <<>>]
          = [i \in DOMAIN messages |-> F[messages[i]]]
    BY <2>1 DEF Keeps, Wanted
  <2>3. QED BY <2>2, Zenon DEF Kept, Each
<1> HIDE DEF F
<1>4. Each(F, messages) \in Seq(S) /\ Len(Each(F, messages)) <= Len(messages)
  BY <1>1, <1>2, EachType, EachShort
<1>5. ASSUME \A i \in DOMAIN messages : Wanted(messages[i])
      PROVE  Each(F, messages) = messages
  <2>1. \A i \in DOMAIN messages : messages[i] \in S /\ G[messages[i]] = messages[i]
    OBVIOUS
  <2> HIDE DEF G
  <2>2. \A i \in DOMAIN messages : F[messages[i]] = <<G[messages[i]]>>
    BY <1>1, <1>5, <2>1
  <2>3. Each(F, messages) = [i \in DOMAIN messages |-> G[messages[i]]]
    BY <1>2, <2>2, EachOne
  <2>4. [i \in DOMAIN messages |-> G[messages[i]]] = [i \in DOMAIN messages |-> messages[i]]
    BY <2>1
  <2>5. messages = [i \in DOMAIN messages |-> messages[i]]
    OBVIOUS
  <2>6. QED BY <2>3, <2>4, <2>5
<1>6. QED BY <1>3, <1>4, <1>5

\* The reply read, of any messages and status.
ReplyOf(w, st, c) ==
  LET scan == Scan(Each(BlockOf, w)) IN
  IF st # "ok" \/ ~scan.ok \/ scan.depth # 0 THEN Failed
  ELSE [ok |-> TRUE, messages |-> Parsed(scan.blocks, c)]

\* The reply the tap reads, as an operator of what was written.
LEMMA ReplyIs ==
  ASSUME NEW c, written \in Seq(Message)
  PROVE  ParseResponse(c) = ReplyOf(written, status, c) /\ Wire = Each(BlockOf, written)
<1>1. Wire = Each(BlockOf, written)
  <2>1. \A i \in DOMAIN written : written[i] \in Message
    OBVIOUS
  <2>2. [i \in DOMAIN written |-> Block(written[i])] = [i \in DOMAIN written |-> BlockOf[written[i]]]
    BY <2>1, BlockOfType
  <2>3. QED BY <2>2, Zenon DEF Wire, Each
<1>2. ParseResponse(c) = ReplyOf(written, status, c)
  BY <1>1, Zenon DEF ParseResponse, ReplyOf
<1>3. QED BY <1>1, <1>2

\* It has messages.
LEMMA ReplyType ==
  ASSUME NEW w \in Seq(Message), NEW st, NEW c
  PROVE  ReplyOf(w, st, c).messages \in Seq(Readings(c))
<1> DEFINE text == Each(BlockOf, w)
           scan == Scan(text)
           p == Parsed(scan.blocks, c)
<1>1. text \in Seq(Marks)
  BY BlockOfType, EachType
<1>2. p \in Seq(Readings(c))
  <2> HIDE DEF text
  <2>1. scan \in Scans
    BY <1>1, ScanType
  <2> HIDE DEF scan
  <2>2. scan.blocks \in Seq(Seq(Marks))
    BY <2>1, AtIs
  <2>3. p = Each(Reads(c), scan.blocks)
    BY <2>2, ReadsType
  <2>4. Reads(c) \in Maps(Seq(Marks), Readings(c))
    BY ReadsType
  <2>5. QED BY <2>2, <2>3, <2>4, EachType
<1>3. <<>> \in Seq(Readings(c))
  OBVIOUS
<1>4. ReplyOf(w, st, c) = Failed \/ ReplyOf(w, st, c) = [ok |-> TRUE, messages |-> p]
  BY DEF ReplyOf
<1> HIDE DEF p
<1>5. Failed.messages = <<>> /\ [ok |-> TRUE, messages |-> p].messages = p
  BY DEF Failed
<1>6. QED BY <1>2, <1>3, <1>4, <1>5

\* How deep in braces a text ends.
EndDepth(text) == Depth(text)[Len(text)]

\* A scan that found nothing outside of the blocks counts the braces.
LEMMA ScanCounts ==
  ASSUME NEW text \in Seq(Marks)
  PROVE  Scan(text).ok => Scan(text).depth = EndDepth(text)
<1> DEFINE Q == {u \in Seq(Marks) : Scan(u).ok => Scan(u).depth = EndDepth(u)}
<1>1. <<>> \in Q
  <2>1. Len(<<>>) = 0 /\ <<>> \in Seq(Marks)
    OBVIOUS
  <2>2. EndDepth(<<>>) = 0
    BY <2>1, DepthIs DEF EndDepth
  <2>3. QED BY <2>1, <2>2, ScanEmpty DEF ScanStart
<1>2. ASSUME NEW u \in Seq(Marks), u \in Q, NEW e \in Marks PROVE Append(u, e) \in Q
  <2> DEFINE more == Append(u, e)
             n == Len(u)
  <2>1. more \in Seq(Marks) /\ n \in Nat /\ Len(more) = n + 1 /\ more[n + 1] = e
        /\ \A i \in 1..n : more[i] = u[i]
    OBVIOUS
  <2> HIDE DEF more
  <2> DEFINE g == Depth(u)
             h == Depth(more)
  <2>2. g[0] = 0 /\ \A i \in 1..n : g[i] = g[i - 1] + Brace(u[i])
    BY DepthIs
  <2>3. h[0] = 0 /\ \A i \in 1..(n + 1) : h[i] = h[i - 1] + Brace(more[i])
    BY <2>1, DepthIs
  <2>4. StepAlike(n, g, h)
    <3> HIDE DEF g, h
    <3>1. \A i \in 1..n : i \in 1..(n + 1)
      BY <2>1
    <3>2. QED BY <2>1, <2>2, <2>3, <3>1 DEF StepAlike
  <2>5. g[n] = h[n]
    BY <2>1, <2>4, FoldsAgree
  <2>6. EndDepth(more) = EndDepth(u) + Brace(e)
    <3> HIDE DEF g, h
    <3>1. n + 1 \in 1..(n + 1) /\ (n + 1) - 1 = n
      BY <2>1
    <3>2. h[n + 1] = h[n] + Brace(e)
      BY <2>1, <2>3, <3>1
    <3>3. QED BY <2>1, <2>5, <3>2 DEF EndDepth, g, h
  <2>7. Scan(u) \in Scans /\ Scan(more) = ScanMark(Scan(u), e)
    BY ScanAppend DEF more
  <2> DEFINE x == Scan(u)
  <2>8. x.ok => x.depth = EndDepth(u)
    BY <1>2
  <2>9. ScanMark(x, e).ok => /\ x.ok /\ (x.depth = 0 => e = "{")
                             /\ ScanMark(x, e).depth = x.depth + Brace(e)
    <3> HIDE DEF x
    <3>1. x \in Scans
      BY <2>7 DEF x
    <3>2. CASE x.depth = 0 /\ e = "{"
      <4>1. ScanMark(x, e) = [x EXCEPT !.depth = 1, !.block = <<>>]
        BY <3>2 DEF ScanMark
      <4>2. ScanMark(x, e).depth = 1 /\ ScanMark(x, e).ok = x.ok
        BY <3>1, <4>1 DEF Scans
      <4>3. x.depth + Brace(e) = 1
        <5>1. Brace(e) = 1 /\ x.depth = 0
          BY <3>2, BraceIs, Zenon
        <5>2. QED BY <5>1
      <4>4. QED BY <3>2, <4>2, <4>3
    <3>3. CASE x.depth = 0 /\ e # "{"
      BY <3>1, <3>3 DEF ScanMark, Scans
    <3>4. CASE x.depth = 1 /\ e = "}"
      <4>1. ScanMark(x, e) = [x EXCEPT !.depth = 0, !.blocks = Append(@, x.block)]
        <5>1. x.depth = 1 /\ e = "}"
          BY <3>4, Zenon
        <5>2. x.depth # 0
          <6>1. x.depth = 1
            BY <5>1, Zenon
          <6>2. QED BY <6>1
        <5>3. QED BY <5>1, <5>2, Zenon DEF ScanMark
      <4>2. ScanMark(x, e).depth = 0 /\ ScanMark(x, e).ok = x.ok
        BY <3>1, <4>1 DEF Scans
      <4>3. \A b : b = -1 => 1 + b = 0
        OBVIOUS
      <4>4. x.depth + Brace(e) = 0
        BY <3>4, <4>3, BraceIs, Zenon
      <4>5. x.depth # 0
        <5>1. x.depth = 1
          BY <3>4, Zenon
        <5>2. QED BY <5>1
      <4>6. QED BY <4>2, <4>4, <4>5
    <3>5. CASE x.depth # 0 /\ ~(x.depth = 1 /\ e = "}")
      <4>1. ScanMark(x, e) = [x EXCEPT !.depth = @ + Brace(e), !.block = Append(@, e)]
        BY <3>5 DEF ScanMark
      <4>2. ScanMark(x, e).depth = x.depth + Brace(e) /\ ScanMark(x, e).ok = x.ok
        BY <3>1, <4>1 DEF Scans
      <4>3. QED BY <3>5, <4>2
    <3>6. QED BY <3>2, <3>3, <3>4, <3>5
  <2>10. Scan(more).ok => Scan(more).depth = EndDepth(more)
    BY <2>6, <2>7, <2>8, <2>9
  <2>11. QED BY <2>1, <2>10 DEF more
<1>3. \A u \in Seq(Marks) : u \in Q
  <2> HIDE DEF Q
  <2> QED BY <1>1, <1>2, ByAppending
<1>4. QED BY <1>3

\* A reply that does not close the braces it opens, and an error, give nothing.
LEMMA ReplyFails ==
  ASSUME NEW w \in Seq(Message), NEW st, NEW c, st # "ok" \/ EndDepth(Each(BlockOf, w)) # 0
  PROVE  ReplyOf(w, st, c) = Failed
<1> DEFINE scan == Scan(Each(BlockOf, w))
<1>1. Each(BlockOf, w) \in Seq(Marks)
  BY BlockOfType, EachType
<1>2. scan.ok => scan.depth = EndDepth(Each(BlockOf, w))
  BY <1>1, ScanCounts
<1> HIDE DEF scan
<1>3. st # "ok" \/ ~scan.ok \/ scan.depth # 0
  BY <1>2
<1>4. QED BY <1>3 DEF ReplyOf, scan

\* With balanced bodies it has each of them.
LEMMA ReplyWhole ==
  ASSUME NEW w \in Seq(Message), NEW c, AllBalanced(w)
  PROVE  ReplyOf(w, "ok", c)
           = [ok |-> TRUE, messages |-> [i \in DOMAIN w |-> AsMessage(BlockText(w[i]), c)]]
<1> DEFINE scan == Scan(Each(BlockOf, w))
<1>1. PICK block : scan = ScanAt(TRUE, 0, block, Texts(w))
  BY ScanWire DEF ReadWhole
<1> HIDE DEF scan
<1>2. scan.ok = TRUE /\ scan.depth = 0 /\ scan.blocks = Texts(w)
  BY <1>1 DEF ScanAt
<1>3. ReplyOf(w, "ok", c) = [ok |-> TRUE, messages |-> Parsed(scan.blocks, c)]
  BY <1>2 DEF ReplyOf, scan
<1>4. Parsed(Texts(w), c) = [i \in DOMAIN w |-> AsMessage(BlockText(w[i]), c)]
  BY ParsedTexts
<1>5. QED BY <1>2, <1>3, <1>4

-----------------------------------------------------------------------------
(* The invariant.                                                          *)

\* The callsign the messages are for.
CallerOf(ask, limit) ==
  IF ask.from # NoCallsign THEN ask.from
  ELSE IF limit # NoCallsign THEN limit ELSE "UNKNOWN"

\* What Exchange makes of messages: none of none, and all of them for the
\* aircraft the tap is limited to.
TakenFrom(read, kept, ask) ==
  /\ read.messages = <<>> => kept = <<>>
  /\ /\ read.ok /\ ask.from = Own /\ ask.type # "ping"
     /\ \A i \in DOMAIN read.messages : read.messages[i].callsign = Own
     => Len(kept) = Len(read.messages)

\* The inductive invariant.
WireInv ==
  /\ stage \in {"sent", "read", "taken"}
  /\ written \in Seq(Message)
  /\ filter \in {NoCallsign, Own}
  /\ stage # "sent" => parsed = ReplyOf(written, status, CallerOf(asked, filter))
  /\ stage = "taken" => TakenFrom(parsed, taken.messages, asked)

\* What the exchange takes of the messages.
LEMMA ExchangeIs ==
  ASSUME NEW S, NEW read, read.messages \in Seq(S), filter \in {NoCallsign, Own}
  PROVE  TakenFrom(read, Exchange(read).messages, asked)
<1> DEFINE mine == Kept(read.messages)
           x == Exchange(read)
           all == read.messages
<1>1. mine \in Seq(S) /\ Len(mine) <= Len(all)
  BY KeptIs
<1>2. ASSUME asked.from = Own, \A i \in DOMAIN all : all[i].callsign = Own
      PROVE  mine = all
  <2>1. \A i \in DOMAIN all : Wanted(all[i])
    BY <1>2 DEF Wanted
  <2> HIDE DEF all
  <2>2. all \in Seq(S) /\ read.messages = all
    BY DEF all
  <2>3. QED BY <2>1, <2>2, KeptIs
<1>3. Nothing.messages = <<>> /\ Len(<<>>) = 0
  BY DEF Nothing
<1> DEFINE labelled == [i \in DOMAIN mine |-> Labelled(mine[i])]
           stays == /\ asked.from = Own /\ asked.type # "ping" /\ read.ok
<1>4. Len(labelled) = Len(mine) /\ Len(mine) \in Nat /\ Len(all) \in Nat
  <2> HIDE DEF mine, all
  <2>1. DOMAIN mine = 1..Len(mine) /\ Len(mine) \in Nat
    BY <1>1
  <2>2. Len(all) \in Nat
    BY DEF all
  <2>3. QED BY <2>1, <2>2
<1>5. \/ x = Nothing /\ (stays => mine = <<>>)
      \/ x.messages = labelled
      \/ x.messages = mine
  <2> HIDE DEF mine, x
  <2>1. x = IF \/ asked.type = "ping" \/ ~read.ok
               \/ NoCallsign \notin {filter, asked.from} /\ asked.from # filter
               \/ asked.type = "inforeq" /\ mine = <<>>
              THEN Nothing
            ELSE IF asked.type = "inforeq"
              THEN [messages |-> labelled, force |-> TRUE]
            ELSE [messages |-> mine, force |-> FALSE]
    BY Zenon DEF Exchange, mine, x
  <2> HIDE DEF labelled
  <2>2. stays => ~(NoCallsign \notin {filter, asked.from} /\ asked.from # filter)
    BY DEF NoCallsign, Own
  <2>3. QED BY <2>1, <2>2
<1> HIDE DEF mine, x, labelled
<1>6. Len(x.messages) = Len(mine) \/ (Len(x.messages) = 0 /\ (stays => mine = <<>>))
  BY <1>3, <1>4, <1>5
<1>7. all = <<>> => x.messages = <<>>
  <2>1. ASSUME all = <<>> PROVE mine = <<>>
    <3>1. Len(mine) <= 0
      BY <1>1, <2>1
    <3>2. Len(mine) = 0 /\ mine \in Seq(S)
      BY <1>1, <1>4, <3>1
    <3>3. QED BY <3>2
  <2>2. ASSUME mine = <<>> PROVE labelled = <<>>
    BY <2>2 DEF labelled
  <2> HIDE DEF all, stays
  <2>3. QED BY <1>3, <1>5, <2>1, <2>2
<1>8. ASSUME read.ok, asked.from = Own, asked.type # "ping",
             \A i \in DOMAIN all : all[i].callsign = Own
      PROVE  Len(x.messages) = Len(all)
  <2>1. mine = all /\ stays
    BY <1>2, <1>8
  <2>2. Len(x.messages) = Len(mine)
    BY <1>3, <1>6, <2>1
  <2>3. QED BY <2>1, <2>2
<1>9. QED BY <1>7, <1>8 DEF TakenFrom, x

\* The invariant holds at first.
LEMMA WireStarts ==
  ASSUME WireInit
  PROVE  WireInv
<1>1. SeqOf(Message, MaxMessages) \subseteq Seq(Message)
  <2>1. ASSUME NEW n \in 0..MaxMessages, NEW s \in [1..n -> Message] PROVE s \in Seq(Message)
    <3>1. n \in Nat
      BY WireAssumption
    <3>2. QED BY <3>1
  <2>2. QED BY <2>1 DEF SeqOf
<1>2. QED BY <1>1 DEF WireInit, WireInv

\* Every step keeps it.
LEMMA WireStep ==
  ASSUME WireInv, [WireNext]_wireVars
  PROVE  WireInv'
<1>1. CASE ReadReply
  <2>1. Caller = CallerOf(asked, filter)
    BY DEF Caller, CallerOf
  <2>2. parsed' = ReplyOf(written, status, CallerOf(asked, filter))
    BY <1>1, <2>1, ReplyIs DEF ReadReply, WireInv
  <2>3. QED BY <1>1, <2>2 DEF WireInv, ReadReply
<1>2. CASE TakeMessages
  <2>1. parsed = ReplyOf(written, status, CallerOf(asked, filter)) /\ filter \in {NoCallsign, Own}
    BY <1>2 DEF TakeMessages, WireInv
  <2>2. parsed.messages \in Seq(Readings(CallerOf(asked, filter)))
    BY <2>1, ReplyType DEF WireInv
  <2>3. TakenFrom(parsed, Exchange(parsed).messages, asked)
    BY <2>1, <2>2, ExchangeIs
  <2>4. taken'.messages = Exchange(parsed).messages
    BY <1>2 DEF TakeMessages
  <2>5. QED BY <1>2, <2>3, <2>4 DEF WireInv, TakeMessages
<1>3. CASE UNCHANGED wireVars
  BY <1>3 DEF WireInv, wireVars
<1>4. QED BY <1>1, <1>2, <1>3 DEF WireNext

\* It implies the property.
LEMMA WireReads ==
  ASSUME WireInv
  PROVE  ReadAsWritten
<1> DEFINE c == CallerOf(asked, filter)
<1> SUFFICES ASSUME stage = "taken" PROVE ReadAsWritten
  BY DEF ReadAsWritten
<1>1. /\ written \in Seq(Message) /\ parsed = ReplyOf(written, status, c)
      /\ TakenFrom(parsed, taken.messages, asked)
  BY DEF WireInv
<1>2. Wire = Each(BlockOf, written)
  BY <1>1, ReplyIs
<1>3. ASSUME status # "ok" \/ Depth(Wire)[Len(Wire)] # 0
      PROVE  taken.messages = <<>>
  <2>1. parsed = Failed
    <3> HIDE DEF c
    <3>1. status # "ok" \/ EndDepth(Each(BlockOf, written)) # 0
      BY <1>2, <1>3 DEF EndDepth
    <3>2. QED BY <1>1, <3>1, ReplyFails
  <2>2. parsed.messages = <<>>
    BY <2>1 DEF Failed
  <2>3. QED BY <1>1, <2>2 DEF TakenFrom
<1>4. ASSUME status = "ok", \A i \in DOMAIN written : Balanced(written[i].body)
      PROVE  /\ Len(parsed.messages) = Len(written)
             /\ \A i \in DOMAIN written : \E m \in {parsed.messages[i]} :
                  /\ m.sender = written[i].sender /\ m.type = written[i].type
                  /\ m.body = Expanded(m.type, written[i].body)
             /\ asked.from = Own /\ asked.type # "ping"
                  => Len(taken.messages) = Len(written)
  <2> DEFINE texts == [i \in DOMAIN written |-> AsMessage(BlockText(written[i]), c)]
             got == parsed.messages
  <2>1. parsed = [ok |-> TRUE, messages |-> texts]
    <3>1. AllBalanced(written)
      BY <1>4 DEF AllBalanced
    <3> HIDE DEF c
    <3>2. ReplyOf(written, "ok", c)
            = [ok |-> TRUE, messages |-> [i \in DOMAIN written |-> AsMessage(BlockText(written[i]), c)]]
      BY <1>1, <3>1, ReplyWhole
    <3>3. QED BY <1>1, <1>4, <3>2
  <2>2. parsed.ok /\ got = texts
    BY <2>1
  <2>3. Len(texts) = Len(written) /\ DOMAIN texts = DOMAIN written
    <3>1. DOMAIN written = 1..Len(written) /\ Len(written) \in Nat
      BY <1>1
    <3>2. QED BY <3>1
  <2>4. ASSUME NEW i \in DOMAIN written
        PROVE  /\ got[i].callsign = c
               /\ got[i].sender = written[i].sender /\ got[i].type = written[i].type
               /\ got[i].body = Expanded(got[i].type, written[i].body)
    <3>1. got[i] = AsMessage(BlockText(written[i]), c) /\ written[i] \in Message
      BY <1>1, <2>2
    <3> HIDE DEF got, c
    <3>2. QED BY <3>1, BlockRead
  <2>5. ASSUME asked.from = Own, asked.type # "ping"
        PROVE  Len(taken.messages) = Len(written)
    <3>1. c = Own
      BY <2>5 DEF CallerOf, Own, NoCallsign
    <3>2. \A i \in DOMAIN got : got[i].callsign = Own
      <4> HIDE DEF got, c, texts
      <4> QED BY <2>2, <2>3, <2>4, <3>1
    <3>3. Len(taken.messages) = Len(got)
      BY <1>1, <2>2, <2>5, <3>2 DEF TakenFrom
    <3> HIDE DEF got, texts
    <3>4. QED BY <2>2, <2>3, <3>3
  <2>6. Len(got) = Len(written)
    <3> HIDE DEF got, texts
    <3> QED BY <2>2, <2>3
  <2> HIDE DEF c
  <2>7. QED BY <2>4, <2>5, <2>6
<1>5. QED BY <1>3, <1>4 DEF ReadAsWritten

\* For any senders, bodies and messages (parse_response, _extract_blocks,
\* _parse_block): of an answer whose bodies have balanced braces each message is
\* read with its own sender, type and body, whatever words the bodies hold, and
\* all of them are taken for the aircraft that asked; an error, or an answer that
\* does not close just the braces it opens, gives none of its messages.
THEOREM RepliesReadAsWritten == WireSpec => []ReadAsWritten
<1>1. WireSpec => []WireInv
  <2>1. WireInit => WireInv
    BY WireStarts
  <2>2. WireInv /\ [WireNext]_wireVars => WireInv'
    BY WireStep
  <2>3. QED BY <2>1, <2>2, PTL DEF WireSpec
<1>2. WireInv => ReadAsWritten
  BY WireReads
<1>3. QED BY <1>1, <1>2, PTL

-----------------------------------------------------------------------------
(* Columns.                                                                *)

\* A floor division: the rest is less than what one divides by.
LEMMA Divides ==
  ASSUME NEW n \in Nat, NEW d \in Nat \ {0}
  PROVE  n \div d \in Nat /\ (n \div d) * d <= n /\ n < (n \div d + 1) * d /\ n \div d <= n
<1>1. n \div d \in Int /\ n % d \in 0..(d - 1) /\ n = d * (n \div d) + (n % d)
  OBVIOUS
<1> DEFINE q == n \div d
           r == n % d
<1> HIDE DEF q, r
<1>2. q \in Int /\ r \in 0..(d - 1) /\ n = d * q + r
  BY <1>1 DEF q, r
<1>3. q \in Nat
  <2>1. ASSUME q < 0 PROVE FALSE
    <3>1. d * q <= -d
      BY <1>2, <2>1
    <3>2. QED BY <1>2, <3>1
  <2>2. QED BY <1>2, <2>1
<1>4. q * d <= n /\ n < (q + 1) * d /\ q <= n
  <2>1. q * d = d * q /\ (q + 1) * d = d * q + d /\ q <= d * q
    BY <1>2, <1>3
  <2>2. QED BY <1>2, <1>3, <2>1
<1>5. QED BY <1>3, <1>4 DEF q

Columns == 16..576

\* The columns of the paper, and that they fit on it.
LEMMA ColumnsFit ==
  ASSUME paper \in Paper
  PROVE  /\ CharactersPerLine \in Columns
         /\ \/ paper.override # 0 \/ CharactersPerLine = 16
            \/ CharactersPerLine * Cell + (IF paper.mode = "bitmap" THEN LeftInset ELSE 0) <= Dots
<1> DEFINE adv == paper.advance
           scale == paper.scale
           over == paper.override
           dots == Dots
           cpl == CharactersPerLine
<1>1. /\ adv \in Nat \ {0} /\ scale \in 1..8 /\ over \in {0} \cup 16..80
      /\ paper.width \in {58, 80} /\ paper.font \in {"a", "b"} /\ paper.mode \in {"bitmap", "native"}
  BY LayoutAssumption DEF Paper
<1>2. dots \in {384, 576} /\ LeftInset = 4
  BY DEF Dots, LeftInset
<1>3. \A n \in 0..576 : AtLeast16(n) \in Columns /\ (AtLeast16(n) = 16 \/ AtLeast16(n) = n)
  BY DEF AtLeast16, Columns
<1>4. CASE paper.mode = "bitmap"
  <2> DEFINE q == (dots - 4) \div adv
  <2>1. q \in Nat /\ q * adv <= dots - 4 /\ q <= dots - 4
    <3> DEFINE n == dots - 4
    <3>1. n \in Nat
      BY <1>2
    <3> HIDE DEF n, adv
    <3>2. n \div adv \in Nat /\ (n \div adv) * adv <= n /\ n \div adv <= n
      BY <1>1, <3>1, Divides
    <3>3. QED BY <3>2 DEF n
  <2>2. cpl = IF over # 0 THEN over ELSE AtLeast16(q)
    BY <1>2, <1>4 DEF CharactersPerLine, ColumnsForBitmap
  <2> HIDE DEF q, cpl, over, dots, adv
  <2>3. q \in 0..576
    BY <1>2, <2>1
  <2>4. cpl \in Columns
    <3>1. AtLeast16(q) \in Columns
      BY <1>3, <2>3
    <3>2. over # 0 => over \in Columns
      BY <1>1 DEF Columns
    <3>3. QED BY <2>2, <3>1, <3>2
  <2>5. over # 0 \/ cpl = 16 \/ cpl = q
    BY <1>3, <2>2, <2>3
  <2>6. ASSUME cpl = q PROVE cpl * adv + 4 <= dots
    BY <1>1, <1>2, <2>1, <2>6
  <2>7. Cell = adv
    BY <1>4 DEF Cell, adv
  <2>8. QED BY <1>2, <1>4, <2>4, <2>5, <2>6, <2>7 DEF cpl, over, dots, LeftInset
<1>5. CASE paper.mode = "native"
  <2> DEFINE cols == FontColumns
             dot == IF paper.font = "b" THEN 9 ELSE 12
             base == IF over # 0 THEN over ELSE cols
             q == base \div scale
  <2>1. cols \in {32, 42, 48, 64} /\ cols * dot <= dots /\ dot \in {9, 12}
    BY <1>1 DEF FontColumns, Dots
  <2>2. cpl = IF scale > 1 THEN AtLeast16(q) ELSE base
    BY <1>5 DEF CharactersPerLine
  <2>3. Cell = scale * dot
    BY <1>5 DEF Cell
  <2> HIDE DEF cols, dot, cpl, over, dots, scale
  <2>4. base \in 16..80 /\ (over = 0 => base = cols)
    BY <1>1, <2>1
  <2> HIDE DEF base
  <2>5. q \in Nat /\ q * scale <= base /\ q <= base
    BY <1>1, <2>4, Divides
  <2> HIDE DEF q
  <2>6. cpl \in Columns
    <3>1. AtLeast16(q) \in Columns
      <4>1. q \in 0..576
        BY <2>4, <2>5
      <4>2. QED BY <1>3, <4>1
    <3>2. base \in Columns
      BY <2>4 DEF Columns
    <3>3. QED BY <2>2, <3>1, <3>2
  <2>7. cpl = 16 \/ (cpl \in Nat /\ cpl * scale <= base)
    <3>1. CASE scale > 1
      BY <1>3, <2>2, <2>4, <2>5, <3>1
    <3>2. CASE scale = 1
      BY <2>2, <2>4, <3>2
    <3>3. QED BY <1>1, <3>1, <3>2
  <2>8. ASSUME over = 0, cpl # 16 PROVE cpl * (scale * dot) <= dots
    <3>1. cpl * scale <= cols /\ cpl \in Nat
      BY <2>4, <2>7, <2>8
    <3>2. (cpl * scale) * dot <= cols * dot
      BY <1>1, <2>1, <3>1
    <3>3. (cpl * scale) * dot = cpl * (scale * dot)
      BY <1>1, <2>1, <3>1
    <3>4. cpl * scale \in Nat /\ cols * dot \in Nat
      BY <1>1, <2>1, <3>1
    <3> DEFINE x == (cpl * scale) * dot
               y == cols * dot
    <3>5. x \in Int /\ y \in Int /\ x <= y /\ y <= dots
      BY <1>1, <2>1, <3>1, <3>2
    <3> HIDE DEF x, y
    <3>6. x <= dots
      BY <1>2, <3>5
    <3>7. QED BY <3>3, <3>6 DEF x
  <2>9. cpl * (scale * dot) + 0 = cpl * (scale * dot)
    BY <1>1, <2>1, <2>6 DEF Columns
  <2>10. QED BY <1>5, <2>3, <2>6, <2>8, <2>9 DEF cpl, over, dots
<1>6. QED BY <1>1, <1>4, <1>5

-----------------------------------------------------------------------------
(* Letters of a text.                                                      *)

\* The letters of one mark.
LettersOf == [mark \in Nat |-> IF mark = 0 THEN <<>> ELSE <<mark>>]

\* The letters of a text, as marks replaced one by one.
LEMMA LettersIs ==
  /\ LettersOf \in Maps(Nat, Nat)
  /\ LettersOf[0] = <<>>
  /\ \A mark \in Nat \ {0} : LettersOf[mark] = <<mark>>
  /\ \A text \in Seq(Nat) : Letters(text) = Each(LettersOf, text) /\ Letters(text) \in Seq(Nat)
<1>1. ASSUME NEW mark \in Nat PROVE LettersOf[mark] \in Seq(Nat)
  <2>1. <<>> \in Seq(Nat) /\ <<mark>> \in Seq(Nat)
    OBVIOUS
  <2>2. QED BY <2>1 DEF LettersOf
<1>2. LettersOf \in Maps(Nat, Nat)
  BY <1>1 DEF LettersOf, Maps
<1>3. ASSUME NEW text \in Seq(Nat) PROVE Letters(text) = Each(LettersOf, text)
  <2>1. \A i \in DOMAIN text : text[i] \in Nat
    OBVIOUS
  <2>2. [i \in DOMAIN text |-> IF text[i] = 0 THEN <<>> ELSE <<text[i]>>]
          = [i \in DOMAIN text |-> LettersOf[text[i]]]
    BY <2>1 DEF LettersOf
  <2>3. QED BY <2>2, Zenon DEF Letters, Each
<1>4. ASSUME NEW text \in Seq(Nat) PROVE Letters(text) \in Seq(Nat)
  <2>1. Each(LettersOf, text) \in Seq(Nat)
    BY <1>2, EachType
  <2>2. QED BY <1>3, <2>1
<1>5. LettersOf[0] = <<>> /\ \A mark \in Nat \ {0} : LettersOf[mark] = <<mark>>
  BY DEF LettersOf
<1>6. QED BY <1>2, <1>3, <1>4, <1>5

BothLetters(s, t) == Letters(s) \o Letters(t)

\* The letters of a concatenation.
LEMMA LettersConcat ==
  ASSUME NEW s \in Seq(Nat), NEW t \in Seq(Nat), NEW u, u = s \o t
  PROVE  Letters(u) = BothLetters(s, t)
<1>1. u \in Seq(Nat)
  BY ConcatIs
<1>2. Each(LettersOf, s \o t) = Each(LettersOf, s) \o Each(LettersOf, t)
  <2> DEFINE N == Nat
             F == LettersOf
  <2>1. F \in Maps(N, N) /\ s \in Seq(N) /\ t \in Seq(N)
    BY LettersIs
  <2> HIDE DEF N, F
  <2>2. Each(F, s \o t) = Each(F, s) \o Each(F, t)
    BY <2>1, EachConcat
  <2>3. QED BY <2>2 DEF F
<1>3. QED BY <1>1, <1>2, LettersIs DEF BothLetters

\* Blanks have no letters.
LEMMA LettersOfBlanks ==
  ASSUME NEW s \in Seq({0})
  PROVE  s \in Seq(Nat) /\ Letters(s) = <<>>
<1> DEFINE Q == {u \in Seq({0}) : Each(LettersOf, u) = <<>>}
<1>0. Seq({0}) \subseteq Seq(Nat)
  OBVIOUS
<1>1. <<>> \in Q
  <2>1. <<>> \in Seq({0})
    OBVIOUS
  <2>2. QED BY <2>1, EachEmpty
<1>2. ASSUME NEW u \in Seq({0}), u \in Q, NEW e \in {0} PROVE Append(u, e) \in Q
  <2>1. Append(u, e) \in Seq({0})
    OBVIOUS
  <2>2. u \in Seq(Nat) /\ e \in Nat /\ e = 0
    BY <1>0
  <2>3. Each(LettersOf, Append(u, e)) = Each(LettersOf, u) \o LettersOf[e]
    <3>1. LettersOf \in Maps(Nat, Nat)
      BY LettersIs
    <3> HIDE DEF Q
    <3>2. QED BY <2>2, <3>1, EachAppend
  <2>4. Each(LettersOf, u) = <<>> /\ LettersOf[e] = <<>>
    BY <1>2, <2>2, LettersIs
  <2>5. <<>> \o <<>> = <<>>
    OBVIOUS
  <2>6. QED BY <2>1, <2>3, <2>4, <2>5
<1>3. \A u \in Seq({0}) : u \in Q
  <2> HIDE DEF Q
  <2> QED BY <1>1, <1>2, ByAppending
<1>4. QED BY <1>0, <1>3, LettersIs

\* A text without blanks is its letters.
LEMMA LettersOfWord ==
  ASSUME NEW s \in Seq(Nat \ {0})
  PROVE  s \in Seq(Nat) /\ Letters(s) = s
<1> DEFINE G == [m \in Nat |-> m]
<1>1. s \in Seq(Nat) /\ \A i \in DOMAIN s : s[i] \in Nat \ {0} /\ G[s[i]] = s[i]
  OBVIOUS
<1> HIDE DEF G
<1>2. \A i \in DOMAIN s : LettersOf[s[i]] = <<G[s[i]]>>
  BY <1>1, LettersIs
<1>3. Each(LettersOf, s) = [i \in DOMAIN s |-> G[s[i]]]
  <2> DEFINE N == Nat
             F == LettersOf
  <2>1. F \in Maps(N, N) /\ s \in Seq(N) /\ \A i \in DOMAIN s : F[s[i]] = <<G[s[i]]>>
    BY <1>1, <1>2, LettersIs
  <2> HIDE DEF N, F
  <2>2. Each(F, s) = [i \in DOMAIN s |-> G[s[i]]]
    BY <2>1, EachOne
  <2>3. QED BY <2>2 DEF F
<1>4. [i \in DOMAIN s |-> G[s[i]]] = [i \in DOMAIN s |-> s[i]]
  BY <1>1
<1>5. s = [i \in DOMAIN s |-> s[i]]
  OBVIOUS
<1>6. QED BY <1>1, <1>3, <1>4, <1>5, LettersIs

-----------------------------------------------------------------------------
(* Rows.                                                                   *)

\* Stripping cuts a row after its last letter.
LEMMA StrippedIs ==
  ASSUME NEW row \in Seq(Nat)
  PROVE  \E k \in 0..Len(row) :
           /\ Stripped(row) = SubSeq(row, 1, k)
           /\ \A i \in (k + 1)..Len(row) : row[i] = 0
           /\ k = 0 \/ row[k] # 0
<1> DEFINE I == {i \in 1..Len(row) : row[i] # 0}
           k == SelectLastInSeq(row, LAMBDA mark : mark # 0)
<1>1. k = IF I # {} THEN Max(I) ELSE 0
  BY DEF SelectLastInSeq
<1>2. Stripped(row) = SubSeq(row, 1, k)
  BY DEF Stripped
<1>3. Len(row) \in Nat
  OBVIOUS
<1> HIDE DEF k
<1>4. CASE I = {}
  <2>1. k = 0 /\ \A i \in 1..Len(row) : row[i] = 0
    BY <1>1, <1>4
  <2>2. QED BY <1>2, <1>3, <2>1
<1>5. CASE I # {}
  <2>1. \E m \in I : \A j \in I : m >= j
    <3>1. I \in SUBSET (1..Len(row))
      OBVIOUS
    <3> HIDE DEF I
    <3>2. QED BY <1>3, <1>5, <3>1, HasGreatest
  <2>2. Max(I) \in I /\ \A j \in I : Max(I) >= j
    <3> HIDE DEF I
    <3> QED BY <2>1 DEF Max
  <2>3. k \in I /\ \A j \in I : k >= j
    <3> HIDE DEF I
    <3> QED BY <1>1, <1>5, <2>2
  <2>4. k \in 0..Len(row) /\ row[k] # 0
    BY <2>3
  <2>5. ASSUME NEW i \in (k + 1)..Len(row) PROVE row[i] = 0
    <3>1. i \notin I /\ i \in 1..Len(row)
      BY <1>3, <2>3, <2>4
    <3>2. QED BY <3>1
  <2>6. QED BY <1>2, <2>4, <2>5
<1>6. QED BY <1>4, <1>5

\* No letter stands beyond the columns.
Fits(row, width) == \A i \in DOMAIN row : row[i] # 0 => i <= width

\* It keeps the letters, and what is left fits.
LEMMA StrippedKeeps ==
  ASSUME NEW row \in Seq(Nat), NEW width \in Nat, Fits(row, width)
  PROVE  /\ Stripped(row) \in Seq(Nat) /\ Len(Stripped(row)) <= width
         /\ Letters(Stripped(row)) = Letters(row)
<1>1. PICK k \in 0..Len(row) :
           /\ Stripped(row) = SubSeq(row, 1, k)
           /\ \A i \in (k + 1)..Len(row) : row[i] = 0
           /\ k = 0 \/ row[k] # 0
  BY StrippedIs
<1> DEFINE s == SubSeq(row, 1, k)
           t == SubSeq(row, k + 1, Len(row))
<1>2. s \in Seq(Nat) /\ t \in Seq(Nat) /\ row = s \o t
  BY CutInTwo
<1>3. Len(s) = k /\ Len(row) \in Nat
  OBVIOUS
<1>4. k <= width
  <2>1. CASE k = 0
    BY <2>1
  <2>2. CASE k # 0
    <3>1. k \in DOMAIN row
      BY <2>2
    <3>2. QED BY <1>1, <2>2, <3>1 DEF Fits
  <2>3. QED BY <2>1, <2>2
<1>5. t \in Seq({0})
  <2>1. \A i \in 1..Len(t) : t[i] = row[k + i] /\ k + i \in (k + 1)..Len(row)
    OBVIOUS
  <2>2. \A i \in 1..Len(t) : t[i] \in {0}
    BY <1>1, <2>1
  <2> HIDE DEF t
  <2>3. t = [i \in 1..Len(t) |-> t[i]] /\ Len(t) \in Nat
    BY <1>2
  <2>4. QED BY <2>2, <2>3, SMTT(30)
<1> HIDE DEF s, t
<1>6. Letters(row) = BothLetters(s, t)
  BY <1>2, LettersConcat
<1>7. Letters(t) = <<>>
  BY <1>5, LettersOfBlanks
<1>8. Letters(s) \in Seq(Nat)
  BY <1>2, LettersIs
<1>9. BothLetters(s, t) = Letters(s)
  <2> DEFINE a == Letters(s)
  <2> HIDE DEF a
  <2>1. a \in Seq(Nat) /\ a \o <<>> = a
    BY <1>8 DEF a
  <2>2. QED BY <1>7, <2>1 DEF BothLetters, a
<1>10. QED BY <1>1, <1>2, <1>3, <1>4, <1>6, <1>9 DEF s

\* The rows that fit.
Fitting(width) == {row \in Seq(Nat) : Len(row) <= width}

\* The row made of what is being filled has its letters.
LEMMA RowOfKeeps ==
  ASSUME NEW row \in Seq(Nat), NEW width \in Nat, Fits(row, width)
  PROVE  /\ RowOf(row) \in Seq(Fitting(width))
         /\ FlattenSeq(RowOf(row)) \in Seq(Nat)
         /\ Letters(FlattenSeq(RowOf(row))) = Letters(row)
<1>1. CASE row = <<>>
  <2>1. RowOf(row) = <<>> /\ <<>> \in Seq(Fitting(width)) /\ <<>> \in Seq(Nat)
    BY <1>1 DEF RowOf
  <2>2. QED BY <1>1, <2>1, FlatEmpty
<1>2. CASE row # <<>>
  <2> DEFINE s == Stripped(row)
             S == Fitting(width)
  <2>1. s \in Seq(Nat) /\ Len(s) <= width /\ Letters(s) = Letters(row)
    BY StrippedKeeps
  <2>2. s \in S
    BY <2>1 DEF Fitting
  <2>3. RowOf(row) = <<s>>
    BY <1>2 DEF RowOf
  <2> HIDE DEF s, S
  <2>4. <<s>> \in Seq(S)
    BY <2>2
  <2>5. FlattenSeq(<<s>>) = s
    BY <2>1, FlatSingle
  <2>6. QED BY <2>1, <2>3, <2>4, <2>5 DEF S
<1>3. QED BY <1>1, <1>2

\* A word cut into chunks of the width is all there.
LEMMA ChunksKeep ==
  ASSUME NEW token \in Seq(Nat), NEW width \in Nat \ {0}
  PROVE  /\ Chunks(token, width) \in Seq(Fitting(width))
         /\ FlattenSeq(Chunks(token, width)) = token
<1> DEFINE len == Len(token)
           n == (len + width - 1) \div width
           To(i) == IF i * width < len THEN i * width ELSE len
           ss == Chunks(token, width)
<1>1. len \in Nat /\ len + width - 1 \in Nat
  OBVIOUS
<1>2. n \in Nat /\ n * width <= len + width - 1 /\ len + width - 1 < (n + 1) * width
  <2> DEFINE m == len + width - 1
  <2>1. m \in Nat
    BY <1>1
  <2> HIDE DEF m
  <2>2. m \div width \in Nat /\ (m \div width) * width <= m /\ m < (m \div width + 1) * width
    BY <2>1, Divides
  <2>3. QED BY <2>2 DEF m
<1>3. ss = [i \in 1..n |-> SubSeq(token, (i - 1) * width + 1, To(i))]
  BY DEF Chunks
<1> HIDE DEF n, ss, len
<1>4. ASSUME NEW i \in 0..n
      PROVE  To(i) \in 0..len /\ (i = 0 => To(i) = 0) /\ (i = n => To(i) = len)
  <2> DEFINE w == i * width
  <2>1. w \in Nat /\ (i = 0 => w = 0)
    OBVIOUS
  <2>2. i = n => w >= len
    <3>1. (n + 1) * width = n * width + width /\ n * width \in Nat
      BY <1>2
    <3>2. n * width >= len
      BY <1>1, <1>2, <3>1
    <3>3. QED BY <3>2
  <2> HIDE DEF w
  <2>3. To(i) = IF w < len THEN w ELSE len
    BY DEF w
  <2>4. QED BY <1>1, <2>1, <2>2, <2>3
<1>5. ASSUME NEW i \in 1..n
      PROVE  /\ i - 1 \in 0..n /\ To(i - 1) = (i - 1) * width
             /\ To(i - 1) <= To(i) /\ To(i) - To(i - 1) <= width
  <2> DEFINE v == (i - 1) * width
             w == i * width
  <2>1. v \in Nat /\ w = v + width /\ i - 1 \in 0..n
    BY <1>2
  <2>2. v < len
    <3>1. (i - 1) * width <= (n - 1) * width
      <4>1. i - 1 \in Nat /\ n - 1 \in Nat /\ i - 1 <= n - 1
        BY <1>2
      <4>2. \A a, b \in Nat : a <= b => a * width <= b * width
        OBVIOUS
      <4>3. QED BY <4>1, <4>2
    <3>2. (n - 1) * width = n * width - width /\ n * width \in Nat
      BY <1>2
    <3> HIDE DEF w
    <3>3. QED BY <1>1, <1>2, <2>1, <3>1, <3>2
  <2> HIDE DEF v, w
  <2>3. To(i - 1) = (IF v < len THEN v ELSE len) /\ To(i) = (IF w < len THEN w ELSE len)
    BY DEF v, w
  <2> HIDE DEF To
  <2>4. To(i - 1) = v /\ To(i - 1) <= To(i) /\ To(i) - To(i - 1) <= width
    BY <1>1, <2>1, <2>2, <2>3
  <2>5. QED BY <2>1, <2>4 DEF v
<1> HIDE DEF To
<1>6. ASSUME NEW i \in 1..n
      PROVE  /\ SubSeq(token, To(i - 1) + 1, To(i)) \in Fitting(width)
             /\ SubSeq(token, 1, To(i))
                  = SubSeq(token, 1, To(i - 1)) \o SubSeq(token, To(i - 1) + 1, To(i))
  <2> DEFINE a == To(i - 1)
             b == To(i)
  <2>1. a \in 0..len /\ b \in 0..len /\ a <= b /\ b - a <= width
    BY <1>4, <1>5
  <2> HIDE DEF a, b
  <2>2. SubSeq(token, a + 1, b) \in Seq(Nat) /\ Len(SubSeq(token, a + 1, b)) = b - a
    BY <1>1, <2>1 DEF len
  <2>3. SubSeq(token, 1, b) = SubSeq(token, 1, a) \o SubSeq(token, a + 1, b)
    BY <1>1, <2>1, SMTT(60) DEF len
  <2>4. QED BY <2>1, <2>2, <2>3 DEF a, b, Fitting
<1>7. \A i \in 1..n : ss[i] = SubSeq(token, To(i - 1) + 1, To(i))
  BY <1>3, <1>5
<1>8. ss \in Seq(Fitting(width)) /\ Len(ss) = n
  <2>1. ss \in [1..n -> Fitting(width)]
    BY <1>3, <1>6, <1>7
  <2>2. QED BY <1>2, <2>1
<1>9. ss \in Seq(Seq(Nat))
  <2>1. Fitting(width) \subseteq Seq(Nat)
    BY DEF Fitting
  <2>2. QED BY <1>8, <2>1
<1>10. PICK g \in [0..Len(ss) -> Seq(Nat)] :
            /\ g[0] = <<>> /\ \A i \in 1..Len(ss) : g[i] = g[i - 1] \o ss[i]
            /\ FlattenSeq(ss) = g[Len(ss)]
  BY <1>9, FlatIs
<1> DEFINE h == [i \in 0..n |-> SubSeq(token, 1, To(i))]
<1>11. StepAlike(n, g, h)
  <2>1. h[0] = <<>>
    <3>1. h[0] = SubSeq(token, 1, To(0)) /\ To(0) = 0
      BY <1>2, <1>4
    <3>2. SubSeq(token, 1, 0) = <<>>
      OBVIOUS
    <3>3. QED BY <3>1, <3>2
  <2>2. ASSUME NEW i \in 1..n PROVE h[i] = h[i - 1] \o ss[i]
    <3>1. h[i] = SubSeq(token, 1, To(i)) /\ h[i - 1] = SubSeq(token, 1, To(i - 1))
      <4>1. i \in 0..n /\ i - 1 \in 0..n
        BY <1>2
      <4> DEFINE j == i - 1
      <4>2. j \in 0..n
        BY <4>1
      <4> HIDE DEF j
      <4>3. h[j] = SubSeq(token, 1, To(j)) /\ h[i] = SubSeq(token, 1, To(i))
        BY <4>1, <4>2
      <4>4. QED BY <4>3 DEF j
    <3>2. QED BY <1>6, <1>7, <3>1
  <2> HIDE DEF h
  <2>3. \A i \in 1..n : g[i] = g[i - 1] \o ss[i]
    BY <1>8, <1>10
  <2>4. QED BY <1>10, <2>1, <2>2, <2>3 DEF StepAlike
<1>12. g[n] = h[n]
  <2> HIDE DEF h
  <2> QED BY <1>2, <1>11, FoldsAgree
<1>13. h[n] = token
  <2>1. h[n] = SubSeq(token, 1, To(n)) /\ To(n) = Len(token)
    BY <1>2, <1>4 DEF len
  <2>2. SubSeq(token, 1, Len(token)) = token
    OBVIOUS
  <2>3. QED BY <2>1, <2>2
<1>14. QED BY <1>8, <1>10, <1>12, <1>13 DEF ss

-----------------------------------------------------------------------------
(* The rows that are filled token by token.                                *)

\* Blanks, or a word.
Token == Seq({0}) \cup Seq(Nat \ {0})

\* The letters on rows.
RowLetters(rows) == Letters(FlattenSeq(rows))

\* Rows with no letter beyond the columns.
Within(width) == {row \in Seq(Nat) : Fits(row, width)}

\* The states while rows are filled.
Dones(width) == [rows : Seq(Fitting(width)), current : Within(width)]
Laid(rows, filling) == [rows |-> rows, current |-> filling]
Together(a, b) == a \o b

\* The letters they hold.
TextIn(done) == RowLetters(done.rows) \o Letters(done.current)

\* Rows are texts.
LEMMA RowLettersIs ==
  ASSUME NEW width, NEW a \in Seq(Fitting(width))
  PROVE  a \in Seq(Seq(Nat)) /\ FlattenSeq(a) \in Seq(Nat) /\ RowLetters(a) \in Seq(Nat)
<1>1. Fitting(width) \subseteq Seq(Nat)
  BY DEF Fitting
<1>2. a \in Seq(Seq(Nat))
  BY <1>1
<1>3. FlattenSeq(a) \in Seq(Nat)
  BY <1>2, FlatType
<1>4. QED BY <1>2, <1>3, LettersIs DEF RowLetters

Rows(width) == Seq(Fitting(width))

\* Concatenation, as a relation.
IsJoin(u, a, b) == u = a \o b

\* The letters of rows and further rows.
LEMMA RowLettersConcat ==
  ASSUME NEW width, NEW a \in Rows(width), NEW b \in Rows(width), NEW u, IsJoin(u, a, b)
  PROVE  u \in Rows(width) /\ RowLetters(u) = Together(RowLetters(a), RowLetters(b))
<1> USE DEF Rows, IsJoin
<1>1. u \in Seq(Fitting(width))
  BY ConcatIs
<1> DEFINE fa == FlattenSeq(a)
           fb == FlattenSeq(b)
           fu == FlattenSeq(u)
<1>2. fa \in Seq(Nat) /\ fb \in Seq(Nat)
  BY RowLettersIs
<1>3. fu = fa \o fb
  <2>1. a \in Seq(Seq(Nat)) /\ b \in Seq(Seq(Nat))
    BY RowLettersIs
  <2>2. FlattenSeq(a \o b) = FlattenSeq(a) \o FlattenSeq(b)
    <3> DEFINE N == Nat
    <3>1. a \in Seq(Seq(N)) /\ b \in Seq(Seq(N))
      BY <2>1
    <3> HIDE DEF N
    <3>2. QED BY <3>1, FlatConcat
  <2>3. QED BY <2>2
<1> HIDE DEF fa, fb, fu
<1>4. Letters(fu) = BothLetters(fa, fb)
  BY <1>2, <1>3, LettersConcat
<1>5. QED BY <1>1, <1>4 DEF RowLetters, BothLetters, Together, fa, fb, fu

\* A token with no letters is blank.
LEMMA TokenIs ==
  ASSUME NEW token \in Token
  PROVE  /\ token \in Seq(Nat)
         /\ Letters(token) = <<>> => \A i \in DOMAIN token : token[i] = 0
<1>1. CASE token \in Seq({0})
  <2>1. \A i \in DOMAIN token : token[i] = 0
    BY <1>1
  <2>2. QED BY <1>1, <2>1, LettersOfBlanks
<1>2. CASE token \in Seq(Nat \ {0})
  <2>1. token \in Seq(Nat) /\ Letters(token) = token
    BY <1>2, LettersOfWord
  <2>2. \A i \in DOMAIN <<>> : FALSE
    OBVIOUS
  <2>3. QED BY <2>1, <2>2
<1>3. QED BY <1>1, <1>2 DEF Token

\* What may become of a token.
LEMMA PlaceCases ==
  ASSUME NEW rows, NEW filling, NEW done, done = Laid(rows, filling), NEW token, NEW width
  PROVE  \/ Place(done, token, width) = done /\ Letters(token) = <<>>
         \/ /\ Place(done, token, width) = Laid(rows, filling \o token)
            /\ Letters(token) = <<>> \/ Len(filling \o token) <= width
         \/ Place(done, token, width)
              = Laid(rows \o RowOf(filling) \o Chunks(token, width), <<>>)
         \/ /\ Place(done, token, width) = Laid(rows \o RowOf(filling), token)
            /\ ~(Len(token) > width)
<1>1. /\ done.rows = rows /\ done.current = filling
      /\ \A c : [done EXCEPT !.current = c] = Laid(rows, c)
  BY DEF Laid
<1> DEFINE ct == filling \o token
           rc == rows \o RowOf(filling)
           rcc == rc \o Chunks(token, width)
<1>2. [done EXCEPT !.current = @ \o token] = Laid(rows, ct)
  BY <1>1
<1>3. PlaceBlanks(done, token) = done \/ PlaceBlanks(done, token) = Laid(rows, ct)
  BY <1>2, Zenon DEF PlaceBlanks
<1>4. PlaceWord(done, token, width)
        = IF Len(token) > width THEN Laid(rcc, <<>>)
          ELSE IF Len(ct) <= width THEN Laid(rows, ct)
          ELSE Laid(rc, token)
  BY <1>1, <1>2, Zenon DEF PlaceWord, Laid
<1> HIDE DEF ct, rc, rcc
<1>5. CASE Letters(token) = <<>>
  <2>1. Place(done, token, width) = PlaceBlanks(done, token)
    BY <1>5 DEF Place
  <2>2. QED BY <1>3, <1>5, <2>1 DEF ct
<1>6. CASE Letters(token) # <<>>
  <2>1. Place(done, token, width) = PlaceWord(done, token, width)
    BY <1>6 DEF Place
  <2>2. CASE Len(token) > width
    BY <1>4, <2>1, <2>2 DEF rcc, rc
  <2>3. CASE ~(Len(token) > width) /\ Len(ct) <= width
    BY <1>4, <2>1, <2>3 DEF ct
  <2>4. CASE ~(Len(token) > width) /\ ~(Len(ct) <= width)
    BY <1>4, <2>1, <2>4 DEF rc
  <2>5. QED BY <2>2, <2>3, <2>4
<1>7. QED BY <1>5, <1>6

\* The empty text.
LEMMA NoLetters == <<>> \in Seq(Nat) /\ Letters(<<>>) = <<>> /\ \A width : Fits(<<>>, width)
<1>1. <<>> \in Seq({0}) /\ DOMAIN <<>> = {}
  OBVIOUS
<1>2. QED BY <1>1, LettersOfBlanks DEF Fits

\* Blanks, or a word there is room for, leave no letter beyond the columns.
LEMMA FitsMore ==
  ASSUME NEW filling \in Seq(Nat), NEW token \in Token, NEW width \in Nat, Fits(filling, width),
         Letters(token) = <<>> \/ Len(filling \o token) <= width
  PROVE  filling \o token \in Seq(Nat) /\ Fits(filling \o token, width)
<1> DEFINE u == filling \o token
<1>0. token \in Seq(Nat)
  BY TokenIs
<1>1. u = filling \o token
  OBVIOUS
<1> HIDE DEF u
<1>2. u \in Seq(Nat) /\ IsConcat(u, filling, token)
  BY <1>0, <1>1, ConcatIs
<1>3. DOMAIN u = 1..Len(u) /\ DOMAIN filling = 1..Len(filling) /\ DOMAIN token = 1..Len(token)
      /\ Len(u) \in Nat
  BY <1>0, <1>2
<1>4. ASSUME NEW i \in DOMAIN u, u[i] # 0 PROVE i <= width
  <2>1. CASE Len(u) <= width
    BY <1>3, <2>1
  <2>2. CASE Letters(token) = <<>>
    <3>1. \A j \in DOMAIN token : token[j] = 0
      BY <2>2, TokenIs
    <3> DEFINE m == Len(filling)
               n == Len(token)
    <3>2. Len(u) = m + n /\ m \in Nat /\ n \in Nat
      BY <1>2 DEF IsConcat
    <3>3. (\A j \in 1..m : u[j] = filling[j]) /\ (\A j \in 1..n : u[j + m] = token[j])
      BY <1>2 DEF IsConcat
    <3> HIDE DEF m, n
    <3>4. i \in 1..(m + n)
      BY <1>3, <3>2
    <3>5. i \in 1..m
      <4>1. ASSUME i > m PROVE FALSE
        <5>1. i - m \in 1..n /\ (i - m) + m = i
          BY <3>2, <3>4, <4>1
        <5>2. i - m \in DOMAIN token
          BY <1>3, <5>1 DEF n
        <5>3. u[(i - m) + m] = 0
          BY <3>1, <3>3, <5>1, <5>2
        <5>4. QED BY <1>4, <5>1, <5>3
      <4>2. QED BY <3>2, <3>4, <4>1
    <3>6. i \in DOMAIN filling /\ filling[i] # 0
      BY <1>3, <1>4, <3>3, <3>5 DEF m
    <3>7. QED BY <3>6 DEF Fits
  <2>3. QED BY <1>1, <2>1, <2>2
<1>5. QED BY <1>1, <1>2, <1>4 DEF Fits

\* The letters that have been placed.
Placed(done, token) == TextIn(done) \o Letters(token)

\* Rows and the row being filled, and their letters.
LEMMA DonesAre ==
  /\ \A width : \A done \in Dones(width) :
       /\ done = Laid(done.rows, done.current)
       /\ done.rows \in Seq(Fitting(width)) /\ done.current \in Seq(Nat) /\ Fits(done.current, width)
  /\ \A width, rows, filling :
       rows \in Seq(Fitting(width)) /\ filling \in Seq(Nat) /\ Fits(filling, width)
         => Laid(rows, filling) \in Dones(width)
  /\ \A rows, filling : TextIn(Laid(rows, filling)) = Together(RowLetters(rows), Letters(filling))
<1>1. \A width : \A done \in Dones(width) :
       /\ done = Laid(done.rows, done.current)
       /\ done.rows \in Seq(Fitting(width)) /\ done.current \in Seq(Nat) /\ Fits(done.current, width)
  BY DEF Dones, Laid, Within
<1>2. \A width, rows, filling :
       rows \in Seq(Fitting(width)) /\ filling \in Seq(Nat) /\ Fits(filling, width)
         => Laid(rows, filling) \in Dones(width)
  BY DEF Dones, Laid, Within
<1>3. \A rows, filling : TextIn(Laid(rows, filling)) = Together(RowLetters(rows), Letters(filling))
  BY DEF TextIn, Laid, Together
<1>4. QED BY <1>1, <1>2, <1>3

\* A token is added to the letters that are placed, and all rows fit.
LEMMA PlaceKeeps ==
  ASSUME NEW width \in Nat \ {0}, NEW done \in Dones(width), NEW token \in Token
  PROVE  /\ Place(done, token, width) \in Dones(width)
         /\ TextIn(Place(done, token, width)) = Placed(done, token)
<1> DEFINE rows == done.rows
           filling == done.current
           next == Place(done, token, width)
           a == RowLetters(rows)
           b == Letters(filling)
           t == Letters(token)
           S == Fitting(width)
<1>1. /\ done = Laid(rows, filling) /\ rows \in Seq(S)
      /\ filling \in Seq(Nat) /\ Fits(filling, width)
  BY DonesAre
<1> HIDE DEF rows, filling, next, S
<1>2. token \in Seq(Nat) /\ a \in Seq(Nat) /\ b \in Seq(Nat) /\ t \in Seq(Nat)
  BY <1>1, RowLettersIs, LettersIs, TokenIs DEF S
<1>3. TextIn(done) = a \o b
  BY <1>1, DonesAre DEF Together
<1> HIDE DEF a, b, t
<1> DEFINE ab == a \o b
<1>4. ab \in Seq(Nat) /\ ab \o <<>> = ab /\ a \o (b \o t) = ab \o t
  <2>1. ab \in Seq(Nat)
    BY <1>2
  <2>2. (a \o b) \o t = a \o (b \o t)
    <3> DEFINE N == Nat
    <3>1. a \in Seq(N) /\ b \in Seq(N) /\ t \in Seq(N)
      BY <1>2
    <3> HIDE DEF N, ab
    <3>2. QED BY <3>1
  <2> HIDE DEF ab
  <2>3. ab \o <<>> = ab
    BY <2>1
  <2>4. QED BY <2>1, <2>2, <2>3 DEF ab
<1>5. Placed(done, token) = ab \o t
  BY <1>3 DEF Placed, t
<1> HIDE DEF ab
<1>6. RowOf(filling) \in Seq(S) /\ RowLetters(RowOf(filling)) = b
  BY <1>1, RowOfKeeps DEF RowLetters, S, b
<1> DEFINE rc == rows \o RowOf(filling)
<1>7. rc \in Seq(S) /\ RowLetters(rc) = ab
  <2> DEFINE r == RowOf(filling)
  <2>1. rc = rows \o r /\ r \in Seq(S) /\ RowLetters(r) = b
    BY <1>6
  <2> HIDE DEF rc, r
  <2>2. rc \in Seq(S) /\ RowLetters(rc) = Together(RowLetters(rows), RowLetters(r))
    <3>1. IsJoin(rc, rows, r) /\ rows \in Rows(width) /\ r \in Rows(width)
      BY <1>1, <2>1 DEF S, Rows, IsJoin
    <3>2. rc \in Rows(width) /\ RowLetters(rc) = Together(RowLetters(rows), RowLetters(r))
      BY <3>1, RowLettersConcat
    <3>3. QED BY <3>2 DEF S, Rows
  <2>3. QED BY <2>1, <2>2 DEF Together, a, ab
<1> HIDE DEF rc
<1>8. \/ next = done /\ Letters(token) = <<>>
      \/ /\ next = Laid(rows, filling \o token)
         /\ Letters(token) = <<>> \/ Len(filling \o token) <= width
      \/ next = Laid(rc \o Chunks(token, width), <<>>)
      \/ /\ next = Laid(rc, token)
         /\ ~(Len(token) > width)
  BY <1>1, PlaceCases DEF next, rc
<1>9. CASE next = done /\ Letters(token) = <<>>
  BY <1>3, <1>4, <1>5, <1>9 DEF t, next, ab
<1>10. CASE /\ next = Laid(rows, filling \o token)
            /\ Letters(token) = <<>> \/ Len(filling \o token) <= width
  <2> DEFINE u == filling \o token
  <2>1. u \in Seq(Nat) /\ Fits(u, width)
    BY <1>1, <1>10, FitsMore
  <2>2. Letters(u) = b \o t
    <3>1. u = filling \o token
      OBVIOUS
    <3> HIDE DEF u
    <3>2. Letters(u) = BothLetters(filling, token)
      BY <1>1, <1>2, <3>1, LettersConcat
    <3>3. QED BY <3>2 DEF BothLetters, b, t
  <2>3. next = Laid(rows, u)
    BY <1>10
  <2> HIDE DEF u
  <2>4. next \in Dones(width)
    BY <1>1, <2>1, <2>3, DonesAre DEF S
  <2>5. TextIn(next) = a \o (b \o t)
    BY <2>2, <2>3, DonesAre DEF Together, a
  <2>6. QED BY <1>4, <1>5, <2>4, <2>5 DEF next
<1>11. CASE next = Laid(rc \o Chunks(token, width), <<>>)
  <2> DEFINE ch == Chunks(token, width)
             u == rc \o ch
  <2>1. ch \in Seq(S) /\ RowLetters(ch) = t
    BY <1>2, ChunksKeep DEF RowLetters, S, t
  <2>2. u = rc \o ch
    OBVIOUS
  <2>3. next = Laid(u, <<>>)
    BY <1>11
  <2> HIDE DEF ch, u
  <2>4. u \in Seq(S) /\ RowLetters(u) = Together(RowLetters(rc), RowLetters(ch))
    <3>1. IsJoin(u, rc, ch) /\ rc \in Rows(width) /\ ch \in Rows(width)
      BY <1>7, <2>1, <2>2 DEF S, Rows, IsJoin
    <3>2. u \in Rows(width) /\ RowLetters(u) = Together(RowLetters(rc), RowLetters(ch))
      BY <3>1, RowLettersConcat
    <3>3. QED BY <3>2 DEF S, Rows
  <2>5. next \in Dones(width)
    BY <2>3, <2>4, NoLetters, DonesAre DEF S
  <2>6. TextIn(next) = RowLetters(u) \o <<>>
    BY <2>3, NoLetters, DonesAre DEF Together
  <2>7. RowLetters(u) = ab \o t
    BY <1>7, <2>1, <2>4 DEF Together
  <2>8. RowLetters(u) \o <<>> = RowLetters(u)
    <3> DEFINE v == RowLetters(u)
    <3>1. v \in Seq(Nat)
      BY <2>4, RowLettersIs DEF S
    <3> HIDE DEF v
    <3>2. v \o <<>> = v
      BY <3>1
    <3>3. QED BY <3>2 DEF v
  <2>9. QED BY <1>5, <2>5, <2>6, <2>7, <2>8 DEF next
<1>12. CASE next = Laid(rc, token) /\ ~(Len(token) > width)
  <2>1. Fits(token, width)
    <3>1. DOMAIN token = 1..Len(token) /\ Len(token) \in Nat
      BY <1>2
    <3>2. QED BY <1>12, <3>1 DEF Fits
  <2>2. next \in Dones(width)
    BY <1>2, <1>7, <1>12, <2>1, DonesAre DEF S
  <2>3. TextIn(next) = ab \o t
    BY <1>7, <1>12, DonesAre DEF Together, t
  <2>4. QED BY <1>5, <2>2, <2>3 DEF next
<1>13. QED BY <1>8, <1>9, <1>10, <1>11, <1>12

-----------------------------------------------------------------------------
(* All tokens of a line.                                                   *)

NoneDone == Laid(<<>>, <<>>)

\* At first nothing is placed.
LEMMA NoneDoneIs ==
  ASSUME NEW width
  PROVE  NoneDone \in Dones(width) /\ TextIn(NoneDone) = <<>>
<1>1. <<>> \in Seq(Fitting(width)) /\ RowLetters(<<>>) = <<>> /\ <<>> \o <<>> = <<>>
  BY FlatEmpty, NoLetters DEF RowLetters
<1>2. QED BY <1>1, NoLetters, DonesAre DEF NoneDone, Together

\* The tokens are placed one by one.
LEMMA FilledIs ==
  ASSUME NEW width \in Nat \ {0}, NEW tokens \in Seq(Token)
  PROVE  \E g \in [0..Len(tokens) -> Dones(width)] :
            /\ g[0] = NoneDone
            /\ \A i \in 1..Len(tokens) : g[i] = Place(g[i - 1], tokens[i], width)
            /\ Filled(tokens, width) = g[Len(tokens)]
<1> DEFINE n == Len(tokens)
           R == Dones(width)
           step == [i \in 1..n |-> [r \in R |-> Place(r, tokens[i], width)]]
           Is(f) == f = [i \in 0..n |-> IF i = 0 THEN [rows |-> <<>>, current |-> <<>>]
                                                 ELSE Place(f[i - 1], tokens[i], width)]
           c == CHOOSE f : Is(f)
<1>0. NoneDone = [rows |-> <<>>, current |-> <<>>]
  BY DEF NoneDone, Laid
<1>1. n \in Nat /\ \A i \in 1..n : tokens[i] \in Token
  OBVIOUS
<1>2. step \in [1..n -> [R -> R]]
  <2> HIDE DEF n, R
  <2>1. \A i \in 1..n, r \in R : Place(r, tokens[i], width) \in R
    BY <1>1, PlaceKeeps DEF R
  <2>2. QED BY <2>1
<1>3. NoneDone \in R
  BY NoneDoneIs
<1>4. PICK g \in [0..n -> R] : g[0] = NoneDone /\ \A i \in 1..n : g[i] = step[i][g[i - 1]]
  <2> HIDE DEF step, n, R
  <2>1. \E g : g \in FoldOf(n, R, NoneDone, step)
    BY <1>1, <1>2, <1>3, FoldExists
  <2>2. QED BY <2>1 DEF FoldOf
<1>5. ASSUME NEW i \in 1..n PROVE g[i] = Place(g[i - 1], tokens[i], width)
  <2> HIDE DEF R
  <2>1. i - 1 \in 0..n
    BY <1>1
  <2>2. g[i - 1] \in R
    BY <2>1
  <2>3. g[i] = step[i][g[i - 1]]
    BY <1>4
  <2>4. QED BY <2>2, <2>3
<1>6. Is(g)
  <2> HIDE DEF n, R
  <2>1. \A i \in 0..n : g[i] = IF i = 0 THEN NoneDone ELSE Place(g[i - 1], tokens[i], width)
    BY <1>1, <1>4, <1>5
  <2>2. QED BY <1>0, <2>1
<1>7. Is(c)
  <2> HIDE DEF Is
  <2> QED BY <1>6
<1>8. Filled(tokens, width) = c[n]
  BY Zenon DEF Filled
<1> HIDE DEF c
<1>9. StepAlike(n, g, c)
  <2>1. c[0] = NoneDone
    BY <1>0, <1>1, <1>7
  <2>2. \A i \in 1..n : c[i] = Place(c[i - 1], tokens[i], width)
    BY <1>1, <1>7
  <2>3. QED BY <1>4, <1>5, <2>1, <2>2 DEF StepAlike
<1>10. g[n] = c[n]
  <2> HIDE DEF n
  <2> QED BY <1>1, <1>9, FoldsAgree
<1>11. QED BY <1>4, <1>5, <1>8, <1>10

\* Nothing is lost while the rows are filled.
LEMMA FilledKeeps ==
  ASSUME NEW width \in Nat \ {0}, NEW tokens \in Seq(Token)
  PROVE  /\ Filled(tokens, width) \in Dones(width)
         /\ FlattenSeq(tokens) \in Seq(Nat)
         /\ TextIn(Filled(tokens, width)) = Letters(FlattenSeq(tokens))
<1> DEFINE n == Len(tokens)
           R == Dones(width)
<1>1. n \in Nat /\ \A i \in 1..n : tokens[i] \in Token
  OBVIOUS
<1>2. PICK g \in [0..n -> R] :
            /\ g[0] = NoneDone
            /\ \A i \in 1..n : g[i] = Place(g[i - 1], tokens[i], width)
            /\ Filled(tokens, width) = g[n]
  BY FilledIs
<1>3. tokens \in Seq(Seq(Nat))
  <2>1. Token \subseteq Seq(Nat)
    BY TokenIs
  <2>2. QED BY <2>1
<1>4. PICK f \in [0..n -> Seq(Nat)] :
            /\ f[0] = <<>> /\ \A i \in 1..n : f[i] = f[i - 1] \o tokens[i]
            /\ FlattenSeq(tokens) = f[n]
  BY <1>3, FlatIs
<1> DEFINE Q == {i \in 0..n : TextIn(g[i]) = Letters(f[i])}
<1> HIDE DEF n, R
<1>5. 0 \in Q
  <2>1. TextIn(NoneDone) = Letters(<<>>)
    BY NoneDoneIs, NoLetters
  <2>2. 0 \in 0..n
    BY <1>1
  <2>3. QED BY <1>2, <1>4, <2>1, <2>2
<1>6. ASSUME NEW m \in 0..(n - 1), m \in Q PROVE m + 1 \in Q
  <2>1. m \in 0..n /\ m + 1 \in 1..n /\ (m + 1) - 1 = m /\ m + 1 \in 0..n
    BY <1>1
  <2> DEFINE t == tokens[m + 1]
             d == g[m]
             u == f[m]
             v == f[m + 1]
             e == g[m + 1]
  <2>2. t \in Token /\ t \in Seq(Nat) /\ d \in R /\ u \in Seq(Nat)
    BY <1>1, <2>1, TokenIs
  <2>3. e = Place(d, t, width) /\ v = u \o t
    BY <1>2, <1>4, <2>1
  <2>4. TextIn(d) = Letters(u)
    BY <1>6
  <2> HIDE DEF t, d, u, v, e
  <2>5. TextIn(e) = TextIn(d) \o Letters(t)
    BY <2>2, <2>3, PlaceKeeps DEF Placed, R
  <2>6. Letters(v) = Letters(u) \o Letters(t)
    BY <2>2, <2>3, LettersConcat DEF BothLetters
  <2>7. TextIn(e) = Letters(v)
    BY <2>4, <2>5, <2>6
  <2>8. QED BY <2>1, <2>7 DEF e, v
<1>7. n \in Q
  <2> HIDE DEF Q
  <2>1. \A m \in 0..n : m \in Q
    BY <1>1, <1>5, <1>6, UpTo
  <2>2. QED BY <1>1, <2>1
<1>8. g[n] \in R /\ f[n] \in Seq(Nat)
  BY <1>1
<1>9. QED BY <1>2, <1>4, <1>7, <1>8 DEF R

\* A line that is too long for a row, laid out in rows.
LEMMA FilledRows ==
  ASSUME NEW width \in Nat \ {0}, NEW tokens \in Seq(Token), NEW done,
         done = Filled(tokens, width)
  PROVE  /\ done.rows \o RowOf(done.current) \in Seq(Fitting(width))
         /\ RowLetters(done.rows \o RowOf(done.current)) = Letters(FlattenSeq(tokens))
<1> DEFINE a == done.rows
           cur == done.current
           r == RowOf(cur)
           u == a \o r
           S == Fitting(width)
<1>1. /\ done \in Dones(width)
      /\ TextIn(done) = Letters(FlattenSeq(tokens))
  BY FilledKeeps
<1>2. a \in Seq(S) /\ cur \in Seq(Nat) /\ Fits(cur, width)
  BY <1>1, DonesAre
<1>3. TextIn(done) = RowLetters(a) \o Letters(cur)
  BY DEF TextIn
<1> HIDE DEF cur
<1>4. r \in Seq(S) /\ RowLetters(r) = Letters(cur)
  BY <1>2, RowOfKeeps DEF RowLetters
<1>5. u = a \o r
  OBVIOUS
<1> HIDE DEF a, r, u, S
<1>6. u \in Seq(S) /\ RowLetters(u) = Together(RowLetters(a), RowLetters(r))
  <2>1. IsJoin(u, a, r) /\ a \in Rows(width) /\ r \in Rows(width)
    BY <1>2, <1>4, <1>5 DEF S, Rows, IsJoin
  <2>2. u \in Rows(width) /\ RowLetters(u) = Together(RowLetters(a), RowLetters(r))
    BY <2>1, RowLettersConcat
  <2>3. QED BY <2>2 DEF S, Rows
<1>7. RowLetters(u) = TextIn(done)
  BY <1>3, <1>4, <1>6 DEF Together
<1>8. QED BY <1>1, <1>6, <1>7 DEF u, a, r, S, cur

-----------------------------------------------------------------------------
(* A line of text.                                                         *)

\* A word and the blanks before it.
Piece == [gap : Nat, length : Nat \ {0}]

\* The lines of a strip.
LEMMA LineIs ==
  ASSUME NEW width \in Columns
  PROVE  BoundedSeq([gap : Gap, length : WordLength(width)], MaxWords) \subseteq Seq(Piece)
<1> DEFINE T == [gap : Gap, length : WordLength(width)]
<1>1. MaxWords \in Nat /\ T \subseteq Piece
  BY LayoutAssumption DEF Piece, Columns
<1> HIDE DEF T
<1>2. ASSUME NEW n \in 0..MaxWords, NEW s \in [1..n -> T] PROVE s \in Seq(Piece)
  <2>1. n \in Nat /\ s \in [1..n -> Piece]
    BY <1>1
  <2>2. QED BY <2>1
<1>3. QED BY <1>2 DEF BoundedSeq, SeqOf, T

\* Blanks are blank.
LEMMA BlanksAre ==
  ASSUME NEW n \in Nat
  PROVE  Blanks(n) \in Seq({0}) /\ Len(Blanks(n)) = n /\ \A i \in 1..n : Blanks(n)[i] = 0
BY DEF Blanks

\* Words have letters only.
LEMMA WordIs ==
  ASSUME NEW i \in Nat, NEW n \in Nat
  PROVE  Word(i, n) \in Seq(Nat \ {0}) /\ Len(Word(i, n)) = n
<1>1. \A j \in 1..n : 1000 * i + j \in Nat \ {0}
  OBVIOUS
<1>2. Word(i, n) \in [1..n -> Nat \ {0}]
  BY <1>1 DEF Word
<1>3. QED BY <1>2

\* The tokens of a line.
LEMMA TokensAre ==
  ASSUME NEW line \in Seq(Piece)
  PROVE  Tokens(line) \in Seq(Token) /\ TextOf(line) \in Seq(Nat)
<1> DEFINE two(i) == <<Blanks(line[i].gap), Word(i, line[i].length)>>
           ss == [i \in DOMAIN line |-> two(i)]
<1>1. ASSUME NEW i \in DOMAIN line PROVE two(i) \in Seq(Token)
  <2>1. line[i] \in Piece /\ i \in Nat
    OBVIOUS
  <2>2. line[i].gap \in Nat /\ line[i].length \in Nat
    BY <2>1 DEF Piece
  <2>3. Blanks(line[i].gap) \in Token /\ Word(i, line[i].length) \in Token
    BY <2>1, <2>2, BlanksAre, WordIs DEF Token
  <2>4. QED BY <2>3
<1>2. ss \in Seq(Seq(Token))
  <2> HIDE DEF two
  <2>1. DOMAIN line = 1..Len(line) /\ Len(line) \in Nat
    OBVIOUS
  <2>2. ss \in [1..Len(line) -> Seq(Token)]
    BY <1>1, <2>1
  <2>3. QED BY <2>1, <2>2
<1>3. Tokens(line) = FlattenSeq(ss)
  BY Zenon DEF Tokens
<1> HIDE DEF ss
<1>4. Tokens(line) \in Seq(Token)
  BY <1>2, <1>3, FlatType
<1>5. TextOf(line) \in Seq(Nat)
  <2>1. Token \subseteq Seq(Nat)
    BY TokenIs
  <2>2. Tokens(line) \in Seq(Seq(Nat))
    BY <1>4, <2>1
  <2>3. QED BY <2>2, FlatType DEF TextOf
<1>6. QED BY <1>4, <1>5

\* A line is laid out in rows that fit, with each of its letters in its place.
LEMMA WrapKeeps ==
  ASSUME NEW width \in Nat \ {0}, NEW line \in Seq(Piece)
  PROVE  /\ WrapLines(line, width) \in Seq(Fitting(width))
         /\ RowLetters(WrapLines(line, width)) = Letters(TextOf(line))
<1> DEFINE text == TextOf(line)
           tokens == Tokens(line)
           done == Filled(tokens, width)
<1>1. tokens \in Seq(Token) /\ text \in Seq(Nat)
  BY TokensAre
<1>2. text = FlattenSeq(tokens)
  BY DEF TextOf
<1>3. WrapLines(line, width) = IF Len(text) <= width THEN <<text>>
                               ELSE done.rows \o RowOf(done.current)
  BY Zenon DEF WrapLines
<1> HIDE DEF text, tokens
<1>4. CASE Len(text) <= width
  <2>1. <<text>> \in Seq(Fitting(width))
    <3>1. text \in Fitting(width)
      BY <1>1, <1>4 DEF Fitting
    <3>2. QED BY <3>1
  <2>2. FlattenSeq(<<text>>) = text
    BY <1>1, FlatSingle
  <2>3. QED BY <1>3, <1>4, <2>1, <2>2 DEF RowLetters, text
<1>5. CASE ~(Len(text) <= width)
  <2>1. done = Filled(tokens, width)
    OBVIOUS
  <2> HIDE DEF done
  <2>2. /\ done.rows \o RowOf(done.current) \in Seq(Fitting(width))
        /\ RowLetters(done.rows \o RowOf(done.current)) = Letters(FlattenSeq(tokens))
    BY <1>1, <2>1, FilledRows
  <2>3. QED BY <1>2, <1>3, <1>5, <2>2 DEF text
<1>6. QED BY <1>4, <1>5

-----------------------------------------------------------------------------
(* A label and its value.                                                  *)

\* A value that fits in a row keeps its letters, at the end of the row.
LEMMA JustifiedIs ==
  ASSUME NEW value \in Seq(Nat \ {0}), NEW width \in Nat, Len(value) <= width
  PROVE  RightJustified(value, width) \in Seq(Nat)
         /\ Letters(RightJustified(value, width)) = value
<1> DEFINE n == width - Len(value)
           b == Blanks(n)
           u == b \o value
<1>1. n \in Nat /\ Len(value) \in Nat
  OBVIOUS
<1>2. value \in Seq(Nat) /\ Letters(value) = value
  BY LettersOfWord
<1>3. b \in Seq({0}) /\ Len(b) = n
  BY <1>1, BlanksAre
<1>4. b \in Seq(Nat) /\ Letters(b) = <<>>
  BY <1>3, LettersOfBlanks
<1>5. u = b \o value
  OBVIOUS
<1>6. n = IF Len(value) < width THEN width - Len(value) ELSE 0
  OBVIOUS
<1>7. RightJustified(value, width) = SubSeq(u, 1, width)
  BY <1>6 DEF RightJustified
<1> HIDE DEF b, u
<1>8. u \in Seq(Nat) /\ IsConcat(u, b, value)
  BY <1>2, <1>4, <1>5, ConcatIs
<1>9. Len(u) = width
  BY <1>1, <1>3, <1>8 DEF IsConcat
<1>10. SubSeq(u, 1, width) = u
  BY <1>8, <1>9
<1>11. Letters(u) = <<>> \o value
  <2>1. Letters(u) = BothLetters(b, value)
    BY <1>2, <1>4, <1>5, LettersConcat
  <2>2. QED BY <1>2, <1>4, <2>1 DEF BothLetters
<1>12. <<>> \o value = value
  OBVIOUS
<1>13. QED BY <1>7, <1>8, <1>10, <1>11, <1>12

\* What is printed for a label and its value.
PairKeeps(pair, label, value, width) ==
  /\ Len(pair) = 1 => Len(pair[1]) = width /\ 0 \in Range(pair[1])
  /\ Len(value) <= width => Letters(FlattenSeq(pair)) = label \o value

\* A label and a value in one row, apart.
LEMMA OneRowKeeps ==
  ASSUME NEW label \in Seq(Nat \ {0}), NEW value \in Seq(Nat \ {0}), NEW width \in Nat \ {0},
         Len(label) + Len(value) < width
  PROVE  PairKeeps(KeyValue(label, value, width), label, value, width)
<1> DEFINE n == width - Len(label) - Len(value)
           b == Blanks(n)
           lb == label \o b
           u == lb \o value
<1>1. n \in Nat \ {0} /\ Len(value) \in Nat /\ Len(label) \in Nat
  OBVIOUS
<1>2. /\ value \in Seq(Nat) /\ Letters(value) = value
      /\ label \in Seq(Nat) /\ Letters(label) = label
  BY LettersOfWord
<1>3. b \in Seq({0}) /\ Len(b) = n /\ b[1] = 0
  <2>1. 1 \in 1..n
    BY <1>1
  <2> HIDE DEF n
  <2>2. QED BY <1>1, <2>1, BlanksAre
<1>4. b \in Seq(Nat) /\ Letters(b) = <<>>
  BY <1>3, LettersOfBlanks
<1>5. KeyValue(label, value, width) = <<u>>
  <2>1. ~(Len(label) + Len(value) >= width)
    BY <1>1
  <2>2. KeyValue(label, value, width)
          = <<label \o Blanks(width - Len(label) - Len(value)) \o value>>
    BY <2>1, Zenon DEF KeyValue
  <2>3. QED BY <2>2, Zenon
<1>6. u = lb \o value /\ lb = label \o b
  OBVIOUS
<1> HIDE DEF n, b, lb, u
<1>7. lb \in Seq(Nat) /\ IsConcat(lb, label, b)
  BY <1>2, <1>4, <1>6, ConcatIs
<1>8. u \in Seq(Nat) /\ IsConcat(u, lb, value)
  BY <1>2, <1>6, <1>7, ConcatIs
<1>9. Len(lb) = Len(label) + n /\ Len(u) = width
  BY <1>1, <1>3, <1>7, <1>8 DEF IsConcat, n
<1>10. 0 \in Range(u)
  <2> DEFINE m == Len(label) + 1
  <2>1. m \in 1..Len(lb) /\ m \in 1..Len(u) /\ m = 1 + Len(label) /\ 1 \in 1..Len(b)
    BY <1>1, <1>3, <1>9
  <2>2. lb[1 + Len(label)] = b[1]
    BY <1>7, <2>1 DEF IsConcat
  <2> HIDE DEF m
  <2>3. u[m] = lb[m]
    BY <1>8, <2>1 DEF IsConcat
  <2>4. u[m] = 0 /\ m \in DOMAIN u
    BY <1>3, <1>8, <2>1, <2>2, <2>3
  <2>5. QED BY <2>4 DEF Range
<1>11. Letters(u) = label \o value
  <2>1. Letters(lb) = label \o <<>>
    <3>1. lb = label \o b /\ label \in Seq(Nat) /\ b \in Seq(Nat)
      BY <1>2, <1>4, <1>6
    <3>2. Letters(lb) = BothLetters(label, b)
      BY <3>1, LettersConcat
    <3>3. QED BY <1>2, <1>4, <3>2 DEF BothLetters
  <2>2. label \o <<>> = label
    OBVIOUS
  <2>3. Letters(u) = Letters(lb) \o value
    <3>1. u = lb \o value /\ lb \in Seq(Nat) /\ value \in Seq(Nat)
      BY <1>2, <1>6, <1>7
    <3>2. Letters(u) = BothLetters(lb, value)
      BY <3>1, LettersConcat
    <3>3. QED BY <1>2, <3>2 DEF BothLetters
  <2>4. QED BY <2>1, <2>2, <2>3
<1>12. FlattenSeq(<<u>>) = u
  BY <1>8, FlatSingle
<1>13. Len(<<u>>) = 1 /\ <<u>>[1] = u
  OBVIOUS
<1>14. QED BY <1>5, <1>9, <1>10, <1>11, <1>12, <1>13 DEF PairKeeps

\* A label and its value: in one row apart, or in two.
LEMMA KeyValueKeeps ==
  ASSUME NEW label \in Seq(Nat \ {0}), NEW value \in Seq(Nat \ {0}), NEW width \in Nat \ {0}
  PROVE  PairKeeps(KeyValue(label, value, width), label, value, width)
<1>1. CASE Len(label) + Len(value) < width
  BY <1>1, OneRowKeeps
<1>2. CASE ~(Len(label) + Len(value) < width)
  <2> DEFINE r == RightJustified(value, width)
             p == KeyValue(label, value, width)
  <2>1. p = <<label, r>>
    BY <1>2 DEF KeyValue
  <2>2. Len(<<label, r>>) # 1
    OBVIOUS
  <2>3. ASSUME Len(value) <= width PROVE Letters(FlattenSeq(p)) = label \o value
    <3>1. r \in Seq(Nat) /\ Letters(r) = value
      BY <2>3, JustifiedIs
    <3>2. label \in Seq(Nat) /\ Letters(label) = label
      BY LettersOfWord
    <3> HIDE DEF r
    <3> DEFINE a == <<label>>
               b == <<r>>
               u == label \o r
    <3>3. a \in Seq(Seq(Nat)) /\ b \in Seq(Seq(Nat)) /\ <<label, r>> = a \o b
      BY <3>1, <3>2
    <3>4. FlattenSeq(a) = label /\ FlattenSeq(b) = r
      BY <3>1, <3>2, FlatSingle
    <3>5. u = label \o r
      OBVIOUS
    <3> HIDE DEF a, b, p, u
    <3>6. FlattenSeq(a \o b) = FlattenSeq(a) \o FlattenSeq(b)
      <4> DEFINE N == Nat
      <4>1. a \in Seq(Seq(N)) /\ b \in Seq(Seq(N))
        BY <3>3
      <4> HIDE DEF N
      <4>2. QED BY <4>1, FlatConcat
    <3>7. FlattenSeq(p) = u
      BY <2>1, <3>3, <3>4, <3>5, <3>6
    <3>8. Letters(u) = label \o value
      BY <3>1, <3>2, <3>5, LettersConcat DEF BothLetters
    <3>9. QED BY <3>7, <3>8
  <2>4. QED BY <2>1, <2>2, <2>3 DEF PairKeeps
<1>3. QED BY <1>1, <1>2

-----------------------------------------------------------------------------
(* The tickets.                                                            *)

\* The rows that are no dividers.
Names == {"CALLSIGN", "ALTN", "DATE", "STD", "STA", "ROUTE", "CRUISE", "FUEL", "EZFW", "ETOW",
          "PAX", "CARGO", "ZFW", "TOW", "TAKEOFF FUEL", "DEP RWY", "CRZ", "LDW", "BLOCK FUEL",
          "TRIP FUEL", "AVG WIND", "AVG ISA"}
Row == Names \cup Divider
Div(x) == x \in Divider

\* Rows of a ticket.
Strip == Seq(Row)

\* No two dividers in a row.
Tied(s) == \A i \in 2..Len(s) : ~(Div(s[i - 1]) /\ Div(s[i]))
Plain(s) == \A i \in 1..Len(s) : ~Div(s[i])
Opens(s) == Len(s) > 0 => ~Div(s[1])
Ends(s) == Len(s) > 0 /\ ~Div(s[Len(s)])
Sound(s) == s \in Strip /\ Tied(s)

\* May follow a divider.
Soft(s) == Sound(s) /\ Opens(s)

\* A divider may follow.
Firm(s) == Sound(s) /\ Ends(s)

\* No dividers at all.
Wordy(s) == s \in Strip /\ Plain(s)

\* Rows joined to rows.
LEMMA StripJoin ==
  ASSUME NEW s \in Strip, NEW t \in Strip, NEW u, u = s \o t
  PROVE  u \in Strip /\ IsConcat(u, s, t)
BY ConcatIs DEF Strip

\* They join soundly where one of two neighbours is no divider.
LEMMA TiedJoin ==
  ASSUME NEW s, Sound(s), NEW t, Sound(t), NEW u, u = s \o t, Opens(t) \/ Ends(s)
  PROVE  Sound(u)
<1> DEFINE m == Len(s)
           n == Len(t)
<1>1. u \in Strip /\ IsConcat(u, s, t)
  BY StripJoin DEF Sound
<1>2. /\ Len(u) = m + n /\ m \in Nat /\ n \in Nat
      /\ \A i \in 1..m : u[i] = s[i]
      /\ \A i \in 1..n : u[i + m] = t[i]
  BY <1>1 DEF IsConcat
<1>3. (n > 0 => ~Div(t[1])) \/ (m > 0 /\ ~Div(s[m]))
  BY DEF Opens, Ends
<1>4. (\A i \in 2..m : ~(Div(s[i - 1]) /\ Div(s[i]))) /\ (\A i \in 2..n : ~(Div(t[i - 1]) /\ Div(t[i])))
  BY DEF Sound, Tied
<1> HIDE DEF m, n
<1>5. ASSUME NEW i \in 2..(m + n) PROVE ~(Div(u[i - 1]) /\ Div(u[i]))
  <2>1. CASE i <= m
    <3>1. i \in 1..m /\ i - 1 \in 1..m /\ i \in 2..m
      BY <1>2, <2>1
    <3>2. u[i] = s[i] /\ u[i - 1] = s[i - 1]
      BY <1>2, <3>1
    <3>3. QED BY <1>4, <3>1, <3>2
  <2>2. CASE i = m + 1
    <3>0. m \in Nat /\ n \in Nat
      BY <1>2
    <3>1. m \in 1..m /\ 1 \in 1..n /\ i = 1 + m /\ i - 1 = m
      BY <2>2, <3>0
    <3>2. u[1 + m] = t[1] /\ u[m] = s[m]
      BY <1>2, <3>1
    <3>3. QED BY <1>2, <1>3, <3>1, <3>2
  <2>3. CASE i > m + 1
    <3> DEFINE j == i - m
    <3>1. j \in 2..n /\ j \in 1..n /\ j - 1 \in 1..n /\ j + m = i /\ (j - 1) + m = i - 1
      BY <1>2, <2>3
    <3> HIDE DEF j
    <3>2. u[j + m] = t[j] /\ u[(j - 1) + m] = t[j - 1]
      BY <1>2, <3>1
    <3>3. QED BY <1>4, <3>1, <3>2
  <2>4. QED BY <1>2, <2>1, <2>2, <2>3
<1>6. QED BY <1>1, <1>2, <1>5 DEF Sound, Tied

\* What they end in.
LEMMA EndsJoin ==
  ASSUME NEW s \in Strip, NEW t \in Strip, NEW u, u = s \o t,
         Ends(t) \/ (Ends(s) /\ Plain(t))
  PROVE  Ends(u)
<1> DEFINE m == Len(s)
           n == Len(t)
<1>1. IsConcat(u, s, t)
  BY StripJoin
<1>2. /\ Len(u) = m + n /\ m \in Nat /\ n \in Nat
      /\ \A i \in 1..m : u[i] = s[i]
      /\ \A i \in 1..n : u[i + m] = t[i]
  BY <1>1 DEF IsConcat
<1>3. CASE n > 0
  <2>1. ~Div(t[n]) /\ n \in 1..n
    BY <1>2, <1>3 DEF Ends, Plain
  <2> HIDE DEF m, n
  <2>2. u[n + m] = t[n] /\ n + m = m + n /\ n + m > 0
    <3>1. u[n + m] = t[n]
      BY <1>2, <2>1
    <3>2. n + m = m + n /\ n + m > 0
      BY <1>2, <1>3, <2>1
    <3>3. QED BY <3>1, <3>2
  <2>3. QED BY <1>2, <2>1, <2>2 DEF Ends
<1>4. CASE n = 0
  <2>1. m > 0 /\ ~Div(s[m])
    BY <1>4 DEF Ends
  <2> HIDE DEF m, n
  <2>2. m \in 1..m /\ Len(u) = m
    BY <1>2, <1>4, <2>1
  <2>3. u[m] = s[m]
    BY <1>2, <2>2
  <2>4. QED BY <2>1, <2>2, <2>3 DEF Ends
<1> HIDE DEF n
<1>5. QED BY <1>2, <1>3, <1>4

\* Rows without dividers join anything.
LEMMA PlainIsSoft ==
  ASSUME NEW s, Wordy(s)
  PROVE  Soft(s) /\ (Len(s) > 0 => Firm(s))
<1>1. Len(s) \in Nat
  BY DEF Wordy, Strip
<1>2. Tied(s)
  BY <1>1 DEF Wordy, Plain, Tied
<1>3. Opens(s)
  BY <1>1 DEF Wordy, Plain, Opens
<1>4. Len(s) > 0 => Ends(s)
  BY <1>1 DEF Wordy, Plain, Ends
<1>5. QED BY <1>2, <1>3, <1>4 DEF Soft, Firm, Sound, Wordy

\* What is known of rows joined to rows: a section may follow another if one
\* of the two has a row, not a divider, where they meet.
LEMMA Joins ==
  ASSUME NEW s, NEW t, NEW u, IsJoin(u, s, t)
  PROVE  /\ Sound(s) /\ Soft(t) => Sound(u)
         /\ Firm(s) /\ Sound(t) => Sound(u)
         /\ Firm(s) /\ Wordy(t) => Firm(u)
         /\ Firm(s) /\ Firm(t) => Firm(u)
         /\ Sound(s) /\ Soft(t) /\ Ends(t) => Firm(u)
         /\ s \in Strip /\ t \in Strip => Range(u) = Range(s) \cup Range(t)
<1> USE DEF IsJoin
<1>1. Sound(s) /\ Soft(t) => Sound(u)
  BY TiedJoin DEF Soft
<1>2. Firm(s) /\ Sound(t) => Sound(u)
  BY TiedJoin DEF Firm
<1>3. Firm(s) /\ Wordy(t) => Firm(u)
  <2>1. Firm(s) /\ Wordy(t) => Sound(t) /\ s \in Strip /\ t \in Strip /\ Plain(t)
    BY PlainIsSoft DEF Soft, Firm, Sound, Wordy
  <2>2. QED BY <1>2, <2>1, EndsJoin DEF Firm
<1>4. Firm(s) /\ Firm(t) => Firm(u)
  <2>1. Firm(s) /\ Firm(t) => Sound(t) /\ s \in Strip /\ t \in Strip
    BY DEF Firm, Sound
  <2>2. QED BY <1>2, <2>1, EndsJoin DEF Firm
<1>5. Sound(s) /\ Soft(t) /\ Ends(t) => Firm(u)
  <2>1. Sound(s) /\ Soft(t) => s \in Strip /\ t \in Strip
    BY DEF Soft, Sound
  <2>2. QED BY <1>1, <2>1, EndsJoin DEF Firm
<1>6. ASSUME s \in Strip, t \in Strip PROVE Range(u) = Range(s) \cup Range(t)
  <2>1. u \in Strip /\ IsConcat(u, s, t)
    BY <1>6, StripJoin
  <2> DEFINE m == Len(s)
             n == Len(t)
  <2>2. /\ m \in Nat /\ n \in Nat
        /\ DOMAIN u = 1..(m + n) /\ DOMAIN s = 1..m /\ DOMAIN t = 1..n
        /\ \A i \in 1..m : u[i] = s[i]
        /\ \A i \in 1..n : u[i + m] = t[i]
    BY <1>6, <2>1 DEF IsConcat, Strip
  <2> HIDE DEF m, n
  <2>3. ASSUME NEW i \in 1..(m + n) PROVE u[i] \in Range(s) \cup Range(t)
    <3>1. CASE i <= m
      <4>1. i \in 1..m
        BY <2>2, <3>1
      <4>2. QED BY <2>2, <4>1 DEF Range
    <3>2. CASE i > m
      <4>1. i - m \in 1..n /\ (i - m) + m = i
        BY <2>2, <3>2
      <4>2. u[(i - m) + m] = t[i - m]
        BY <2>2, <4>1
      <4>3. QED BY <2>2, <4>1, <4>2 DEF Range
    <3>3. QED BY <2>2, <3>1, <3>2
  <2>4. ASSUME NEW i \in 1..m PROVE s[i] \in Range(u)
    <3>1. i \in 1..(m + n)
      BY <2>2
    <3>2. QED BY <2>2, <3>1 DEF Range
  <2>5. ASSUME NEW i \in 1..n PROVE t[i] \in Range(u)
    <3>1. i + m \in 1..(m + n)
      BY <2>2
    <3>2. QED BY <2>2, <3>1 DEF Range
  <2>6. Range(u) \subseteq Range(s) \cup Range(t)
    <3>1. ASSUME NEW x \in Range(u) PROVE x \in Range(s) \cup Range(t)
      <4>1. PICK i \in 1..(m + n) : x = u[i]
        BY <2>2 DEF Range
      <4>2. QED BY <2>3, <4>1
    <3>2. QED BY <3>1
  <2>7. Range(s) \subseteq Range(u)
    <3>1. ASSUME NEW x \in Range(s) PROVE x \in Range(u)
      <4>1. PICK i \in 1..m : x = s[i]
        BY <2>2 DEF Range
      <4>2. QED BY <2>4, <4>1
    <3>2. QED BY <3>1
  <2>8. Range(t) \subseteq Range(u)
    <3>1. ASSUME NEW x \in Range(t) PROVE x \in Range(u)
      <4>1. PICK i \in 1..n : x = t[i]
        BY <2>2 DEF Range
      <4>2. QED BY <2>5, <4>1
    <3>2. QED BY <3>1
  <2>9. QED BY <2>6, <2>7, <2>8
<1>7. QED BY <1>1, <1>2, <1>3, <1>4, <1>5, <1>6

\* The names of rows are no dividers.
LEMMA NamesArePlain ==
  /\ \A x \in Names : x \in Row /\ ~Div(x)
  /\ "-" \in Row /\ "=" \in Row /\ <<>> \in Strip /\ Len(<<>>) = 0
<1>1. \A x \in Names : x \in Row /\ ~Div(x)
  BY DEF Names, Div, Divider, Row
<1>2. "-" \in Row /\ "=" \in Row
  BY DEF Divider, Row
<1>3. <<>> \in Strip /\ Len(<<>>) = 0
  BY DEF Strip
<1>4. QED BY <1>1, <1>2, <1>3

\* Rows without dividers, joined.
LEMMA WordyJoin ==
  ASSUME NEW s, Wordy(s), NEW t, Wordy(t), NEW u, u = s \o t
  PROVE  Wordy(u)
<1> DEFINE m == Len(s)
           n == Len(t)
<1>1. u \in Strip /\ IsConcat(u, s, t)
  BY StripJoin DEF Wordy
<1>2. /\ Len(u) = m + n /\ m \in Nat /\ n \in Nat
      /\ \A i \in 1..m : u[i] = s[i] /\ ~Div(s[i])
      /\ \A i \in 1..n : u[i + m] = t[i] /\ ~Div(t[i])
  BY <1>1 DEF IsConcat, Wordy, Plain
<1> HIDE DEF m, n
<1>3. ASSUME NEW i \in 1..(m + n) PROVE ~Div(u[i])
  <2>1. CASE i <= m
    <3>1. i \in 1..m
      BY <1>2, <2>1
    <3>2. QED BY <1>2, <3>1
  <2>2. CASE i > m
    <3>1. i - m \in 1..n /\ (i - m) + m = i
      BY <1>2, <2>2
    <3>2. u[(i - m) + m] = t[i - m] /\ ~Div(t[i - m])
      BY <1>2, <3>1
    <3>3. QED BY <3>1, <3>2
  <2>3. QED BY <1>2, <2>1, <2>2
<1>4. QED BY <1>1, <1>2, <1>3 DEF Wordy, Plain

\* One row, or none.
LEMMA ShortWordy ==
  /\ Wordy(<<>>)
  /\ \A a \in Names : Wordy(<<a>>)
<1>1. Wordy(<<>>)
  BY NamesArePlain DEF Wordy, Plain
<1>2. ASSUME NEW a \in Names PROVE Wordy(<<a>>)
  <2>1. a \in Row /\ ~Div(a)
    BY NamesArePlain
  <2>2. <<a>> \in Strip /\ Len(<<a>>) = 1 /\ <<a>>[1] = a
    BY <2>1 DEF Strip
  <2> DEFINE s == <<a>>
  <2>3. s \in Strip /\ Len(s) = 1 /\ ~Div(s[1])
    BY <2>1, <2>2
  <2> HIDE DEF s
  <2>4. \A i \in 1..Len(s) : i = 1
    BY <2>3
  <2>5. Wordy(s)
    BY <2>3, <2>4 DEF Wordy, Plain
  <2>6. QED BY <2>5 DEF s
<1>3. QED BY <1>1, <1>2

\* A row the plan may have.
LEMMA IfKnownIs ==
  ASSUME NEW row \in Names, NEW plan
  PROVE  /\ Wordy(IfKnown(row, plan))
         /\ row \in plan => row \in Range(IfKnown(row, plan))
         /\ row \notin plan => IfKnown(row, plan) = <<>>
<1>1. row \in Range(<<row>>)
  <2>1. <<row>>[1] = row /\ 1 \in DOMAIN <<row>>
    OBVIOUS
  <2>2. QED BY <2>1, Zenon DEF Range
<1>2. QED BY <1>1, ShortWordy DEF IfKnown

\* All of the schedule the plan has.
Holds(plan, rows) == \A x \in plan \cap Schedule : x \in Range(rows)

\* The rows of the schedule.
LEMMA DatedIs ==
  ASSUME NEW plan
  PROVE  /\ Wordy(Dated(plan)) /\ Holds(plan, Dated(plan))
         /\ Dated(plan) = <<>> => plan \cap Schedule = {}
<1> DEFINE a == IfKnown("DATE", plan)
           b == IfKnown("STD", plan)
           c == IfKnown("STA", plan)
           ab == a \o b
           abc == ab \o c
<1>1. "DATE" \in Names /\ "STD" \in Names /\ "STA" \in Names
  BY DEF Names
<1>2. /\ Wordy(a) /\ Wordy(b) /\ Wordy(c)
      /\ "DATE" \in plan => "DATE" \in Range(a)
      /\ "STD" \in plan => "STD" \in Range(b)
      /\ "STA" \in plan => "STA" \in Range(c)
  BY <1>1, IfKnownIs
<1>3. Dated(plan) = abc /\ ab = a \o b
  BY DEF Dated
<1>4. abc = ab \o c
  OBVIOUS
<1> HIDE DEF a, b, c, ab, abc
<1>5. Wordy(ab)
  BY <1>2, <1>3, WordyJoin
<1>6. Wordy(abc)
  BY <1>2, <1>4, <1>5, WordyJoin
<1>7. a \in Strip /\ b \in Strip /\ c \in Strip /\ ab \in Strip /\ abc \in Strip
  BY <1>2, <1>5, <1>6 DEF Wordy
<1>8. Range(ab) = Range(a) \cup Range(b)
  BY <1>3, <1>7, Joins DEF IsJoin
<1>9. Range(abc) = Range(ab) \cup Range(c)
  BY <1>4, <1>7, Joins DEF IsJoin
<1>10. ASSUME NEW x \in plan \cap Schedule PROVE x \in Range(abc)
  <2>1. x = "DATE" \/ x = "STD" \/ x = "STA"
    BY DEF Schedule
  <2>2. QED BY <1>2, <1>8, <1>9, <2>1
<1>11. abc = <<>> => plan \cap Schedule = {}
  <2>1. Range(<<>>) = {}
    BY DEF Range
  <2>2. QED BY <1>10, <2>1
<1>12. QED BY <1>3, <1>6, <1>10, <1>11 DEF Holds

\* The rows of the winds.
LEMMA WindsAre == ASSUME NEW plan PROVE Wordy(Winds(plan))
<1>1. "AVG WIND" \in Names /\ "AVG ISA" \in Names
  BY DEF Names
<1>2. Wordy(IfKnown("AVG WIND", plan)) /\ Wordy(IfKnown("AVG ISA", plan))
  BY <1>1, IfKnownIs
<1>3. QED BY <1>2, WordyJoin DEF Winds

\* Sections with a divider after or before them, if they have rows.
LEMMA SectionsAre ==
  ASSUME NEW rows, Wordy(rows)
  PROVE  /\ Soft(BeforeDivider(rows)) /\ Range(rows) \subseteq Range(BeforeDivider(rows))
         /\ AfterDivider(rows) = <<>> \/ Firm(AfterDivider(rows))
<1> DEFINE d == <<"-">>
           rd == rows \o d
           dr == d \o rows
<1>1. Sound(d)
  <2>1. d \in Strip /\ Len(d) = 1
    <3> DEFINE x == "-"
    <3>1. x \in Row
      BY NamesArePlain
    <3> HIDE DEF x
    <3>2. <<x>> \in Strip /\ Len(<<x>>) = 1
      BY <3>1 DEF Strip
    <3>3. QED BY <3>2 DEF x
  <2>2. Tied(d)
    BY <2>1 DEF Tied
  <2>3. QED BY <2>1, <2>2 DEF Sound
<1>2. IsJoin(rd, rows, d) /\ IsJoin(dr, d, rows)
  BY DEF IsJoin
<1>3. rows # <<>> => Len(rows) > 0
  BY DEF Wordy, Strip
<1>4. /\ BeforeDivider(rows) = IF rows = <<>> THEN <<>> ELSE rd
      /\ AfterDivider(rows) = IF rows = <<>> THEN <<>> ELSE dr
  BY DEF BeforeDivider, AfterDivider
<1> HIDE DEF d, rd, dr
<1>5. CASE rows = <<>>
  BY <1>4, <1>5, PlainIsSoft
<1>6. CASE rows # <<>>
  <2>1. Soft(rows) /\ Firm(rows) /\ Opens(rows)
    BY <1>3, <1>6, PlainIsSoft DEF Soft
  <2>2. Sound(rd)
    BY <1>1, <1>2, <2>1, Joins
  <2>3. Firm(dr)
    BY <1>1, <1>2, <2>1, Joins DEF Firm
  <2>4. rows \in Strip /\ d \in Strip
    BY <1>1, <2>1 DEF Soft, Sound
  <2>5. Range(rd) = Range(rows) \cup Range(d)
    BY <1>2, <2>4, Joins
  <2>6. Opens(rd)
    <3>1. IsConcat(rd, rows, d)
      BY <1>2, <2>4, StripJoin DEF IsJoin
    <3>2. rd[1] = rows[1]
      BY <1>3, <1>6, <3>1 DEF IsConcat
    <3>3. QED BY <1>3, <1>6, <2>1, <3>2 DEF Opens
  <2>7. QED BY <1>4, <1>6, <2>2, <2>3, <2>5, <2>6 DEF Soft
<1>7. QED BY <1>5, <1>6

PlainRow(x) == x \in Row /\ ~Div(x)

\* The rows every flight plan ends in.
LEMMA LongOk ==
  ASSUME NEW d \in Row, NEW e \in Row, NEW r, PlainRow(r), NEW c, PlainRow(c), NEW f, PlainRow(f),
         NEW z, PlainRow(z), NEW t, PlainRow(t), NEW p, PlainRow(p)
  PROVE  Sound(<<d, r, d, c, d, f, d, z, t, d, p, e>>)
<1> DEFINE s == <<d, r, d, c, d, f, d, z, t, d, p, e>>
<1>1. s \in Strip /\ Len(s) = 12
  BY DEF PlainRow, Strip
<1>2. s[2] = r /\ s[4] = c /\ s[6] = f /\ s[8] = z /\ s[9] = t /\ s[11] = p
  OBVIOUS
<1> HIDE DEF s
<1>3. ~Div(s[2]) /\ ~Div(s[4]) /\ ~Div(s[6]) /\ ~Div(s[8]) /\ ~Div(s[9]) /\ ~Div(s[11])
  BY <1>2 DEF PlainRow
<1>4. ASSUME NEW i \in 2..12 PROVE ~(Div(s[i - 1]) /\ Div(s[i]))
  <2>1. \/ i = 2 \/ i - 1 = 2 \/ i = 4 \/ i - 1 = 4 \/ i = 6 \/ i - 1 = 6 \/ i = 8 \/ i - 1 = 8
        \/ i - 1 = 9 \/ i = 11 \/ i - 1 = 11
    OBVIOUS
  <2>2. QED BY <1>3, <2>1
<1>5. Sound(s)
  BY <1>1, <1>4 DEF Sound, Tied
<1>6. QED BY <1>5 DEF s

\* The rows every loadsheet ends in.
LEMMA TailOk ==
  ASSUME NEW d \in Row, NEW e \in Row, NEW p, PlainRow(p), NEW c, PlainRow(c), NEW z, PlainRow(z),
         NEW t, PlainRow(t), NEW f, PlainRow(f)
  PROVE  Soft(<<p, c, d, z, t, d, f, e>>)
<1> DEFINE s == <<p, c, d, z, t, d, f, e>>
<1>1. s \in Strip /\ Len(s) = 8
  BY DEF PlainRow, Strip
<1>2. s[1] = p /\ s[2] = c /\ s[4] = z /\ s[5] = t /\ s[7] = f
  OBVIOUS
<1> HIDE DEF s
<1>3. ~Div(s[1]) /\ ~Div(s[2]) /\ ~Div(s[4]) /\ ~Div(s[5]) /\ ~Div(s[7])
  BY <1>2 DEF PlainRow
<1>4. ASSUME NEW i \in 2..8 PROVE ~(Div(s[i - 1]) /\ Div(s[i]))
  <2>1. \/ i = 2 \/ i - 1 = 2 \/ i = 4 \/ i - 1 = 4 \/ i - 1 = 5 \/ i = 7 \/ i - 1 = 7
    OBVIOUS
  <2>2. QED BY <1>3, <2>1
<1>5. Soft(s)
  BY <1>1, <1>3, <1>4 DEF Soft, Sound, Tied, Opens
<1>6. QED BY <1>5 DEF s

\* The other rows of the tickets.
LEMMA ShortOk ==
  ASSUME NEW d \in Row, NEW e \in Row, NEW p, PlainRow(p), NEW c, PlainRow(c), NEW z, PlainRow(z)
  PROVE  /\ Sound(<<e>>) /\ Firm(<<d, p>>) /\ Firm(<<d, p, c>>) /\ Sound(<<e, p, d>>)
         /\ Soft(<<p, d, c, z>>) /\ Ends(<<p, d, c, z>>) /\ Sound(<<e, p, d, c, d>>)
<1> USE DEF PlainRow
<1>1. Sound(<<e>>)
  <2> DEFINE s == <<e>>
  <2>1. s \in Strip /\ Len(s) = 1
    BY DEF Strip
  <2> HIDE DEF s
  <2>2. Sound(s)
    BY <2>1 DEF Sound, Tied
  <2>3. QED BY <2>2 DEF s
<1>2. Firm(<<d, p>>)
  <2> DEFINE s == <<d, p>>
  <2>1. s \in Strip /\ Len(s) = 2 /\ s[2] = p
    BY DEF Strip
  <2> HIDE DEF s
  <2>2. \A i \in 2..2 : i = 2
    OBVIOUS
  <2>3. Firm(s)
    BY <2>1, <2>2 DEF Firm, Sound, Tied, Ends
  <2>4. QED BY <2>3 DEF s
<1>3. Firm(<<d, p, c>>)
  <2> DEFINE s == <<d, p, c>>
  <2>1. s \in Strip /\ Len(s) = 3 /\ s[2] = p /\ s[3] = c
    BY DEF Strip
  <2> HIDE DEF s
  <2>2. \A i \in 2..3 : i = 2 \/ i = 3
    OBVIOUS
  <2>3. Firm(s)
    BY <2>1, <2>2 DEF Firm, Sound, Tied, Ends
  <2>4. QED BY <2>3 DEF s
<1>4. Sound(<<e, p, d>>)
  <2> DEFINE s == <<e, p, d>>
  <2>1. s \in Strip /\ Len(s) = 3 /\ s[2] = p
    BY DEF Strip
  <2> HIDE DEF s
  <2>2. \A i \in 2..3 : i = 2 \/ i - 1 = 2
    OBVIOUS
  <2>3. Sound(s)
    BY <2>1, <2>2 DEF Sound, Tied
  <2>4. QED BY <2>3 DEF s
<1>5. Soft(<<p, d, c, z>>) /\ Ends(<<p, d, c, z>>)
  <2> DEFINE s == <<p, d, c, z>>
  <2>1. s \in Strip /\ Len(s) = 4 /\ s[1] = p /\ s[3] = c /\ s[4] = z
    BY DEF Strip
  <2> HIDE DEF s
  <2>2. \A i \in 2..4 : i - 1 = 1 \/ i = 3 \/ i = 4
    OBVIOUS
  <2>3. Soft(s) /\ Ends(s)
    BY <2>1, <2>2 DEF Soft, Sound, Tied, Ends, Opens
  <2>4. QED BY <2>3 DEF s
<1>6. Sound(<<e, p, d, c, d>>)
  <2> DEFINE s == <<e, p, d, c, d>>
  <2>1. s \in Strip /\ Len(s) = 5 /\ s[2] = p /\ s[4] = c
    BY DEF Strip
  <2> HIDE DEF s
  <2>2. \A i \in 2..5 : i = 2 \/ i - 1 = 2 \/ i = 4 \/ i - 1 = 4
    OBVIOUS
  <2>3. Sound(s)
    BY <2>1, <2>2 DEF Sound, Tied
  <2>4. QED BY <2>3 DEF s
<1>7. QED BY <1>1, <1>2, <1>3, <1>4, <1>5, <1>6

\* The rows they have.
LEMMA NamesAre ==
  /\ "-" \in Row /\ "=" \in Row
  /\ PlainRow("CALLSIGN") /\ PlainRow("ALTN") /\ PlainRow("ROUTE") /\ PlainRow("CRUISE")
  /\ PlainRow("FUEL")
  /\ PlainRow("EZFW") /\ PlainRow("ETOW") /\ PlainRow("PAX") /\ PlainRow("CARGO") /\ PlainRow("ZFW")
  /\ PlainRow("TOW") /\ PlainRow("TAKEOFF FUEL") /\ PlainRow("CRZ") /\ PlainRow("BLOCK FUEL")
<1>1. \A x \in Names : PlainRow(x)
  BY NamesArePlain DEF PlainRow
<1>2. /\ "CALLSIGN" \in Names /\ "ALTN" \in Names /\ "ROUTE" \in Names /\ "CRUISE" \in Names
      /\ "FUEL" \in Names /\ "EZFW" \in Names /\ "ETOW" \in Names /\ "PAX" \in Names
      /\ "CARGO" \in Names /\ "ZFW" \in Names /\ "TOW" \in Names /\ "TAKEOFF FUEL" \in Names
      /\ "CRZ" \in Names /\ "BLOCK FUEL" \in Names
  BY DEF Names
<1>3. QED BY <1>1, <1>2, NamesArePlain

\* Joined rows have the rows of the schedule one of them has.
LEMMA HoldsJoin ==
  ASSUME NEW plan, NEW s, Sound(s), NEW t, Sound(t), NEW u, IsJoin(u, s, t),
         Holds(plan, s) \/ Holds(plan, t)
  PROVE  Holds(plan, u)
<1>1. Range(u) = Range(s) \cup Range(t)
  BY Joins DEF Sound
<1>2. QED BY <1>1 DEF Holds

\* The head of a loadsheet and of take-off data.
LEMMA HeadIs ==
  ASSUME NEW plan
  PROVE  LET head == <<"=", "CALLSIGN", "-">> \o BeforeDivider(Dated(plan))
         IN Sound(head) /\ Holds(plan, head)
<1> DEFINE h == <<"=", "CALLSIGN", "-">>
           b == BeforeDivider(Dated(plan))
           u == h \o b
<1>1. Sound(h)
  BY NamesAre, ShortOk
<1>2. Soft(b) /\ Range(Dated(plan)) \subseteq Range(b)
  BY DatedIs, SectionsAre
<1>3. Holds(plan, b)
  BY <1>2, DatedIs DEF Holds
<1>4. IsJoin(u, h, b)
  BY DEF IsJoin
<1> HIDE DEF h, b, u
<1>5. Sound(u)
  BY <1>1, <1>2, <1>4, Joins
<1>6. Holds(plan, u)
  BY <1>1, <1>2, <1>3, <1>4, HoldsJoin DEF Soft
<1>7. QED BY <1>5, <1>6 DEF u, h, b

\* The loadsheet.
LEMMA LoadsheetIs ==
  ASSUME NEW plan
  PROVE  Sound(LoadsheetTicket(plan)) /\ Holds(plan, LoadsheetTicket(plan))
<1> DEFINE h == <<"=", "CALLSIGN", "-">> \o BeforeDivider(Dated(plan))
           t == <<"PAX", "CARGO", "-", "ZFW", "TOW", "-", "TAKEOFF FUEL", "=">>
           u == h \o t
<1>1. Sound(h) /\ Holds(plan, h)
  BY HeadIs
<1>2. Soft(t)
  BY NamesAre, TailOk
<1>3. LoadsheetTicket(plan) = u
  BY DEF LoadsheetTicket
<1>4. IsJoin(u, h, t)
  BY DEF IsJoin
<1> HIDE DEF h, t, u
<1>5. Sound(u)
  BY <1>1, <1>2, <1>4, Joins
<1>6. Holds(plan, u)
  BY <1>1, <1>2, <1>4, HoldsJoin DEF Soft
<1>7. QED BY <1>3, <1>5, <1>6

\* The take-off data.
LEMMA TakeoffIs ==
  ASSUME NEW plan
  PROVE  Sound(TakeoffDataTicket(plan)) /\ Holds(plan, TakeoffDataTicket(plan))
<1> DEFINE t1 == <<"=", "CALLSIGN", "-">> \o BeforeDivider(Dated(plan))
           dep == IfKnown("DEP RWY", plan)
           t2 == t1 \o dep
           crz == <<"CRZ", "-", "ZFW", "TOW">>
           t3 == t2 \o crz
           ldw == IfKnown("LDW", plan)
           t4 == t3 \o ldw
           block == <<"-", "BLOCK FUEL">>
           t5 == t4 \o block
           trip == IfKnown("TRIP FUEL", plan)
           t6 == t5 \o trip
           pax == <<"-", "PAX", "CARGO">>
           t7 == t6 \o pax
           winds == AfterDivider(Winds(plan))
           t8 == t7 \o winds
           end == <<"=">>
           t9 == t8 \o end
<1>1. TakeoffDataTicket(plan) = t9
  BY DEF TakeoffDataTicket
<1>2. /\ IsJoin(t2, t1, dep) /\ IsJoin(t3, t2, crz) /\ IsJoin(t4, t3, ldw)
      /\ IsJoin(t5, t4, block) /\ IsJoin(t6, t5, trip) /\ IsJoin(t7, t6, pax)
      /\ IsJoin(t8, t7, winds) /\ IsJoin(t9, t8, end)
  BY DEF IsJoin
<1>3. Sound(t1) /\ Holds(plan, t1)
  BY HeadIs
<1>4. Wordy(dep) /\ Wordy(ldw) /\ Wordy(trip)
  <2>1. "DEP RWY" \in Names /\ "LDW" \in Names /\ "TRIP FUEL" \in Names
    BY DEF Names
  <2>2. QED BY <2>1, IfKnownIs
<1>5. Soft(crz) /\ Ends(crz) /\ Firm(block) /\ Firm(pax) /\ Sound(end)
  BY NamesAre, ShortOk
<1>6. Wordy(winds) \/ Firm(winds)
  BY WindsAre, SectionsAre, ShortWordy
<1> HIDE DEF t1, t2, t3, t4, t5, t6, t7, t8, t9, dep, crz, ldw, block, trip, pax, winds, end
<1>7. /\ Soft(dep) /\ Sound(dep) /\ Sound(ldw) /\ Sound(trip) /\ Sound(winds)
      /\ Sound(crz) /\ Sound(block) /\ Sound(pax)
  BY <1>4, <1>5, <1>6, PlainIsSoft DEF Soft, Firm
<1>8. Sound(t2)
  BY <1>2, <1>3, <1>7, Joins
<1>9. Firm(t3) /\ Sound(t3)
  BY <1>2, <1>5, <1>8, Joins DEF Firm
<1>10. Firm(t4) /\ Sound(t4)
  BY <1>2, <1>4, <1>9, Joins DEF Firm
<1>11. Firm(t5) /\ Sound(t5)
  BY <1>2, <1>5, <1>10, Joins DEF Firm
<1>12. Firm(t6) /\ Sound(t6)
  BY <1>2, <1>4, <1>11, Joins DEF Firm
<1>13. Firm(t7) /\ Sound(t7)
  BY <1>2, <1>5, <1>12, Joins DEF Firm
<1>14. Firm(t8) /\ Sound(t8)
  BY <1>2, <1>6, <1>13, Joins DEF Firm
<1>15. Sound(t9)
  BY <1>2, <1>5, <1>14, Joins
<1>16. Holds(plan, t2)
  BY <1>2, <1>3, <1>7, HoldsJoin
<1>17. Holds(plan, t3)
  BY <1>2, <1>7, <1>8, <1>16, HoldsJoin
<1>18. Holds(plan, t4)
  BY <1>2, <1>7, <1>9, <1>17, HoldsJoin
<1>19. Holds(plan, t5)
  BY <1>2, <1>7, <1>10, <1>18, HoldsJoin
<1>20. Holds(plan, t6)
  BY <1>2, <1>7, <1>11, <1>19, HoldsJoin
<1>21. Holds(plan, t7)
  BY <1>2, <1>7, <1>12, <1>20, HoldsJoin
<1>22. Holds(plan, t8)
  BY <1>2, <1>7, <1>13, <1>21, HoldsJoin
<1>23. Holds(plan, t9)
  BY <1>2, <1>5, <1>14, <1>22, HoldsJoin
<1>24. QED BY <1>1, <1>15, <1>23

\* The flight plan: with a schedule, no section of it is empty either.
LEMMA FlightPlanIs ==
  ASSUME NEW plan
  PROVE  /\ Holds(plan, FlightPlanTicket(plan))
         /\ plan \cap Schedule # {} => Sound(FlightPlanTicket(plan))
<1> DEFINE h == <<"=", "CALLSIGN", "-", "ALTN", "-">>
           d == Dated(plan)
           hd == h \o d
           t == <<"-", "ROUTE", "-", "CRUISE", "-", "FUEL", "-", "EZFW", "ETOW", "-", "PAX", "=">>
           u == hd \o t
<1>1. FlightPlanTicket(plan) = u
  BY DEF FlightPlanTicket
<1>2. IsJoin(hd, h, d) /\ IsJoin(u, hd, t)
  BY DEF IsJoin
<1>3. Sound(h) /\ Sound(t)
  BY NamesAre, ShortOk, LongOk
<1>4. Wordy(d) /\ Holds(plan, d) /\ (plan \cap Schedule # {} => d # <<>>)
  BY DatedIs
<1> HIDE DEF h, d, hd, t, u
<1>5. Soft(d) /\ Sound(d)
  BY <1>4, PlainIsSoft DEF Soft
<1>6. Sound(hd) /\ Holds(plan, hd)
  BY <1>2, <1>3, <1>4, <1>5, Joins, HoldsJoin
<1>7. Holds(plan, u)
  BY <1>2, <1>3, <1>6, HoldsJoin
<1>8. ASSUME plan \cap Schedule # {} PROVE Sound(u)
  <2>1. Len(d) > 0
    BY <1>4, <1>8 DEF Wordy, Strip
  <2>2. Ends(d)
    BY <1>4, <2>1, PlainIsSoft DEF Firm
  <2>3. Firm(hd)
    BY <1>2, <1>3, <1>5, <2>2, Joins
  <2>4. QED BY <1>2, <1>3, <2>3, Joins
<1>9. QED BY <1>1, <1>7, <1>8

\* What the property says of a ticket.
Sections(ticket, plan) ==
  /\ plan \cap Schedule \subseteq Range(ticket)
  /\ \A i \in 2..Len(ticket) : {ticket[i - 1], ticket[i]} \subseteq Divider
       => ticket = FlightPlanTicket(plan) /\ Schedule \cap plan = {}

\* All three tickets.
LEMMA TicketsKeep ==
  ASSUME NEW plan,
         NEW ticket \in {LoadsheetTicket(plan), TakeoffDataTicket(plan), FlightPlanTicket(plan)}
  PROVE  Sections(ticket, plan)
<1>1. Holds(plan, ticket)
  BY LoadsheetIs, TakeoffIs, FlightPlanIs
<1>2. Sound(ticket) \/ (ticket = FlightPlanTicket(plan) /\ Schedule \cap plan = {})
  BY LoadsheetIs, TakeoffIs, FlightPlanIs
<1>3. Sound(ticket) => \A i \in 2..Len(ticket) : ~({ticket[i - 1], ticket[i]} \subseteq Divider)
  BY DEF Sound, Tied, Div
<1>4. QED BY <1>1, <1>2, <1>3 DEF Sections, Holds

-----------------------------------------------------------------------------
(* The invariant.                                                          *)

MessageLaid(rows, pair, line, width) ==
  /\ rows \in Seq(Fitting(width)) /\ RowLetters(rows) = Letters(TextOf(line))
  /\ line # <<>> /\ PairKeeps(pair, Label(line), Value(line), width)

\* The inductive invariant: a strip is one of tickets or one of a message.
LayoutInv ==
  /\ paper \in Paper
  /\ \/ /\ laid.rows = <<>> /\ laid.pair = <<>> /\ words = <<>>
        /\ \A ticket \in laid.tickets : Sections(ticket, known)
     \/ /\ laid.pair # <<>> /\ laid.tickets = {}
        /\ MessageLaid(laid.rows, laid.pair, words, CharactersPerLine)

\* A message is laid out with all its letters.
LEMMA MessageKeeps ==
  ASSUME NEW width \in Columns, NEW line, line # <<>>,
         line \in BoundedSeq([gap : Gap, length : WordLength(width)], MaxWords)
  PROVE  /\ MessageLaid(WrapLines(line, width), KeyValue(Label(line), Value(line), width), line, width)
         /\ KeyValue(Label(line), Value(line), width) # <<>>
<1> DEFINE label == Label(line)
           value == Value(line)
           pair == KeyValue(label, value, width)
<1>1. line \in Seq(Piece) /\ width \in Nat \ {0}
  <2>1. line \in Seq(Piece)
    BY LineIs, Zenon
  <2>2. width \in Nat \ {0}
    BY DEF Columns
  <2>3. QED BY <2>1, <2>2
<1>2. label \in Seq(Nat \ {0}) /\ value \in Seq(Nat \ {0})
  <2>1. Len(line) \in Nat /\ 1 \in 1..Len(line) /\ Len(line) \in 1..Len(line)
    BY <1>1
  <2>2. line[1] \in Piece /\ line[Len(line)] \in Piece
    BY <1>1, <2>1
  <2>3. line[1].length \in Nat /\ line[Len(line)].length \in Nat
    BY <2>2 DEF Piece
  <2>4. QED BY <2>1, <2>3, WordIs DEF Label, Value
<1>3. pair # <<>>
  <2>1. Len(pair) > 0
    <3> HIDE DEF label, value
    <3>1. \A a, b : Len(<<a, b>>) > 0 /\ Len(<<a>>) > 0
      OBVIOUS
    <3>2. QED BY <3>1 DEF KeyValue
  <2> HIDE DEF pair
  <2>2. QED BY <2>1
<1> HIDE DEF label, value
<1>4. PairKeeps(pair, label, value, width)
  BY <1>1, <1>2, KeyValueKeeps
<1>5. /\ WrapLines(line, width) \in Seq(Fitting(width))
      /\ RowLetters(WrapLines(line, width)) = Letters(TextOf(line))
  BY <1>1, WrapKeeps
<1>6. QED BY <1>3, <1>4, <1>5 DEF MessageLaid, label, value

\* The invariant holds at first.
LEMMA LayoutStarts == ASSUME LayoutInit PROVE LayoutInv
BY DEF LayoutInit, LayoutInv, Blank

\* Every step keeps it.
LEMMA LayoutStep ==
  ASSUME LayoutInv, [LayoutNext]_layoutVars
  PROVE  LayoutInv'
<1>1. CASE FormatMessage
  <2> DEFINE width == CharactersPerLine
             line == words'
             rows == WrapLines(line, width)
             pair == KeyValue(Label(line), Value(line), width)
  <2>1. width \in Columns
    BY ColumnsFit DEF LayoutInv
  <2>2. /\ line \in BoundedSeq([gap : Gap, length : WordLength(width)], MaxWords) /\ line # <<>>
        /\ laid' = [Blank EXCEPT !.rows = rows, !.pair = pair] /\ paper' = paper
    BY <1>1 DEF FormatMessage
  <2>3. CharactersPerLine' = width
    BY <2>2 DEF CharactersPerLine, ColumnsForBitmap, Dots, FontColumns
  <2> HIDE DEF width, line
  <2>4. MessageLaid(rows, pair, line, width) /\ pair # <<>>
    BY <2>1, <2>2, MessageKeeps
  <2> HIDE DEF rows, pair
  <2>5. laid'.rows = rows /\ laid'.pair = pair /\ laid'.tickets = {}
    BY <2>2 DEF Blank
  <2>6. paper' \in Paper
    BY <2>2 DEF LayoutInv
  <2>7. /\ laid'.pair # <<>> /\ laid'.tickets = {}
        /\ MessageLaid(laid'.rows, laid'.pair, words', CharactersPerLine')
    BY <2>3, <2>4, <2>5 DEF line
  <2>8. QED BY <2>6, <2>7 DEF LayoutInv
<1>2. CASE RenderTickets
  <2>1. /\ laid = Blank /\ paper' = paper /\ words' = words
        /\ laid' = [Blank EXCEPT !.tickets = {LoadsheetTicket(known'), TakeoffDataTicket(known'),
                                              FlightPlanTicket(known')}]
    BY <1>2 DEF RenderTickets
  <2>2. paper \in Paper /\ words = <<>>
    BY <2>1 DEF LayoutInv, Blank
  <2>3. \A ticket \in laid'.tickets : Sections(ticket, known')
    <3> DEFINE plan == known'
    <3>1. laid'.tickets = {LoadsheetTicket(plan), TakeoffDataTicket(plan), FlightPlanTicket(plan)}
      BY <2>1 DEF Blank
    <3> HIDE DEF plan
    <3>2. \A ticket \in laid'.tickets : Sections(ticket, plan)
      BY <3>1, TicketsKeep
    <3>3. QED BY <3>2 DEF plan
  <2>4. laid'.rows = <<>> /\ laid'.pair = <<>>
    BY <2>1 DEF Blank
  <2>5. QED BY <2>1, <2>2, <2>3, <2>4 DEF LayoutInv
<1>3. CASE UNCHANGED layoutVars
  BY <1>3 DEF LayoutInv, layoutVars, CharactersPerLine, ColumnsForBitmap, Dots, FontColumns
<1>4. QED BY <1>1, <1>2, <1>3 DEF LayoutNext

\* It implies the property.
LEMMA LayoutIsFit == ASSUME LayoutInv PROVE LayoutFits
<1> DEFINE width == CharactersPerLine
           rows == laid.rows
           pair == laid.pair
<1>1. /\ width \in Columns
      /\ \/ paper.override # 0 \/ width = 16
         \/ width * Cell + (IF paper.mode = "bitmap" THEN LeftInset ELSE 0) <= Dots
  BY ColumnsFit DEF LayoutInv
<1>2. /\ \A i \in DOMAIN rows : Len(rows[i]) <= width
      /\ Letters(FlattenSeq(rows)) = Letters(TextOf(words))
      /\ Len(pair) = 1 => Len(pair[1]) = width /\ 0 \in Range(pair[1])
      /\ words # <<>> /\ Len(Value(words)) <= width
           => Letters(FlattenSeq(pair)) = Label(words) \o Value(words)
      /\ \A ticket \in laid.tickets : Sections(ticket, known)
  <2>1. CASE /\ rows = <<>> /\ pair = <<>> /\ words = <<>>
             /\ \A ticket \in laid.tickets : Sections(ticket, known)
    <3>1. Len(<<>>) = 0 /\ DOMAIN <<>> = {}
      OBVIOUS
    <3>2. Letters(FlattenSeq(<<>>)) = Letters(TextOf(<<>>))
      <4>1. [i \in DOMAIN <<>> |-> <<Blanks(<<>>[i].gap), Word(i, <<>>[i].length)>>] = <<>>
        BY <3>1
      <4>2. Tokens(<<>>) = <<>>
        BY <4>1, FlatEmpty DEF Tokens
      <4>3. QED BY <4>2, FlatEmpty DEF TextOf
    <3>3. QED BY <2>1, <3>1, <3>2
  <2>2. CASE /\ laid.tickets = {}
             /\ MessageLaid(rows, pair, words, width)
    <3>1. /\ rows \in Seq(Fitting(width)) /\ RowLetters(rows) = Letters(TextOf(words))
          /\ PairKeeps(pair, Label(words), Value(words), width)
      BY <2>2 DEF MessageLaid
    <3> HIDE DEF rows, pair, width
    <3>2. \A i \in DOMAIN rows : Len(rows[i]) <= width
      <4>1. \A i \in DOMAIN rows : rows[i] \in Fitting(width)
        BY <3>1
      <4>2. QED BY <4>1 DEF Fitting
    <3>3. QED BY <2>2, <3>1, <3>2 DEF RowLetters, PairKeeps
  <2>3. QED BY <2>1, <2>2 DEF LayoutInv
<1>3. QED BY <1>1, <1>2 DEF LayoutFits, Sections

\* For any paper, glyphs, columns and lines (_wrap_lines, _key_value, the tickets):
\* no row is wider than the columns, every letter is on the strip once and in its
\* place, a label and its value never touch, and a ticket has each row the plan has
\* data for and, but for a flight plan without a schedule, no empty section.
THEOREM StripsFitPaper == LayoutSpec => []LayoutFits
<1>1. LayoutInit => LayoutInv
  BY LayoutStarts
<1>2. LayoutInv /\ [LayoutNext]_layoutVars => LayoutInv'
  BY LayoutStep
<1>3. LayoutInv => LayoutFits
  BY LayoutIsFit
<1>4. QED BY <1>1, <1>2, <1>3, PTL DEF LayoutSpec

-----------------------------------------------------------------------------
(* Station mode and the requests of the phone.                             *)

LoopStage == {"none", "broken", "check", "fetch", "store", "wait"}
BridgeStage == {"idle", "probing", "starting", "stopping", "joining"}

StationTypeOK ==
  /\ companion \in BOOLEAN /\ station \in BOOLEAN /\ stopping \in BOOLEAN
  /\ bridge \in BridgeStage
  /\ current \subseteq Poller
  /\ loop \in [Poller -> LoopStage]

\* The command thread reaches a start with the mode on, and a stop with the
\* mode off: only a save turns it on, and none begins before the sync ends.
\* (companion_enabled changes in a save alone.)
CommandInv ==
  /\ bridge \in {"probing", "starting"} => companion
  /\ bridge \in {"stopping", "joining"} => ~StationMode

\* The flag is raised only while a stop is under way or after it forgot the
\* thread; until then the thread has not ended at the flag, only a database
\* error may have ended it, and the flag is lowered for a fresh one.
ThreadInv ==
  /\ stopping => bridge = "joining" \/ current = {}
  /\ ~stopping => \A p \in current : loop[p] # "none"
  /\ bridge = "idle" /\ StationMode => current # {}

StationInv == StationTypeOK /\ CommandInv /\ ThreadInv

-----------------------------------------------------------------------------
\* A step of a settings save keeps the invariant.
LEMMA SyncKeeps ==
  ASSUME StationInv, SyncStep
  PROVE  StationInv'
<1> USE DEF StationInv, StationTypeOK, CommandInv, ThreadInv, StationMode,
        BridgeStage, LoopStage, Alive, Halted
<1>1. CASE ProbeOk
  BY <1>1 DEF ProbeOk
<1>2. CASE ProbeFails
  BY <1>2 DEF ProbeFails
<1>3. CASE Start
  <2>1. CASE \E p \in current : Alive(p)
    BY <1>3, <2>1 DEF Start
  <2>2. CASE ~ \E p \in current : Alive(p)
    <3>1. PICK p \in Poller :
            /\ bridge = "starting" /\ bridge' = "idle"
            /\ stopping' = FALSE /\ current' = {p}
            /\ loop' = [loop EXCEPT ![p] = "check"]
            /\ UNCHANGED <<companion, station, uplink>>
      BY <1>3, <2>2 DEF Start
    <3>2. QED BY <3>1
  <2>3. QED BY <2>1, <2>2
<1>4. CASE Stop
  BY <1>4 DEF Stop
<1>5. CASE Joined
  BY <1>5 DEF Joined
<1>6. QED BY <1>1, <1>2, <1>3, <1>4, <1>5 DEF SyncStep

\* What leaves the station's state alone keeps the invariant.
LEMMA StationUnchanged ==
  ASSUME StationInv, UNCHANGED stationVars
  PROVE  StationInv'
BY DEF StationInv, StationTypeOK, CommandInv, ThreadInv, StationMode, stationVars

\* A thread moves in its loop, ends only at the flag or broken, and may turn the mode off.
LEMMA LoopMoves ==
  ASSUME NEW p \in Poller, LoopStep(p)
  PROVE  /\ UNCHANGED <<companion, bridge, current, stopping>>
         /\ station' = station \/ station' = FALSE
         /\ \E to \in LoopStage :
              /\ loop' = [loop EXCEPT ![p] = to]
              /\ to = "none" => stopping
BY DEF LoopStep, Check, Fetched, FetchFails, Conflict, Breaks, Ingest, IngestFails, Wake,
       At, LoopStage

\* A poll thread's step keeps the invariant.
LEMMA LoopKeeps ==
  ASSUME StationInv, NEW p \in Poller, LoopStep(p)
  PROVE  StationInv'
<1>1. PICK to \in LoopStage :
        /\ loop' = [loop EXCEPT ![p] = to]
        /\ to = "none" => stopping
  BY LoopMoves
<1>2. /\ UNCHANGED <<companion, bridge, current, stopping>>
      /\ station' = station \/ station' = FALSE
  BY LoopMoves
<1>3. StationTypeOK'
  BY <1>1, <1>2 DEF StationInv, StationTypeOK
<1>4. CommandInv'
  BY <1>2 DEF StationInv, StationTypeOK, CommandInv, StationMode
<1>5. ThreadInv'
  <2>1. ~stopping => \A q \in current : loop'[q] # "none"
    BY <1>1 DEF StationInv, StationTypeOK, ThreadInv
  <2>2. QED
    BY <1>2, <2>1 DEF StationInv, StationTypeOK, ThreadInv, StationMode
<1>6. QED BY <1>3, <1>4, <1>5 DEF StationInv

\* Every step of the station keeps the invariant.
LEMMA StationKeeps ==
  ASSUME StationInv, StationNext
  PROVE  StationInv'
<1>1. CASE SyncStep
  BY <1>1, SyncKeeps
<1>2. ASSUME NEW phone \in BOOLEAN, NEW mode \in BOOLEAN, Save(phone, mode)
      PROVE  StationInv'
  BY <1>2 DEF Save, Synced, StationInv, StationTypeOK, CommandInv, ThreadInv,
              StationMode, BridgeStage
<1>3. CASE \E p \in Poller : LoopStep(p)
  BY <1>3, LoopKeeps
<1>4. CASE \E m \in Uplink : Send(m)
  BY <1>4 DEF Send, polling, StationInv, StationTypeOK, CommandInv, ThreadInv,
              StationMode
<1>5. QED BY <1>1, <1>2, <1>3, <1>4 DEF StationNext

-----------------------------------------------------------------------------
\* The requests: one prints in the step that ends it.
RequestType ==
  [kind : Kind, stage : {"idle", "choose", "identify", "send", "public", "done", "failed"},
   tries : 1 .. MaxPackets, rows : Nat, strips : Nat, public : BOOLEAN]

StripsInv ==
  /\ request \in [Phone -> RequestType]
  /\ \A t \in Phone :
       \/ request[t].strips = 0
       \/ request[t].strips = 1 /\ request[t].stage = "done"

\* A request's step changes no request but its own, and nothing of the station.
LEMMA RequestKeepsStation ==
  ASSUME NEW t \in Phone, RequestStep(t)
  PROVE  UNCHANGED stationVars
BY DEF RequestStep, Sent, SendFails, PublicAnswers, PublicFails, Respond, Choose,
       Identify, Inforeq, UnchangedStation

\* A request's step prints at most one reply, and ends the request with it.
LEMMA RequestKeeps ==
  ASSUME StripsInv, NEW t \in Phone, RequestStep(t)
  PROVE  StripsInv'
<1> DEFINE Later(r) == \/ r.strips = 0
                       \/ r.strips = 1 /\ r.stage = "done"
<1> SUFFICES \E r \in RequestType : Later(r) /\ request' = [request EXCEPT ![t] = r]
  BY DEF StripsInv
<1> DEFINE old == request[t]
<1>0. old \in RequestType /\ Later(old)
  BY DEF StripsInv
<1>1. CASE \E yes \in BOOLEAN : Choose(t, yes)
  BY <1>0, <1>1 DEF Choose, Goes, RequestType
<1>2. CASE \E yes \in BOOLEAN : Identify(t, yes)
  BY <1>0, <1>2 DEF Identify, Goes, RequestType
<1>3. CASE SendFails(t)
  BY <1>0, <1>3 DEF SendFails, Goes, RequestType
<1>4. CASE Sent(t)
  <2> DEFINE rows == old.rows + 1
             new == [old EXCEPT !.stage = "done", !.rows = rows]
  <2>1. old.stage = "send" /\ request' = [request EXCEPT ![t] = new]
    BY <1>4 DEF Sent
  <2>2. rows \in Nat
    BY <1>0 DEF RequestType
  <2> HIDE DEF rows
  <2>3. new \in RequestType /\ new.strips = 0
    BY <1>0, <2>1, <2>2 DEF RequestType
  <2>4. QED BY <2>1, <2>3
<1>5. CASE \E yes \in BOOLEAN : Inforeq(t, yes)
  <2>1. PICK yes \in BOOLEAN : Inforeq(t, yes)
    BY <1>5
  <2> DEFINE next == AfterReply(old, yes)
             left == IF old.tries > 1 THEN old.tries - 1 ELSE old.tries
             rows == old.rows + 1
             out == IF yes THEN old.strips + 1 ELSE old.strips
             new == [old EXCEPT !.stage = next, !.tries = left,
                                !.rows = rows, !.strips = out]
  <2>2. old.stage = "send" /\ request' = [request EXCEPT ![t] = new]
    BY <2>1 DEF Inforeq
  <2>3. old.strips = 0
    BY <1>0, <2>2
  <2>4. next \in {"done", "identify", "public"} /\ (yes => next = "done")
    BY DEF AfterReply
  <2>5. left \in 1 .. MaxPackets /\ rows \in Nat /\ out \in Nat
    BY <1>0, <2>3, PacketAssumption DEF RequestType
  <2>6. out = 0 \/ (out = 1 /\ next = "done")
    BY <2>3, <2>4
  <2> HIDE DEF next, left, rows, out
  <2>7. new \in RequestType /\ new.strips = out /\ new.stage = next
    BY <1>0, <2>4, <2>5 DEF RequestType
  <2>8. QED BY <2>2, <2>6, <2>7
<1>6. CASE PublicAnswers(t)
  <2> DEFINE rows == old.rows + 1
             out == old.strips + 1
             new == [old EXCEPT !.stage = "done", !.rows = rows,
                                !.strips = out, !.public = TRUE]
  <2>1. old.stage = "public" /\ request' = [request EXCEPT ![t] = new]
    BY <1>6 DEF PublicAnswers
  <2>2. rows \in Nat /\ out = 1
    BY <1>0, <2>1 DEF RequestType
  <2> HIDE DEF rows, out
  <2>3. new \in RequestType /\ new.strips = 1 /\ new.stage = "done"
    BY <1>0, <2>2 DEF RequestType
  <2>4. QED BY <2>1, <2>3
<1>7. CASE PublicFails(t)
  <2> DEFINE next == IF old.rows > 0 THEN "done" ELSE "failed"
             new == [old EXCEPT !.stage = next, !.public = TRUE]
  <2>1. old.stage = "public" /\ request' = [request EXCEPT ![t] = new]
    BY <1>7 DEF PublicFails
  <2>2. next \in {"done", "failed"}
    OBVIOUS
  <2> HIDE DEF next
  <2>3. new \in RequestType /\ new.strips = 0
    BY <1>0, <2>1, <2>2 DEF RequestType
  <2>4. QED BY <2>1, <2>3
<1>8. CASE Respond(t)
  <2>1. NoRequest \in RequestType /\ Later(NoRequest)
    BY PacketAssumption DEF NoRequest, RequestType, Kind
  <2>2. QED BY <1>8, <2>1 DEF Respond
<1>9. QED
  BY <1>1, <1>2, <1>3, <1>4, <1>5, <1>6, <1>7, <1>8 DEF RequestStep

-----------------------------------------------------------------------------
\* Both invariants hold at first.
LEMMA StationInitHolds ==
  RequestInit => StationInv /\ StripsInv
<1> SUFFICES ASSUME RequestInit PROVE StationInv /\ StripsInv
  OBVIOUS
<1>1. StationInv
  BY DEF RequestInit, StationInit, Synced, StationInv, StationTypeOK, CommandInv,
         ThreadInv, StationMode, BridgeStage, LoopStage
<1>2. StripsInv
  <2>1. NoRequest \in RequestType /\ NoRequest.strips = 0
    BY PacketAssumption DEF NoRequest, RequestType, Kind
  <2>2. QED BY <2>1 DEF RequestInit, StripsInv
<1>3. QED BY <1>1, <1>2

\* A new request has printed nothing.
LEMMA AskKeeps ==
  ASSUME StripsInv, NEW t \in Phone, NEW kind \in Kind, NEW tries \in 1 .. MaxPackets,
         Ask(t, kind, tries)
  PROVE  StripsInv'
<1> DEFINE made == [NoRequest EXCEPT !.kind = kind, !.tries = tries,
                                      !.stage = FirstStage(kind)]
<1>1. made \in RequestType /\ made.strips = 0
  <2>1. FirstStage(kind) \in {"choose", "identify", "public"}
    BY DEF FirstStage, Kind
  <2> HIDE DEF FirstStage
  <2>2. QED BY <2>1 DEF NoRequest, RequestType
<1>2. request' = [request EXCEPT ![t] = made]
  BY DEF Ask
<1> HIDE DEF made
<1>3. QED BY <1>1, <1>2 DEF StripsInv

\* Every step keeps both invariants.
LEMMA StationNextKeeps ==
  ASSUME StationInv, StripsInv, [Next]_requestVars
  PROVE  StationInv' /\ StripsInv'
<1>1. CASE StationNext /\ UNCHANGED <<network, vault, request>>
  BY <1>1, StationKeeps DEF StripsInv
<1>2. CASE \E t \in Phone : RequestStep(t)
  <2>1. StationInv'
    BY <1>2, RequestKeepsStation, StationUnchanged
  <2>2. QED BY <1>2, <2>1, RequestKeeps
<1>3. CASE \E t \in Phone, kind \in Kind, tries \in 1 .. MaxPackets : Ask(t, kind, tries)
  <2>1. UNCHANGED stationVars
    BY <1>3 DEF Ask, UnchangedStation
  <2>2. QED BY <1>3, <2>1, AskKeeps, StationUnchanged
<1>4. CASE TapStores \/ TapClears \/ Age \/ UNCHANGED requestVars
  <2>1. UNCHANGED stationVars /\ UNCHANGED request
    BY <1>4 DEF TapStores, TapClears, Age, requestVars
  <2>2. QED BY <2>1, StationUnchanged DEF StripsInv
<1>5. QED BY <1>1, <1>2, <1>3, <1>4 DEF Next

\* With station mode on and no command under way there is a poll thread that
\* lives and was not told to stop (companion_station.py, start, stop and _loop;
\* runtime.py, _sync_companion), however many earlier threads still wait for
\* the network, whatever they do to the setting, and whatever the phone asks;
\* a thread that a database error ended alone is not replaced.
THEOREM StationAlwaysPolled == Spec => []StationIsPolled
<1>1. StationInv => StationIsPolled
  BY DEF StationInv, StationTypeOK, ThreadInv, StationIsPolled, Alive, Halted
<1>2. QED
  BY <1>1, StationInitHolds, StationNextKeeps, PTL DEF Spec

\* A request from the phone prints one reply at most, and none when it ends in
\* an error (outbound.py, request_weather and the ATIS requests), whatever the
\* network and the public sources answer, in whatever number of packets.
THEOREM AtMostOneReply == Spec => []OneStripPerRequest
<1>1. StripsInv => OneStripPerRequest
  BY DEF StripsInv, OneStripPerRequest, RequestType
<1>2. QED
  BY <1>1, StationInitHolds, StationNextKeeps, PTL DEF Spec
=============================================================================
