--------------------------- MODULE HttpUploadProofs ---------------------------
(***************************************************************************)
(* Proofs about HttpUpload, for files and chunks of every size and every   *)
(* way TCP may cut the request: no byte of the body is lost or handled     *)
(* twice, a request is answered once, the rows of the table files match    *)
(* the files on disk, whatever operations fail, and an upload in which     *)
(* none fails is stored complete.                                          *)
(***************************************************************************)
EXTENDS HttpUpload, SequenceTheorems, WellFoundedInduction, TLAPS

-----------------------------------------------------------------------------
(* The inductive invariant: where the request is ...                       *)

Atoms == Seq(Int)

Contexts == [state : {"kExpectRequestLine", "kExpectHeaders", "kExpectBody", "kGotAll"},
             method : {"kInvalid", "kPost"}, contentLength : Nat, bodyReceived : Nat,
             body : Atoms]

Typed ==
  /\ form \in Forms /\ conn \in {"up", "closing", "down"}
  /\ buf \in Atoms /\ rest \in Atoms /\ taken \in Atoms
  /\ http \in Contexts

\* The request line is not complete.
Waiting ==
  /\ http = NewContext /\ taken = <<>> /\ responses = <<>> /\ Len(buf) <= 1
  /\ \E line \in Lines : buf \o rest = Request(line, form)

\* The header is read and a part of the body is missing.
InBody ==
  /\ http.state = "kExpectBody" /\ http.contentLength = Len(Body(form))
  /\ buf = <<>> /\ rest # <<>>
  /\ taken \o http.body \o rest = Body(form)
  /\ http.bodyReceived = Len(taken) + Len(http.body)
  /\ responses = <<>>

\* The request line was refused; it stays in inputBuffer_.
Refused ==
  /\ http.state = "kExpectRequestLine"
  /\ Len(buf) > 1 /\ buf[1] # Line /\ buf[1] # CRLF /\ buf[2] = CRLF
  /\ Len(responses) = 1 /\ conn # "up"

\* The request was handled.
Answered == http = NewContext /\ rest = <<>> /\ Len(responses) = 1

\* The parser spins or has failed.
Stopped == (spinning \/ failed) /\ http.state # "kExpectBody" /\ Len(responses) <= 1

Progress ==
  /\ Waiting \/ InBody \/ Refused \/ Answered \/ Stopped
  /\ responses = <<>> => ~unacked /\ conn # "closing"

-----------------------------------------------------------------------------
(* ... and what is on disk.                                                *)

\* The file an upload context writes to has no row yet, and its size is counted.
FilesTyped ==
  /\ disk \in Seq(Atoms) /\ bad \subseteq 1 .. Len(disk) /\ total \in Nat
  /\ rows \in Seq([file : 1 .. Len(disk), size : Nat])
  /\ ctx # "none" => file \in 1 .. Len(disk)

OpenFile ==
  ctx # "none" => /\ \A i \in 1 .. Len(rows) : rows[i].file # file
                  /\ file \notin bad => total = Len(disk[file])

IndInv == Typed /\ Progress /\ FilesTyped /\ OpenFile /\ RowsMatchFiles

-----------------------------------------------------------------------------
(* Cutting and searching sequences.                                        *)

\* What a read takes and what it leaves.
LEMMA Cut ==
  ASSUME NEW s \in Atoms, NEW n \in 0 .. Len(s)
  PROVE  /\ SubSeq(s, 1, n) \in Atoms /\ Len(SubSeq(s, 1, n)) = n
         /\ Drop(s, n) \in Atoms /\ Len(Drop(s, n)) = Len(s) - n
         /\ \A i \in 1 .. Len(s) - n : Drop(s, n)[i] = s[i + n]
         /\ s = SubSeq(s, 1, n) \o Drop(s, n)
<1>. DEFINE m == Len(s)
            a == SubSeq(s, 1, n)
            k == n + 1
            b == SubSeq(s, k, m)
<1>1. m \in Nat /\ n \in 0 .. m /\ \A i \in 1 .. m : s[i] \in Int
  BY LenProperties, ElementOfSeq DEF Atoms
<1>2. a \in Atoms /\ Len(a) = n
  <2>1. 1 \in Int /\ n \in Int /\ \A i \in 1 .. n : s[i] \in Int
    BY <1>1
  <2>2. a \in Seq(Int) /\ Len(a) = IF 1 <= n THEN n - 1 + 1 ELSE 0
    BY <2>1, SubSeqProperties
  <2>. HIDE DEF a
  <2>. QED BY <1>1, <2>2 DEF Atoms
<1>3. b \in Atoms /\ Len(b) = m - n /\ \A i \in 1 .. m - n : b[i] = s[i + n]
  <2>1. k \in Int /\ m \in Int /\ \A i \in k .. m : s[i] \in Int
    BY <1>1
  <2>2. k = n + 1 /\ m - k + 1 = m - n
    BY <1>1
  <2>. HIDE DEF k, m
  <2>3. /\ b \in Seq(Int) /\ Len(b) = IF k <= m THEN m - k + 1 ELSE 0
        /\ \A i \in 1 .. m - k + 1 : b[i] = s[k + i - 1]
    BY <2>1, SubSeqProperties
  <2>. HIDE DEF b
  <2>4. \A i \in Int : k + i - 1 = i + n
    BY <1>1, <2>2
  <2>5. Len(b) = m - n
    BY <1>1, <2>2, <2>3, SMTT(30)
  <2>. QED BY <1>1, <2>2, <2>3, <2>4, <2>5 DEF Atoms
<1>4. s = a \o b
  <2>1. 1 \in 1 .. m + 1 /\ n \in 1 - 1 .. m /\ m \in n .. m /\ s \in Seq(Int)
    BY <1>1 DEF Atoms
  <2>2. SubSeq(s, 1, n) \o SubSeq(s, n + 1, m) = SubSeq(s, 1, m)
    BY <2>1, ConcatAdjacentSubSeq
  <2>3. SubSeq(s, 1, m) = s
    BY <2>1, SubSeqFull
  <2>. QED BY <2>2, <2>3, Zenon
<1>. QED BY <1>2, <1>3, <1>4 DEF Drop

\* Concatenation is associative.
LEMMA Associative ==
  ASSUME NEW s \in Atoms, NEW t \in Atoms, NEW u \in Atoms
  PROVE  (s \o t) \o u = s \o (t \o u)
BY ConcatAssociative, SMTT(30) DEF Atoms

\* An element at position i.
LEMMA OneAt ==
  ASSUME NEW s \in Atoms, NEW i \in 1 .. Len(s), NEW c \in Int
  PROVE  SubSeq(s, i, i + Len(<<c>>) - 1) = <<c>> <=> s[i] = c
<1>. DEFINE one == <<c>>
            t   == SubSeq(s, i, i)
<1>1. Len(one) = 1 /\ one \in Seq(Int) /\ one[1] = c /\ i + 1 - 1 = i /\ i \in Int
  BY LenProperties DEF Atoms
<1>2. \A j \in i .. i : s[j] \in Int
  BY ElementOfSeq DEF Atoms
<1>3. /\ t \in Seq(Int) /\ Len(t) = IF i <= i THEN i - i + 1 ELSE 0
      /\ \A j \in 1 .. i - i + 1 : t[j] = s[i + j - 1]
  BY <1>1, <1>2, SubSeqProperties
<1>. HIDE DEF t, one
<1>4. Len(t) = 1 /\ t[1] = s[i]
  BY <1>1, <1>3
<1>5. t[1] = c => t = one
  <2>1. \A j \in 1 .. Len(t) : j = 1
    BY <1>4
  <2>. QED BY <1>1, <1>3, <1>4, <2>1, SeqEqual
<1>6. t = one <=> s[i] = c
  BY <1>1, <1>4, <1>5
<1>. QED BY <1>1, <1>6 DEF t, one

\* Two elements in a row.
LEMMA TwoAt ==
  ASSUME NEW s \in Atoms, NEW two \in Atoms, Len(two) = 2
  PROVE  \A i \in 1 .. Len(s) - 1 :
           SubSeq(s, i, i + Len(two) - 1) = two <=> s[i] = two[1] /\ s[i + 1] = two[2]
<1>. SUFFICES ASSUME NEW i \in 1 .. Len(s) - 1
     PROVE  SubSeq(s, i, i + Len(two) - 1) = two <=> s[i] = two[1] /\ s[i + 1] = two[2]
  OBVIOUS
<1>. DEFINE k == i + 1
            t == SubSeq(s, i, k)
<1>1. /\ Len(two) = 2 /\ two \in Seq(Int) /\ i + 2 - 1 = k
      /\ i \in Int /\ k \in Int /\ k \in 1 .. Len(s) /\ i \in 1 .. Len(s)
  BY LenProperties DEF Atoms
<1>2. \A j \in i .. k : s[j] \in Int
  <2>1. \A j \in i .. k : j = i \/ j = k
    BY <1>1
  <2>. QED BY <1>1, <2>1, ElementOfSeq DEF Atoms
<1>. HIDE DEF k
<1>3. /\ t \in Seq(Int) /\ Len(t) = IF i <= k THEN k - i + 1 ELSE 0
      /\ \A j \in 1 .. k - i + 1 : t[j] = s[i + j - 1]
  BY <1>1, <1>2, SubSeqProperties
<1>. HIDE DEF t
<1>4. Len(t) = 2 /\ t[1] = s[i] /\ t[2] = s[k]
  <2>1. k - i + 1 = 2 /\ i <= k /\ i + 1 - 1 = i /\ i + 2 - 1 = k
    BY <1>1 DEF k
  <2>. QED BY <1>3, <2>1
<1>5. t[1] = two[1] /\ t[2] = two[2] => t = two
  <2>1. \A j \in 1 .. Len(t) : j = 1 \/ j = 2
    BY <1>4
  <2>. QED BY <1>1, <1>3, <1>4, <2>1, SeqEqual
<1>6. t = two <=> s[i] = two[1] /\ s[k] = two[2]
  BY <1>1, <1>4, <1>5
<1>7. t = SubSeq(s, i, i + Len(two) - 1)
  BY <1>1 DEF t
<1>. QED BY <1>6, <1>7 DEF k

\* std::search finds the first position, or none.
LEMMA FindIs ==
  ASSUME NEW s, NEW pat, NEW k \in 1 .. Len(s) - Len(pat) + 1,
         Len(s) \in Nat, Len(pat) \in Nat,
         SubSeq(s, k, k + Len(pat) - 1) = pat,
         \A i \in 1 .. k - 1 : SubSeq(s, i, i + Len(pat) - 1) # pat
  PROVE  Find(s, pat) = k
<1>. DEFINE at == {i \in 1 .. Len(s) - Len(pat) + 1 : SubSeq(s, i, i + Len(pat) - 1) = pat}
<1>1. k \in at /\ at \subseteq Int
  OBVIOUS
<1>2. \A i \in at : k <= i
  BY <1>1
<1>. HIDE DEF at
<1>3. Min(at) = k
  <2>1. \A j \in at : (\A y \in at : j <= y) => j = k
    BY <1>1, <1>2
  <2>. QED BY <1>1, <1>2, <2>1 DEF Min
<1>4. at # {}
  BY <1>1
<1>. QED BY <1>3, <1>4 DEF Find, at

\* No position.
LEMMA FindNone ==
  ASSUME NEW s, NEW pat,
         \A i \in 1 .. Len(s) - Len(pat) + 1 : SubSeq(s, i, i + Len(pat) - 1) # pat
  PROVE  Find(s, pat) = 0
BY DEF Find

\* The end of the request line.
LEMMA FindCRLF ==
  ASSUME NEW s \in Atoms, Len(s) > 0 => s[1] # CRLF
  PROVE  /\ Len(s) <= 1 => Find(s, <<CRLF>>) = 0
         /\ Len(s) > 1 /\ s[2] = CRLF => Find(s, <<CRLF>>) = 2
<1>. DEFINE pat == <<CRLF>>
<1>1. Len(pat) = 1 /\ Len(s) \in Nat /\ CRLF \in Int
  BY LenProperties DEF Atoms, CRLF
<1>2. \A i \in 1 .. Len(s) : SubSeq(s, i, i + Len(pat) - 1) = pat <=> s[i] = CRLF
  BY <1>1, OneAt
<1>. HIDE DEF pat
<1>3. ASSUME Len(s) <= 1 PROVE Find(s, pat) = 0
  <2>1. \A i \in 1 .. Len(s) - Len(pat) + 1 : i \in 1 .. Len(s) /\ i = 1 /\ Len(s) > 0
    BY <1>1, <1>3
  <2>2. \A i \in 1 .. Len(s) - Len(pat) + 1 : SubSeq(s, i, i + Len(pat) - 1) # pat
    BY <1>2, <2>1
  <2>. QED BY <2>2, FindNone
<1>4. ASSUME Len(s) > 1, s[2] = CRLF PROVE Find(s, pat) = 2
  <2>1. 2 \in 1 .. Len(s) - Len(pat) + 1 /\ 2 \in 1 .. Len(s) /\ 1 \in 1 .. Len(s) /\ Len(s) > 0
    BY <1>1, <1>4
  <2>2. SubSeq(s, 2, 2 + Len(pat) - 1) = pat
    BY <1>2, <1>4, <2>1
  <2>3. \A i \in 1 .. 2 - 1 : SubSeq(s, i, i + Len(pat) - 1) # pat
    <3>1. \A i \in 1 .. 2 - 1 : i = 1
      OBVIOUS
    <3>. QED BY <1>2, <2>1, <3>1
  <2>. DEFINE k == 2
  <2>4. /\ k \in 1 .. Len(s) - Len(pat) + 1 /\ SubSeq(s, k, k + Len(pat) - 1) = pat
        /\ \A i \in 1 .. k - 1 : SubSeq(s, i, i + Len(pat) - 1) # pat
    BY <2>1, <2>2, <2>3
  <2>5. Len(s) \in Nat /\ Len(pat) \in Nat
    BY <1>1
  <2>. HIDE DEF k
  <2>6. Find(s, pat) = k
    BY <2>4, <2>5, FindIs
  <2>. QED BY <2>6 DEF k
<1>. QED BY <1>3, <1>4 DEF pat

\* The empty line that ends the header lines, of which q is what was read.
LEMMA FindBlank ==
  ASSUME NEW q \in Atoms,
         Len(q) > 0 => q[1] # CRLF, Len(q) > 1 => q[2] = CRLF, Len(q) > 2 => q[3] = CRLF
  PROVE  /\ Len(q) <= 2 => Find(<<CRLF>> \o q, <<CRLF, CRLF>>) = 0
         /\ Len(q) > 2 => Find(<<CRLF>> \o q, <<CRLF, CRLF>>) = 3
<1>. DEFINE pat == <<CRLF, CRLF>>
            one == <<CRLF>>
            s   == one \o q
<1>1. Len(pat) = 2 /\ Len(q) \in Nat /\ CRLF \in Int /\ one \in Seq(Int) /\ Len(one) = 1
  BY LenProperties DEF Atoms, CRLF
<1>2. s \in Atoms /\ Len(s) = Len(q) + 1 /\ \A i \in 2 .. Len(q) + 1 : s[i] = q[i - 1]
  <2>. HIDE DEF one
  <2>1. /\ s \in Seq(Int) /\ Len(s) = Len(one) + Len(q)
        /\ \A i \in 1 .. Len(one) + Len(q) : s[i] = IF i <= Len(one) THEN one[i] ELSE q[i - Len(one)]
    BY <1>1, ConcatProperties DEF Atoms
  <2>. HIDE DEF s
  <2>. QED BY <1>1, <2>1, SMTT(60) DEF Atoms
<1>. HIDE DEF s, one
<1>3. \A i \in 1 .. Len(s) - 1 :
        SubSeq(s, i, i + Len(pat) - 1) = pat <=> s[i] = CRLF /\ s[i + 1] = CRLF
  <2>1. pat = <<CRLF, CRLF>>
    OBVIOUS
  <2>. HIDE DEF pat
  <2>2. s \in Atoms /\ CRLF \in Int
    BY <1>1, <1>2
  <2>3. pat \in Atoms /\ Len(pat) = 2 /\ pat[1] = CRLF /\ pat[2] = CRLF
    BY <1>1, <2>1 DEF Atoms
  <2>. QED BY <2>2, <2>3, TwoAt
<1>. HIDE DEF pat
<1>4. /\ Len(q) > 0 => s[2] # CRLF
      /\ Len(q) > 2 => s[3] = CRLF /\ s[4] = CRLF
  BY <1>1, <1>2
<1>5. ASSUME Len(q) <= 2 PROVE Find(s, pat) = 0
  <2>1. \A i \in 1 .. Len(s) - Len(pat) + 1 :
          i \in 1 .. Len(s) - 1 /\ Len(q) > 0 /\ (i = 1 \/ i = 2)
    <3>1. Len(s) - Len(pat) + 1 = Len(q) /\ Len(s) - 1 = Len(q)
      BY <1>1, <1>2
    <3>2. \A i \in 1 .. Len(q) : Len(q) > 0 /\ (i = 1 \/ i = 2)
      BY <1>1, <1>5
    <3>. QED BY <3>1, <3>2
  <2>2. \A i \in 1 .. Len(s) - Len(pat) + 1 : SubSeq(s, i, i + Len(pat) - 1) # pat
    <3>1. 1 + 1 = 2
      OBVIOUS
    <3>. QED BY <1>3, <1>4, <2>1, <3>1
  <2>. QED BY <2>2, FindNone
<1>6. ASSUME Len(q) > 2 PROVE Find(s, pat) = 3
  <2>1. /\ 3 \in 1 .. Len(s) - Len(pat) + 1 /\ 3 \in 1 .. Len(s) - 1 /\ Len(q) > 0 /\ 3 + 1 = 4
        /\ Len(s) \in Nat
    BY <1>1, <1>2, <1>6
  <2>2. SubSeq(s, 3, 3 + Len(pat) - 1) = pat
    BY <1>3, <1>4, <1>6, <2>1
  <2>3. \A i \in 1 .. 3 - 1 : SubSeq(s, i, i + Len(pat) - 1) # pat
    <3>1. \A i \in 1 .. 3 - 1 : i \in 1 .. Len(s) - 1 /\ (i = 1 \/ i = 2)
      BY <1>1, <1>2, <1>6
    <3>2. 1 + 1 = 2
      OBVIOUS
    <3>. QED BY <1>3, <1>4, <2>1, <3>1, <3>2
  <2>. DEFINE k == 3
  <2>4. /\ k \in 1 .. Len(s) - Len(pat) + 1 /\ SubSeq(s, k, k + Len(pat) - 1) = pat
        /\ \A i \in 1 .. k - 1 : SubSeq(s, i, i + Len(pat) - 1) # pat
    BY <2>1, <2>2, <2>3
  <2>5. Len(s) \in Nat /\ Len(pat) \in Nat
    BY <1>1, <2>1
  <2>. HIDE DEF k
  <2>6. Find(s, pat) = k
    BY <2>4, <2>5, FindIs
  <2>. QED BY <2>6 DEF k
<1>. QED BY <1>5, <1>6 DEF s, pat, one

-----------------------------------------------------------------------------
(* The request.                                                            *)

\* A multipart body is a non-empty sequence of atoms.
LEMMA BodyIs ==
  ASSUME NEW f
  PROVE  Body(f) \in Atoms /\ Len(Body(f)) \in Nat /\ Len(Body(f)) > 0
<1>. DEFINE one   == <<CRLF>>
            start == Boundary \o <<Part, Blank>> \o Content \o one
            field == IF f = "file" THEN <<>> ELSE Boundary \o <<Part, Blank, Field, CRLF>>
            all   == start \o field \o EndBoundary
<1>1. one \in Seq(Int) /\ Len(one) = 1
  BY DEF CRLF
<1>2. /\ Boundary \in Seq(Int) /\ EndBoundary \in Seq(Int) /\ <<Part, Blank>> \in Seq(Int)
      /\ <<Part, Blank, Field, CRLF>> \in Seq(Int) /\ <<>> \in Seq(Int)
  BY DEF Boundary, EndBoundary, Part, Blank, Field, CRLF, BndA, BndB, Dashes
<1>3. Content \in Seq(Int)
  <2>1. FileSize \in Nat
    BY UploadAssumption
  <2>2. Content \in [1 .. FileSize -> Int]
    BY DEF Content
  <2>. QED BY <2>1, <2>2, SeqDef
<1>. HIDE DEF one
<1>4. start \in Seq(Int)
  BY <1>1, <1>2, <1>3, ConcatProperties
<1>. HIDE DEF start
<1>5. field \in Seq(Int)
  <2>1. Boundary \o <<Part, Blank, Field, CRLF>> \in Seq(Int)
    BY <1>2, ConcatProperties
  <2>. QED BY <1>2, <2>1
<1>. HIDE DEF field
<1>6. all \in Seq(Int)
  <2>1. start \o field \in Seq(Int)
    BY <1>4, <1>5, ConcatProperties
  <2>. QED BY <1>2, <2>1, ConcatProperties
<1>. HIDE DEF all
<1>7. all \o one \in Seq(Int) /\ Len(all \o one) = Len(all) + 1 /\ Len(all) \in Nat
  <2>1. all \o one \in Seq(Int) /\ Len(all \o one) = Len(all) + Len(one)
    <3>1. all \in Seq(Int) /\ one \in Seq(Int)
      BY <1>1, <1>6
    <3>. QED BY <3>1, ConcatProperties, Zenon
  <2>. QED BY <1>1, <1>6, <2>1, LenProperties
<1>8. Body(f) = all \o one
  BY DEF Body, all, field, start, one
<1>. QED BY <1>7, <1>8 DEF Atoms

\* A request: its line, the header lines, the empty line and the body.
LEMMA RequestIs ==
  ASSUME NEW line \in Lines, NEW f
  PROVE  LET r == Request(line, f)
         IN  /\ r \in Atoms /\ Len(r) = 5 + Len(Body(f))
             /\ r[1] # CRLF /\ r[2] = CRLF /\ r[3] # CRLF /\ r[4] = CRLF /\ r[5] = CRLF
             /\ Drop(r, 5) = Body(f)
<1>. DEFINE first == CASE line = "good" -> Line [] line = "badMethod" -> BadMethod
                       [] line = "badVersion" -> BadVersion
            head  == <<first, CRLF, Header, CRLF, CRLF>>
            body  == Body(f)
            r     == head \o body
<1>1. first \in Int /\ first # CRLF
  BY UploadAssumption DEF Line, BadMethod, BadVersion, CRLF
<1>. HIDE DEF first
<1>2. /\ head \in Seq(Int) /\ Len(head) = 5 /\ head[1] # CRLF /\ head[2] = CRLF
      /\ head[3] # CRLF /\ head[4] = CRLF /\ head[5] = CRLF
  BY <1>1 DEF Header, CRLF
<1>3. body \in Seq(Int) /\ Len(body) \in Nat
  BY BodyIs DEF Atoms
<1>. HIDE DEF head, body
<1>4. /\ r \in Seq(Int) /\ Len(r) = Len(head) + Len(body)
      /\ \A i \in 1 .. Len(head) + Len(body) :
           r[i] = IF i <= Len(head) THEN head[i] ELSE body[i - Len(head)]
  BY <1>2, <1>3, ConcatProperties
<1>. HIDE DEF r
<1>5. /\ Len(r) = 5 + Len(body) /\ \A i \in 1 .. 5 : r[i] = head[i]
      /\ \A i \in 1 .. Len(body) : r[i + 5] = body[i]
  <2>1. ASSUME NEW i \in 1 .. 5 PROVE r[i] = head[i]
    <3>1. i \in 1 .. Len(head) + Len(body) /\ i <= Len(head)
      BY <1>2, <1>3
    <3>. QED BY <1>4, <3>1
  <2>2. ASSUME NEW i \in 1 .. Len(body) PROVE r[i + 5] = body[i]
    <3>. DEFINE j == i + 5
    <3>1. j \in 1 .. Len(head) + Len(body) /\ ~(j <= Len(head)) /\ j - Len(head) = i
      BY <1>2, <1>3
    <3>. HIDE DEF j
    <3>2. r[j] = body[i]
      BY <1>4, <3>1
    <3>. QED BY <3>2 DEF j
  <2>. QED BY <1>2, <1>3, <1>4, <2>1, <2>2
<1>6. Drop(r, 5) = body
  <2>. DEFINE n == 5
              t == Drop(r, n)
  <2>1. n \in 0 .. Len(r) /\ r \in Atoms /\ n = 5
    BY <1>3, <1>4, <1>5 DEF Atoms
  <2>. HIDE DEF n
  <2>2. t \in Atoms /\ Len(t) = Len(r) - n /\ \A i \in 1 .. Len(r) - n : t[i] = r[i + n]
    BY <2>1, Cut
  <2>. HIDE DEF t
  <2>3. Len(t) = Len(body) /\ \A i \in 1 .. Len(t) : t[i] = body[i]
    BY <1>3, <1>5, <2>1, <2>2
  <2>4. t = body
    BY <1>3, <2>2, <2>3, SeqEqual DEF Atoms
  <2>. QED BY <2>4 DEF t, n
<1>7. Request(line, f) = r
  BY DEF Request, r, head, first, body
<1>8. 1 \in 1 .. 5 /\ 2 \in 1 .. 5 /\ 3 \in 1 .. 5 /\ 4 \in 1 .. 5 /\ 5 \in 1 .. 5
  OBVIOUS
<1>. QED BY <1>2, <1>4, <1>5, <1>6, <1>7, <1>8 DEF Atoms, body

-----------------------------------------------------------------------------
(* parseRequest.                                                           *)

Parses == [state : {"kExpectRequestLine", "kExpectHeaders", "kExpectBody", "kGotAll"},
           method : {"kInvalid", "kPost"}, body : Atoms, contentLength : Nat,
           bodyReceived : Nat, buf : Atoms,
           result : {"kNeedMore", "kError", "kHeadersComplete", "kGotRequest"},
           spins : BOOLEAN, fails : BOOLEAN]

\* The bytes read belong to the body, of which left is not there yet.
InBodyOf(p, left, body) ==
  /\ p \in Parses /\ ~p.spins /\ ~p.fails /\ p.buf = <<>>
  /\ p.contentLength = Len(body) /\ taken \o p.body \o left = body
  /\ p.bodyReceived = Len(taken) + Len(p.body)
  /\ \/ left # <<>> /\ p.state = "kExpectBody" /\ p.result = "kHeadersComplete"
     \/ left = <<>> /\ p.state = "kGotAll" /\ p.result = "kGotRequest"

\* processBody takes all there is, as it never holds more than the body.
LEMMA BodyTaken ==
  ASSUME NEW p \in Parses, p.state = "kExpectBody",
         NEW room \in Nat, p.contentLength = p.bodyReceived + Len(p.buf) + room
  PROVE  LET q == expectBody(p)
         IN  /\ q \in Parses /\ q.spins = p.spins /\ q.fails = p.fails /\ q.buf = <<>>
             /\ q.contentLength = p.contentLength /\ q.body = p.body \o p.buf
             /\ q.bodyReceived = p.bodyReceived + Len(p.buf)
             /\ room > 0 => q.state = "kExpectBody" /\ q.result = "kHeadersComplete"
             /\ room = 0 => q.state = "kGotAll" /\ q.result = "kGotRequest"
<1>. DEFINE s == p.buf
            m == Len(s)
            b == p.body
            c == p.contentLength
            r == p.bodyReceived
<1>1. s \in Atoms /\ m \in Nat /\ b \in Atoms /\ c \in Nat /\ r \in Nat /\ c - r = m + room
  BY LenProperties DEF Parses, Atoms
<1>2. SubSeq(s, 1, m) = s /\ Drop(s, m) = <<>> /\ b \o s \in Atoms
  <2>1. m + 1 \in Int /\ m \in Int /\ m < m + 1
    BY <1>1
  <2>2. SubSeq(s, m + 1, m) = <<>>
    BY <2>1, SubSeqEmpty
  <2>. QED BY <1>1, <2>2, SubSeqFull, ConcatProperties DEF Atoms, Drop
<1>3. Min({m, c - r}) = m
  <2>. DEFINE d == c - r
  <2>1. d \in Int /\ m <= d
    BY <1>1
  <2>. HIDE DEF d, m
  <2>2. \A x \in {m, d} : (\A y \in {m, d} : x <= y) => x = m
    BY <1>1, <2>1
  <2>3. m \in {m, d} /\ \A y \in {m, d} : m <= y
    BY <1>1, <2>1
  <2>4. Min({m, d}) = m
    BY <2>2, <2>3 DEF Min
  <2>. QED BY <2>4 DEF d
<1>. DEFINE e == <<>>
            w == b \o s
            q == [p EXCEPT !.body = w, !.buf = e, !.bodyReceived = r + m]
<1>4. expectBody(p) = IF r + m >= c
                      THEN [q EXCEPT !.state = "kGotAll", !.result = "kGotRequest"]
                      ELSE [q EXCEPT !.result = "kHeadersComplete"]
  BY <1>1, <1>2, <1>3 DEF expectBody, countBody
<1>5. /\ w \in Atoms /\ e \in Atoms /\ r + m \in Nat
      /\ (room > 0 => ~(r + m >= c)) /\ (room = 0 => r + m >= c)
  BY <1>1, <1>2, EmptySeq, SMTT(30) DEF Atoms
<1>. HIDE DEF s, m, b, c, r, w, e
<1>6. /\ q \in Parses /\ q.spins = p.spins /\ q.fails = p.fails /\ q.buf = e /\ q.body = w
      /\ q.contentLength = p.contentLength /\ q.bodyReceived = r + m /\ q.state = "kExpectBody"
  BY <1>5 DEF Parses
<1>. HIDE DEF q
<1>. DEFINE full == [q EXCEPT !.state = "kGotAll", !.result = "kGotRequest"]
            part == [q EXCEPT !.result = "kHeadersComplete"]
            Takes(z) == /\ z \in Parses /\ z.spins = p.spins /\ z.fails = p.fails /\ z.buf = e
                        /\ z.contentLength = p.contentLength /\ z.body = w
                        /\ z.bodyReceived = r + m
<1>7. Takes(full) /\ full.state = "kGotAll" /\ full.result = "kGotRequest"
  BY <1>6 DEF Parses
<1>8. Takes(part) /\ part.state = "kExpectBody" /\ part.result = "kHeadersComplete"
  BY <1>6 DEF Parses
<1>. HIDE DEF full, part
<1>9. /\ Takes(expectBody(p))
      /\ room > 0 => /\ expectBody(p).state = "kExpectBody"
                     /\ expectBody(p).result = "kHeadersComplete"
      /\ room = 0 => expectBody(p).state = "kGotAll" /\ expectBody(p).result = "kGotRequest"
  <2>1. room = 0 => expectBody(p) = full
    BY <1>4, <1>5 DEF full, part
  <2>2. room > 0 => expectBody(p) = part
    BY <1>4, <1>5 DEF full, part
  <2>3. room = 0 \/ room > 0
    OBVIOUS
  <2>4. ~(room = 0 /\ room > 0)
    OBVIOUS
  <2>. QED BY <1>7, <1>8, <2>1, <2>2, <2>3, <2>4, Zenon
<1>. QED BY <1>9 DEF s, m, b, w, e, r

\* What onMessage keeps of the parser.
LEMMA ContextIs ==
  ASSUME NEW p \in Parses
  PROVE  Context(p) = [state |-> p.state, method |-> p.method,
                       contentLength |-> p.contentLength,
                       bodyReceived |-> p.bodyReceived, body |-> p.body]
<1>1. DOMAIN NewContext = {"state", "method", "contentLength", "bodyReceived", "body"}
  BY DEF NewContext
<1>2. Context(p) = [f \in {"state", "method", "contentLength", "bodyReceived", "body"} |-> p[f]]
  BY <1>1 DEF Context
<1>. QED BY <1>2

\* A context has the parser's fields.
LEMMA ContextFields ==
  ASSUME NEW p \in Parses
  PROVE  LET h == Context(p)
         IN  /\ h \in Contexts /\ h.state = p.state /\ h.body = p.body
             /\ h.contentLength = p.contentLength /\ h.bodyReceived = p.bodyReceived
<1>. DEFINE h == Context(p)
<1>1. h = [state |-> p.state, method |-> p.method, contentLength |-> p.contentLength,
           bodyReceived |-> p.bodyReceived, body |-> p.body]
  BY ContextIs
<1>. HIDE DEF h
<1>2. /\ h \in Contexts /\ h.state = p.state /\ h.body = p.body
      /\ h.contentLength = p.contentLength /\ h.bodyReceived = p.bodyReceived
  BY <1>1 DEF Contexts, Parses
<1>. QED BY <1>2 DEF h

\* And may lose its body.
LEMMA ClearedFields ==
  ASSUME NEW g \in Contexts
  PROVE  LET h == [g EXCEPT !.body = clearBody(@)]
         IN  /\ h \in Contexts /\ h.state = g.state /\ h.body = <<>>
             /\ h.contentLength = g.contentLength /\ h.bodyReceived = g.bodyReceived
<1>. DEFINE e == <<>>
            h == [g EXCEPT !.body = e]
<1>1. e \in Atoms
  BY EmptySeq DEF Atoms
<1>. HIDE DEF e
<1>2. /\ h \in Contexts /\ h.state = g.state /\ h.body = e
      /\ h.contentLength = g.contentLength /\ h.bodyReceived = g.bodyReceived
  BY <1>1 DEF Contexts
<1>. QED BY <1>2 DEF e, clearBody

\* The parser's record before it starts.
Before(h, bytes) ==
  [state |-> h.state, method |-> h.method, body |-> h.body, contentLength |-> h.contentLength,
   bodyReceived |-> h.bodyReceived, buf |-> bytes, result |-> "kNeedMore",
   spins |-> FALSE, fails |-> FALSE]

\* It has the context's fields.
LEMMA BeforeFields ==
  ASSUME NEW h \in Contexts, NEW bytes \in Atoms
  PROVE  LET p == Before(h, bytes)
         IN  /\ p \in Parses /\ p.state = h.state /\ p.method = h.method /\ p.body = h.body
             /\ p.contentLength = h.contentLength /\ p.bodyReceived = h.bodyReceived
             /\ p.buf = bytes /\ p.result = "kNeedMore" /\ ~p.spins /\ ~p.fails
BY DEF Before, Parses, Contexts

\* What a read adds to inputBuffer_.
LEMMA Took ==
  ASSUME Typed, NEW n \in 1 .. Len(rest)
  PROVE  LET b == buf \o SubSeq(rest, 1, n)
         IN  /\ b \in Atoms /\ Len(b) = Len(buf) + n /\ b \o Drop(rest, n) = buf \o rest
             /\ Parsed(n) = expectBody(headers(requestLine(Before(http, b))))
             /\ Drop(rest, n) \in Atoms /\ Len(Drop(rest, n)) = Len(rest) - n
             /\ \A i \in 1 .. Len(buf) : b[i] = buf[i]
<1>. DEFINE t == SubSeq(rest, 1, n)
            d == Drop(rest, n)
<1>1. n \in 0 .. Len(rest) /\ rest \in Atoms /\ buf \in Atoms /\ n \in Nat /\ Len(buf) \in Nat
  BY LenProperties DEF Typed, Atoms
<1>2. t \in Atoms /\ Len(t) = n /\ d \in Atoms /\ Len(d) = Len(rest) - n /\ rest = t \o d
  BY <1>1, Cut
<1>3. Parsed(n) = expectBody(headers(requestLine(Before(http, buf \o t))))
  BY DEF Parsed, parseRequest, Before
<1>. HIDE DEF t, d
<1>4. /\ buf \o t \in Atoms /\ Len(buf \o t) = Len(buf) + n
      /\ \A i \in 1 .. Len(buf) + Len(t) :
           (buf \o t)[i] = IF i <= Len(buf) THEN buf[i] ELSE t[i - Len(buf)]
  BY <1>1, <1>2, ConcatProperties DEF Atoms
<1>5. (buf \o t) \o d = buf \o rest
  BY <1>1, <1>2, Associative, ZenonT(60)
<1>6. \A i \in 1 .. Len(buf) : (buf \o t)[i] = buf[i]
  <2>1. \A i \in 1 .. Len(buf) : i \in 1 .. Len(buf) + Len(t) /\ i <= Len(buf)
    BY <1>1, <1>2
  <2>. QED BY <1>4, <2>1
<1>. QED BY <1>2, <1>3, <1>4, <1>5, <1>6 DEF t, d

\* Dropping twice, and dropping from the first of two sequences.
LEMMA Dropping ==
  ASSUME NEW s \in Atoms, NEW t \in Atoms, NEW m \in Nat, NEW n \in Nat, m + n <= Len(s)
  PROVE  /\ Drop(Drop(s, m), n) = Drop(s, m + n)
         /\ Drop(s \o t, m) = Drop(s, m) \o t
<1>. DEFINE k == m + n
            st == s \o t
<1>1. Len(s) \in Nat /\ Len(t) \in Nat /\ s \in Seq(Int) /\ t \in Seq(Int)
  BY LenProperties DEF Atoms
<1>2. /\ st \in Atoms /\ Len(st) = Len(s) + Len(t)
      /\ \A i \in 1 .. Len(s) + Len(t) : st[i] = IF i <= Len(s) THEN s[i] ELSE t[i - Len(s)]
  BY <1>1, ConcatProperties DEF Atoms
<1>3. /\ m \in 0 .. Len(s) /\ k \in 0 .. Len(s) /\ n \in 0 .. Len(s) - m
      /\ m \in 0 .. Len(s) + Len(t) /\ k \in Nat
  BY <1>1
<1>. HIDE DEF st
<1>4. Drop(Drop(s, m), n) = Drop(s, k)
  <2>. DEFINE a == Drop(s, m)
              b == Drop(a, n)
              c == Drop(s, k)
  <2>1. a \in Atoms /\ Len(a) = Len(s) - m /\ \A i \in 1 .. Len(s) - m : a[i] = s[i + m]
    BY <1>3, Cut
  <2>. HIDE DEF a
  <2>2. b \in Atoms /\ Len(b) = Len(a) - n /\ \A i \in 1 .. Len(a) - n : b[i] = a[i + n]
    BY <1>3, <2>1, Cut
  <2>. HIDE DEF k
  <2>3. c \in Atoms /\ Len(c) = Len(s) - k /\ \A i \in 1 .. Len(s) - k : c[i] = s[i + k]
    BY <1>3, Cut
  <2>. HIDE DEF b, c
  <2>4. Len(b) = Len(c)
    BY <1>1, <2>1, <2>2, <2>3 DEF k
  <2>5. ASSUME NEW i \in 1 .. Len(b) PROVE b[i] = c[i]
    <3>. DEFINE j == i + n
    <3>1. j \in 1 .. Len(s) - m /\ j + m = i + k /\ i \in 1 .. Len(s) - k /\ i \in 1 .. Len(a) - n
      BY <1>1, <2>1, <2>2 DEF k
    <3>2. b[i] = a[j]
      BY <2>2, <3>1
    <3>. HIDE DEF j
    <3>. QED BY <2>1, <2>3, <3>1, <3>2
  <2>6. b = c
    BY <2>2, <2>3, <2>4, <2>5, SeqEqual DEF Atoms
  <2>. QED BY <2>6 DEF a, b, c
<1>5. Drop(st, m) = Drop(s, m) \o t
  <2>. DEFINE a == Drop(st, m)
              b == Drop(s, m)
              c == b \o t
  <2>1. a \in Atoms /\ Len(a) = Len(st) - m /\ \A i \in 1 .. Len(st) - m : a[i] = st[i + m]
    BY <1>2, <1>3, Cut
  <2>2. b \in Atoms /\ Len(b) = Len(s) - m /\ \A i \in 1 .. Len(s) - m : b[i] = s[i + m]
    BY <1>3, Cut
  <2>. HIDE DEF a, b
  <2>3. /\ c \in Atoms /\ Len(c) = Len(b) + Len(t)
        /\ \A i \in 1 .. Len(b) + Len(t) : c[i] = IF i <= Len(b) THEN b[i] ELSE t[i - Len(b)]
    BY <1>1, <2>2, ConcatProperties DEF Atoms
  <2>. HIDE DEF c
  <2>4. Len(a) = Len(c)
    BY <1>1, <1>2, <2>1, <2>2, <2>3
  <2>5. ASSUME NEW i \in 1 .. Len(a) PROVE a[i] = c[i]
    <3>. DEFINE j == i + m
    <3>1. /\ j \in 1 .. Len(s) + Len(t) /\ i \in 1 .. Len(b) + Len(t) /\ i \in 1 .. Len(st) - m
          /\ j <= Len(s) <=> i <= Len(b) 
          /\ j - Len(s) = i - Len(b)
          /\ i <= Len(b) => i \in 1 .. Len(s) - m
      BY <1>1, <1>2, <2>1, <2>2
    <3>2. a[i] = st[j]
      BY <2>1, <3>1
    <3>3. i <= Len(b) => b[i] = s[j]
      BY <2>2, <3>1
    <3>. HIDE DEF j
    <3>. QED BY <1>2, <2>3, <3>1, <3>2, <3>3
  <2>6. a = c
    BY <2>1, <2>3, <2>4, <2>5, SeqEqual DEF Atoms
  <2>. QED BY <2>6 DEF a, b, c
<1>. QED BY <1>4, <1>5 DEF k, st

\* The parser's last state, once the header is read.
LEMMA BodyStep ==
  ASSUME NEW p \in Parses, p.state = "kExpectBody", ~p.spins, ~p.fails,
         NEW left \in Atoms, NEW body \in Atoms, taken \in Atoms,
         p.contentLength = Len(body), taken \o p.body \o (p.buf \o left) = body,
         p.bodyReceived = Len(taken) + Len(p.body)
  PROVE  InBodyOf(expectBody(p), left, body)
<1>. DEFINE b == p.body
            s == p.buf
            q == expectBody(p)
            room == Len(left)
            w == b \o s
<1>1. /\ b \in Seq(Int) /\ s \in Seq(Int) /\ left \in Seq(Int) /\ taken \in Seq(Int)
      /\ Len(b) \in Nat /\ Len(s) \in Nat /\ room \in Nat /\ Len(taken) \in Nat
  BY LenProperties DEF Parses, Atoms
<1>2. room = 0 <=> left = <<>>
  BY <1>1, EmptySeq
<1>. HIDE DEF b, s, room
<1>3. /\ taken \o b \in Seq(Int) /\ Len(taken \o b) = Len(taken) + Len(b)
      /\ s \o left \in Seq(Int) /\ Len(s \o left) = Len(s) + room
      /\ w \in Seq(Int) /\ Len(w) = Len(b) + Len(s)
  BY <1>1, ConcatProperties DEF room
<1>4. Len(taken \o b \o (s \o left)) = Len(taken \o b) + Len(s \o left)
  BY <1>3, ConcatProperties
<1>5. p.contentLength = p.bodyReceived + Len(p.buf) + room
  <2>1. Len(body) = Len(taken \o b) + Len(s \o left)
    BY <1>4, Zenon DEF b, s
  <2>2. Len(body) = Len(taken) + Len(b) + Len(s) + room
    BY <1>1, <1>3, <2>1
  <2>. QED BY <1>1, <2>2 DEF b, s
<1>6. /\ q \in Parses /\ q.spins = p.spins /\ q.fails = p.fails /\ q.buf = <<>>
      /\ q.contentLength = p.contentLength /\ q.body = p.body \o p.buf
      /\ q.bodyReceived = p.bodyReceived + Len(p.buf)
      /\ room > 0 => q.state = "kExpectBody" /\ q.result = "kHeadersComplete"
      /\ room = 0 => q.state = "kGotAll" /\ q.result = "kGotRequest"
  BY <1>1, <1>5, BodyTaken
<1>. HIDE DEF q
<1>7. taken \o w \o left = body
  <2>1. taken \o w = (taken \o b) \o s
    BY <1>1, Associative, ZenonT(60) DEF Atoms
  <2>. DEFINE tb == taken \o b
  <2>2. tb \in Atoms
    BY <1>3 DEF Atoms
  <2>. HIDE DEF tb
  <2>3. (tb \o s) \o left = tb \o (s \o left)
    BY <1>1, <2>2, Associative, ZenonT(60) DEF Atoms
  <2>. QED BY <2>1, <2>3 DEF b, s, tb
<1>. HIDE DEF w
<1>8. q.body = w /\ q.bodyReceived = Len(taken) + Len(w)
  <2>1. q.body = w
    BY <1>6 DEF w, b, s
  <2>2. q.bodyReceived = Len(taken) + Len(b) + Len(s)
    BY <1>6 DEF b, s
  <2>. QED BY <1>1, <1>3, <2>1, <2>2
<1>9. room = 0 \/ room > 0
  BY <1>1
<1>10. ~q.spins /\ ~q.fails
  BY <1>6
<1>11. \/ left # <<>> /\ q.state = "kExpectBody" /\ q.result = "kHeadersComplete"
       \/ left = <<>> /\ q.state = "kGotAll" /\ q.result = "kGotRequest"
  BY <1>2, <1>6, <1>9
<1>12. q \in Parses /\ q.buf = <<>> /\ q.contentLength = Len(body) /\ taken \o q.body \o left = body
  BY <1>6, <1>7, <1>8
<1>13. InBodyOf(q, left, body)
  BY <1>8, <1>10, <1>11, <1>12, Zenon DEF InBodyOf
<1>. QED BY <1>13 DEF q

\* A read inside the body.
LEMMA ParseBody ==
  ASSUME Typed, InBody, NEW n \in 1 .. Len(rest)
  PROVE  InBodyOf(Parsed(n), Drop(rest, n), Body(form))
<1>. DEFINE b == buf \o SubSeq(rest, 1, n)
            d == Drop(rest, n)
            p == Before(http, b)
            body == Body(form)
<1>1. /\ b \in Atoms /\ b \o d = buf \o rest /\ d \in Atoms
      /\ Parsed(n) = expectBody(headers(requestLine(p)))
  BY Took
<1>2. b \o d = rest
  <2>1. rest \in Seq(Int) /\ buf = <<>>
    BY DEF Typed, Atoms, InBody
  <2>2. <<>> \o rest = rest
    BY <2>1, ConcatEmptySeq
  <2>. QED BY <1>1, <2>1, <2>2
<1>3. http \in Contexts /\ taken \in Atoms /\ body \in Atoms
  BY BodyIs DEF Typed
<1>. HIDE DEF b, d
<1>4. /\ p \in Parses /\ p.state = "kExpectBody" /\ p.body = http.body
      /\ p.contentLength = Len(body) /\ p.bodyReceived = Len(taken) + Len(http.body)
      /\ p.buf = b /\ ~p.spins /\ ~p.fails
  BY <1>1, <1>3, BeforeFields DEF InBody
<1>. HIDE DEF p
<1>5. headers(requestLine(p)) = p
  BY <1>4 DEF headers, requestLine
<1>6. taken \o p.body \o (p.buf \o d) = body
  BY <1>2, <1>4 DEF InBody
<1>. HIDE DEF body
<1>7. InBodyOf(expectBody(p), d, body)
  BY <1>1, <1>3, <1>4, <1>6, BodyStep
<1>. QED BY <1>1, <1>5, <1>7 DEF d, body

\* A request line that is complete and not accepted.
LEMMA ParseRefused ==
  ASSUME NEW p \in Parses, p.state = "kExpectRequestLine", ~p.spins,
         Len(p.buf) > 1, p.buf[1] # Line, p.buf[1] # CRLF, p.buf[2] = CRLF
  PROVE  LET q == expectBody(headers(requestLine(p)))
         IN  /\ q \in Parses /\ q.state = p.state /\ q.buf = p.buf /\ ~q.spins
             /\ q.fails = (p.method # "kInvalid")
             /\ q.result = "kError"
<1>. DEFINE q == requestLine(p)
            m == IF p.buf[1] = BadVersion THEN "kPost" ELSE "kInvalid"
            f == (p.method # "kInvalid")
<1>1. p.buf \in Atoms
  BY DEF Parses
<1>2. Find(p.buf, <<CRLF>>) = 2
  BY <1>1, FindCRLF
<1>3. q = [p EXCEPT !.fails = f, !.result = "kError", !.method = m]
  BY <1>2 DEF requestLine
<1>4. f \in BOOLEAN /\ m \in {"kInvalid", "kPost"}
  OBVIOUS
<1>. HIDE DEF q, m, f
<1>5. /\ q \in Parses /\ q.state = p.state /\ q.buf = p.buf /\ q.spins = p.spins /\ q.fails = f
      /\ q.result = "kError"
  BY <1>3, <1>4 DEF Parses
<1>6. expectBody(headers(q)) = q
  BY <1>5 DEF headers, expectBody
<1>. QED BY <1>5, <1>6 DEF q, f

\* What a read of the request line and the header can lead to: part of the line, ...
LinePart(p, b) ==
  /\ Len(b) <= 1 /\ p.buf = b /\ p.result = "kNeedMore" /\ ~p.spins /\ ~p.fails
  /\ p \in Parses /\ Context(p) = NewContext

\* ... a line that is refused, ...
LineRefused(p, b) ==
  /\ Len(b) > 1 /\ b[1] # Line /\ b[1] # CRLF /\ b[2] = CRLF
  /\ p \in Parses /\ p.buf = b /\ p.state = "kExpectRequestLine"
  /\ p.result = "kError" /\ ~p.spins

\* ... or header lines without the empty line.
HeaderPart(p) == p \in Parses /\ p.state = "kExpectHeaders" /\ p.spins /\ ~p.fails

\* A line that is accepted.
LEMMA LineAccepted ==
  ASSUME NEW b \in Atoms, Len(b) > 1, b[1] = Line, b[2] = CRLF
  PROVE  LET q == requestLine(Before(NewContext, b))
         IN  /\ q \in Parses /\ q.state = "kExpectHeaders" /\ q.buf = Drop(b, 2)
             /\ q.body = <<>> /\ q.bodyReceived = 0 /\ ~q.spins /\ ~q.fails
<1>. DEFINE p == Before(NewContext, b)
            q == requestLine(p)
            d == Drop(b, 2)
            e == <<>>
<1>1. e \in Atoms /\ Line # CRLF
  BY EmptySeq DEF Atoms, Line, CRLF
<1>2. /\ p \in Parses /\ p.state = "kExpectRequestLine" /\ p.method = "kInvalid" /\ p.body = e
      /\ p.bodyReceived = 0 /\ p.buf = b /\ ~p.spins
  <2>. HIDE DEF e
  <2>. QED BY <1>1 DEF Before, NewContext, Parses, e
<1>3. d \in Atoms
  <2>. DEFINE k == 2
  <2>1. k \in 0 .. Len(b)
    BY LenProperties DEF Atoms
  <2>. HIDE DEF k
  <2>2. Drop(b, k) \in Atoms
    BY <2>1, Cut
  <2>. QED BY <2>2 DEF k
<1>4. Find(b, <<CRLF>>) = 2
  BY <1>1, FindCRLF
<1>. DEFINE f == (p.method # "kInvalid")
<1>. HIDE DEF p, d, e
<1>5. q = [p EXCEPT !.fails = f, !.method = "kPost", !.buf = d, !.state = "kExpectHeaders"]
  <2>. DEFINE k == Find(p.buf, <<CRLF>>)
              m == IF p.buf[1] = BadVersion THEN "kPost" ELSE "kInvalid"
              u == Drop(p.buf, k)
  <2>1. k # 0 /\ p.buf[1] = Line /\ u = d
    BY <1>2, <1>4 DEF d
  <2>2. q = IF p.state # "kExpectRequestLine" \/ k = 0 THEN p
            ELSE IF p.buf[1] = Line
            THEN [p EXCEPT !.fails = f, !.method = "kPost", !.buf = u, !.state = "kExpectHeaders"]
            ELSE [p EXCEPT !.fails = f, !.result = "kError", !.method = m]
    BY DEF requestLine
  <2>. HIDE DEF k, m, u, q, f
  <2>. QED BY <1>2, <2>1, <2>2
<1>7. f = FALSE
  BY <1>2
<1>. HIDE DEF q, f
<1>6. /\ q \in Parses /\ q.state = "kExpectHeaders" /\ q.buf = d /\ q.body = e
      /\ q.bodyReceived = 0 /\ ~q.spins /\ ~q.fails
  BY <1>2, <1>3, <1>5, <1>7 DEF Parses
<1>. QED BY <1>6 DEF q, p, d, e

\* Header lines after which the empty line is there, or is not.
LEMMA HeaderRead ==
  ASSUME NEW p \in Parses, p.state = "kExpectHeaders", ~p.spins, ~p.fails,
         Len(p.buf) > 0 => p.buf[1] # CRLF, Len(p.buf) > 1 => p.buf[2] = CRLF,
         Len(p.buf) > 2 => p.buf[3] = CRLF
  PROVE  LET q == headers(p)
         IN  /\ Len(p.buf) <= 2 => HeaderPart(expectBody(q))
             /\ Len(p.buf) > 2 =>
                  /\ q \in Parses /\ q.state = "kExpectBody" /\ q.buf = Drop(p.buf, 3)
                  /\ q.contentLength = Len(Body(form)) /\ q.body = p.body
                  /\ q.bodyReceived = p.bodyReceived /\ ~q.spins /\ ~q.fails
<1>. DEFINE q == headers(p)
            d == Drop(p.buf, 3)
            c == Len(Body(form))
<1>1. p.buf \in Atoms /\ Len(p.buf) \in Nat /\ c \in Nat
  BY LenProperties, BodyIs DEF Parses, Atoms
<1>2. ASSUME Len(p.buf) <= 2 PROVE HeaderPart(expectBody(q))
  <2>1. Find(<<CRLF>> \o p.buf, <<CRLF, CRLF>>) = 0
    BY <1>1, <1>2, FindBlank
  <2>2. q = [p EXCEPT !.spins = TRUE]
    BY <2>1 DEF headers
  <2>. HIDE DEF q
  <2>3. HeaderPart(q)
    BY <2>2 DEF HeaderPart, Parses
  <2>4. expectBody(q) = q
    BY <2>3 DEF expectBody, HeaderPart
  <2>. QED BY <2>3, <2>4
<1>3. ASSUME Len(p.buf) > 2
      PROVE  /\ q \in Parses /\ q.state = "kExpectBody" /\ q.buf = d
             /\ q.contentLength = c /\ q.body = p.body
             /\ q.bodyReceived = p.bodyReceived /\ ~q.spins /\ ~q.fails
  <2>1. Find(<<CRLF>> \o p.buf, <<CRLF, CRLF>>) = 3
    BY <1>1, <1>3, FindBlank
  <2>2. q = [p EXCEPT !.buf = d, !.state = "kExpectBody", !.contentLength = c,
                      !.result = "kHeadersComplete"]
    <3>. DEFINE blank == Find(<<CRLF>> \o p.buf, <<CRLF, CRLF>>)
    <3>1. q = IF blank = 0 THEN [p EXCEPT !.spins = TRUE]
              ELSE [p EXCEPT !.buf = Drop(p.buf, blank), !.state = "kExpectBody",
                             !.contentLength = c, !.result = "kHeadersComplete"]
      BY DEF headers
    <3>2. blank # 0 /\ Drop(p.buf, blank) = d
      BY <2>1
    <3>. HIDE DEF blank, q, d, c
    <3>. QED BY <3>1, <3>2
  <2>3. d \in Atoms
    <3>. DEFINE k == 3
    <3>1. k \in 0 .. Len(p.buf)
      BY <1>1, <1>3
    <3>. HIDE DEF k
    <3>2. Drop(p.buf, k) \in Atoms
      BY <1>1, <3>1, Cut
    <3>. QED BY <3>2 DEF k
  <2>. HIDE DEF q, d, c
  <2>. QED BY <1>1, <2>2, <2>3 DEF Parses
<1>. QED BY <1>2, <1>3 DEF q, d, c

\* A read before the header is complete.
LEMMA ParseWaiting ==
  ASSUME Typed, Waiting, NEW n \in 1 .. Len(rest)
  PROVE  LET p == Parsed(n)
             b == buf \o SubSeq(rest, 1, n)
         IN  \/ LinePart(p, b) \/ (LineRefused(p, b) /\ ~p.fails) \/ HeaderPart(p)
             \/ InBodyOf(p, Drop(rest, n), Body(form))
<1>. DEFINE b == buf \o SubSeq(rest, 1, n)
            d == Drop(rest, n)
            p == Before(http, b)
            q == requestLine(p)
            body == Body(form)
<1>1. /\ b \in Atoms /\ b \o d = buf \o rest /\ d \in Atoms
      /\ Parsed(n) = expectBody(headers(q))
  BY Took
<1>2. http = NewContext /\ http \in Contexts /\ taken = <<>> /\ <<>> \in Atoms
  BY EmptySeq DEF Waiting, Typed, Atoms
<1>3. PICK line \in Lines : b \o d = Request(line, form)
  BY <1>1 DEF Waiting
<1>. DEFINE r == Request(line, form)
<1>4. /\ r \in Atoms /\ Len(r) = 5 + Len(body) /\ Drop(r, 5) = body /\ body \in Atoms
      /\ r[1] # CRLF /\ r[2] = CRLF /\ r[3] # CRLF /\ r[4] = CRLF /\ r[5] = CRLF
  BY RequestIs, BodyIs
<1>. HIDE DEF b, d, r
<1>5. r = b \o d
  BY <1>3 DEF r
<1>6. Len(b) \in Nat /\ Len(d) \in Nat /\ \A i \in 1 .. Len(b) : b[i] = r[i]
  <2>1. /\ Len(b) \in Nat /\ Len(d) \in Nat
        /\ \A i \in 1 .. Len(b) + Len(d) : r[i] = IF i <= Len(b) THEN b[i] ELSE d[i - Len(b)]
    BY <1>1, <1>5, ConcatProperties, LenProperties DEF Atoms
  <2>2. \A i \in 1 .. Len(b) : i \in 1 .. Len(b) + Len(d) /\ i <= Len(b)
    BY <2>1
  <2>. QED BY <2>1, <2>2
<1>7. /\ Len(b) > 0 => b[1] # CRLF
      /\ Len(b) > 1 => b[2] = CRLF
      /\ Len(b) > 2 => b[3] # CRLF
      /\ Len(b) > 3 => b[4] = CRLF
      /\ Len(b) > 4 => b[5] = CRLF
  BY <1>4, <1>6, SMTT(60)
<1>8. /\ p \in Parses /\ p.state = "kExpectRequestLine" /\ p.method = "kInvalid" /\ p.buf = b
      /\ p.result = "kNeedMore" /\ ~p.spins /\ ~p.fails
  BY <1>1, <1>2, BeforeFields DEF NewContext
<1>9. CASE Len(b) <= 1
  <2>1. Find(p.buf, <<CRLF>>) = 0
    BY <1>1, <1>7, <1>8, <1>9, FindCRLF
  <2>2. Context(p) = NewContext
    <3>1. Context(p) = [state |-> p.state, method |-> p.method,
                        contentLength |-> p.contentLength,
                        bodyReceived |-> p.bodyReceived, body |-> p.body]
      BY <1>8, ContextIs
    <3>2. /\ p.state = http.state /\ p.method = http.method /\ p.body = http.body
          /\ p.contentLength = http.contentLength /\ p.bodyReceived = http.bodyReceived
      BY <1>1, <1>2, BeforeFields
    <3>. HIDE DEF p
    <3>. QED BY <1>2, <3>1, <3>2 DEF NewContext
  <2>. HIDE DEF p
  <2>3. q = p
    BY <2>1 DEF requestLine
  <2>4. expectBody(headers(p)) = p
    BY <1>8 DEF headers, expectBody
  <2>5. LinePart(p, b)
    BY <1>8, <1>9, <2>2 DEF LinePart
  <2>. QED BY <1>1, <2>3, <2>4, <2>5 DEF b
<1>10. CASE Len(b) > 1 /\ b[1] # Line
  <2>. HIDE DEF p
  <2>. DEFINE z == expectBody(headers(requestLine(p)))
  <2>1. /\ z \in Parses /\ z.state = p.state /\ z.buf = p.buf /\ ~z.spins
        /\ z.fails = (p.method # "kInvalid") /\ z.result = "kError"
    <3>1. Len(p.buf) > 1 /\ p.buf[1] # Line /\ p.buf[1] # CRLF /\ p.buf[2] = CRLF
      BY <1>6, <1>7, <1>8, <1>10
    <3>. QED BY <1>8, <3>1, ParseRefused
  <2>2. Parsed(n) = z
    BY <1>1
  <2>. HIDE DEF z
  <2>3. ~z.fails
    BY <1>8, <2>1, Zenon
  <2>4. Len(b) > 1 /\ b[1] # Line /\ b[1] # CRLF /\ b[2] = CRLF
    BY <1>6, <1>7, <1>10
  <2>5. LineRefused(z, b)
    BY <1>8, <2>1, <2>4, Zenon DEF LineRefused
  <2>. QED BY <2>2, <2>3, <2>5 DEF b
<1>11. CASE Len(b) > 1 /\ b[1] = Line
  <2>. DEFINE u == Drop(b, 2)
              v == headers(q)
              e == <<>>
  <2>1. /\ q \in Parses /\ q.state = "kExpectHeaders" /\ q.buf = u
        /\ q.body = e /\ q.bodyReceived = 0 /\ ~q.spins /\ ~q.fails
    BY <1>1, <1>2, <1>7, <1>11, LineAccepted
  <2>2. Len(u) = Len(b) - 2 /\ \A i \in 1 .. Len(b) - 2 : u[i] = b[i + 2]
    <3>. DEFINE k == 2
    <3>1. k \in 0 .. Len(b)
      BY <1>6, <1>11
    <3>. HIDE DEF k
    <3>2. Len(Drop(b, k)) = Len(b) - k /\ \A i \in 1 .. Len(b) - k : Drop(b, k)[i] = b[i + k]
      BY <1>1, <3>1, Cut
    <3>. QED BY <3>2 DEF k
  <2>. HIDE DEF u, q, e
  <2>3. /\ Len(u) > 0 => u[1] # CRLF
        /\ Len(u) > 1 => u[2] = CRLF
        /\ Len(u) > 2 => u[3] = CRLF
    <3>1. /\ Len(u) > 0 => 1 \in 1 .. Len(b) - 2 /\ 1 + 2 = 3 /\ Len(b) > 2
          /\ Len(u) > 1 => 2 \in 1 .. Len(b) - 2 /\ 2 + 2 = 4 /\ Len(b) > 3
          /\ Len(u) > 2 => 3 \in 1 .. Len(b) - 2 /\ 3 + 2 = 5 /\ Len(b) > 4
      BY <1>6, <2>2
    <3>. QED BY <1>7, <2>2, <3>1
  <2>4. /\ Len(u) <= 2 => HeaderPart(expectBody(v))
        /\ Len(u) > 2 =>
             /\ v \in Parses /\ v.state = "kExpectBody" /\ v.buf = Drop(u, 3)
             /\ v.contentLength = Len(body) /\ v.body = e
             /\ v.bodyReceived = 0 /\ ~v.spins /\ ~v.fails
    BY <2>1, <2>3, HeaderRead
  <2>5. CASE Len(u) <= 2
    BY <1>1, <2>4, <2>5
  <2>6. CASE Len(u) > 2
    <3>. HIDE DEF v
    <3>1. Drop(u, 3) \o d = body
      <4>. DEFINE i == 2
                  j == 3
      <4>1. i \in Nat /\ j \in Nat /\ i + j = 5 /\ 5 \in Nat /\ 5 + 0 <= Len(b) /\ i + j <= Len(b)
        BY <1>6, <2>2, <2>6
      <4>2. u = Drop(b, i) /\ Drop(u, 3) = Drop(u, j)
        BY DEF u
      <4>. HIDE DEF i, j
      <4>3. Drop(Drop(b, i), j) = Drop(b, i + j)
        BY <1>1, <4>1, Dropping
      <4>4. Drop(b \o d, 5) = Drop(b, 5) \o d
        <5>. DEFINE k == 5
                    o == 0
        <5>1. k \in Nat /\ o \in Nat /\ k + o <= Len(b)
          BY <4>1
        <5>. HIDE DEF k, o
        <5>2. Drop(b \o d, k) = Drop(b, k) \o d
          BY <1>1, <5>1, Dropping, ZenonT(60)
        <5>. QED BY <5>2 DEF k
      <4>. QED BY <1>4, <1>5, <4>1, <4>2, <4>3, <4>4
    <3>2. taken \o e \o (Drop(u, 3) \o d) = body
      <4>1. taken \o e = <<>>
        BY <1>2, ConcatEmptySeq DEF Atoms, e
      <4>2. <<>> \o body = body
        BY <1>4, ConcatEmptySeq DEF Atoms
      <4>. QED BY <3>1, <4>1, <4>2
    <3>3. Len(taken) = 0 /\ Len(e) = 0 /\ taken \in Atoms
      BY <1>2 DEF e
    <3>4. /\ v \in Parses /\ v.state = "kExpectBody" /\ ~v.spins /\ ~v.fails
          /\ v.contentLength = Len(body) /\ taken \o v.body \o (v.buf \o d) = body
          /\ v.bodyReceived = Len(taken) + Len(v.body)
      <4>1. Len(taken) + Len(e) = 0
        BY <3>3
      <4>. QED BY <2>4, <2>6, <3>2, <4>1
    <3>. HIDE DEF body
    <3>5. InBodyOf(expectBody(v), d, body)
      BY <1>1, <1>4, <3>3, <3>4, BodyStep
    <3>. QED BY <1>1, <3>5 DEF v, d, body
  <2>7. Len(u) \in Nat
    BY <1>6, <1>11, <2>2
  <2>. QED BY <2>5, <2>6, <2>7
<1>. QED BY <1>6, <1>9, <1>10, <1>11

\* A read after a refusal.
LEMMA ParseAgain ==
  ASSUME Typed, Refused, NEW n \in 1 .. Len(rest)
  PROVE  LineRefused(Parsed(n), buf \o SubSeq(rest, 1, n))
<1>. DEFINE b == buf \o SubSeq(rest, 1, n)
            p == Before(http, b)
            z == expectBody(headers(requestLine(p)))
<1>1. /\ b \in Atoms /\ Len(b) = Len(buf) + n /\ Parsed(n) = z
      /\ \A i \in 1 .. Len(buf) : b[i] = buf[i]
  BY Took
<1>2. http \in Contexts /\ http.state = "kExpectRequestLine" /\ Len(buf) \in Nat
  BY LenProperties DEF Typed, Atoms, Refused
<1>. HIDE DEF b
<1>3. Len(b) > 1 /\ b[1] # Line /\ b[1] # CRLF /\ b[2] = CRLF
  <2>1. 1 \in 1 .. Len(buf) /\ 2 \in 1 .. Len(buf) /\ Len(b) > 1
    BY <1>1, <1>2 DEF Refused
  <2>. QED BY <1>1, <2>1 DEF Refused
<1>4. p \in Parses /\ p.state = "kExpectRequestLine" /\ p.buf = b /\ ~p.spins
  BY <1>1, <1>2, BeforeFields
<1>. HIDE DEF p
<1>5. z \in Parses /\ z.state = p.state /\ z.buf = p.buf /\ ~z.spins /\ z.result = "kError"
  BY <1>3, <1>4, ParseRefused
<1>. HIDE DEF z
<1>6. LineRefused(z, b)
  BY <1>3, <1>4, <1>5 DEF LineRefused
<1>. QED BY <1>1, <1>6 DEF b

\* Everything a read can lead to.
LEMMA Parse ==
  ASSUME Typed, Progress, ~spinning, ~failed, NEW n \in 1 .. Len(rest)
  PROVE  LET p == Parsed(n)
             b == buf \o SubSeq(rest, 1, n)
         IN  \/ Waiting /\ LinePart(p, b)
             \/ Waiting /\ LineRefused(p, b) /\ ~p.fails
             \/ Refused /\ LineRefused(p, b)
             \/ Waiting /\ HeaderPart(p)
             \/ /\ responses = <<>> /\ conn # "closing" /\ ~unacked
                /\ InBodyOf(p, Drop(rest, n), Body(form))
<1>1. ~Answered /\ ~Stopped
  <2>1. Len(rest) # 0
    BY LenProperties DEF Typed, Atoms
  <2>2. rest # <<>>
    BY <2>1
  <2>. QED BY <2>2 DEF Answered, Stopped
<1>2. CASE Waiting
  <2>1. responses = <<>> /\ conn # "closing" /\ ~unacked
    BY <1>2 DEF Waiting, Progress
  <2>. QED BY <1>2, <2>1, ParseWaiting, Zenon
<1>3. CASE InBody
  <2>1. responses = <<>> /\ conn # "closing" /\ ~unacked
    BY <1>3 DEF InBody, Progress
  <2>. QED BY <1>3, <2>1, ParseBody, Zenon
<1>4. CASE Refused
  BY <1>4, ParseAgain, Zenon
<1>. QED BY <1>1, <1>2, <1>3, <1>4 DEF Progress

-----------------------------------------------------------------------------
(* handleFileUpload.                                                       *)

\* What a call of the handler does to the request and the responses: ...
LastCall(p) ==
  /\ http' = NewContext
  /\ conn = "up" => \E r : responses' = Append(responses, r)
  /\ conn # "up" => UNCHANGED <<responses, unacked>>
  /\ taken' = taken \/ taken' = taken \o p.body

\* ... an early chunk stays in the request or has been dealt with.
EarlyCall(p) ==
  /\ UNCHANGED <<responses, unacked>>
  /\ \/ http' = Context(p) /\ taken' = taken
     \/ http' = [Context(p) EXCEPT !.body = clearBody(@)] /\ taken' = taken \o p.body

\* Every path of the handler does one or the other.
LEMMA HandlerEffect ==
  ASSUME NEW p, NEW last \in BOOLEAN, handleFileUpload(p, last), last => p.state = "kGotAll"
  PROVE  (last => LastCall(p)) /\ (~last => EarlyCall(p))
<1>1. \/ \E status, c, f : Refuse(last, status, p, c, f)
      \/ \E chunk, f, size, lost : Written(p, last, chunk, f, size, lost)
  <2>. DEFINE fresh == ctx = "none"
              f     == IF fresh THEN Len(disk) + 1 ELSE file
              chunk == IF fresh THEN firstChunk(p.body) ELSE nextChunk(p.body)
              size  == IF fresh THEN 0 ELSE total
              kept  == IF fresh THEN "kExpectHeaders" ELSE ctx
              more  == size + Len(chunk.data)
  <2>1. \/ Refuse(last, 401, p, ctx, file) \/ Refuse(last, 500, p, ctx, file)
        \/ Refuse(last, 500, p, kept, f)
        \/ Written(p, last, chunk, f, more, bad' # bad)
        \/ Written(p, last, chunk, f, size, FALSE)
    BY ZenonT(60) DEF handleFileUpload
  <2>. HIDE DEF f, chunk, size, kept, more
  <2>. DEFINE R == \E st, c, g : Refuse(last, st, p, c, g)
              W == \E k, g, sz, lost : Written(p, last, k, g, sz, lost)
  <2>2. \A st, c, g : Refuse(last, st, p, c, g) => R
    BY Zenon
  <2>3. \A k, g, sz, lost : Written(p, last, k, g, sz, lost) => W
    BY Zenon
  <2>. HIDE DEF R, W
  <2>4. Refuse(last, 401, p, ctx, file) \/ Refuse(last, 500, p, ctx, file) => R
    BY <2>2, ZenonT(60)
  <2>5. Refuse(last, 500, p, kept, f) => R
    BY <2>2, ZenonT(60)
  <2>6. Written(p, last, chunk, f, more, bad' # bad) => W
    BY <2>3, Zenon
  <2>7. Written(p, last, chunk, f, size, FALSE) => W
    BY <2>3, Zenon
  <2>8. R \/ W
    BY <2>1, <2>4, <2>5, <2>6, <2>7, ZenonT(60)
  <2>. QED BY <2>8, Zenon DEF R, W
<1>2. ASSUME NEW status, NEW c, NEW f, Refuse(last, status, p, c, f)
      PROVE  (last => LastCall(p)) /\ (~last => EarlyCall(p))
  BY <1>2 DEF Refuse, Respond, Keep, resetContext, LastCall, EarlyCall
<1>3. ASSUME NEW chunk, NEW f, NEW size, NEW lost, Written(p, last, chunk, f, size, lost)
      PROVE  (last => LastCall(p)) /\ (~last => EarlyCall(p))
  <2>1. taken' = taken \o p.body
    BY <1>3 DEF Written
  <2>. DEFINE h == [Context(p) EXCEPT !.body = clearBody(@)]
  <2>2. (last => http' = NewContext) /\ (~last => http' = h)
    <3>1. \E c, g : Keep(last, h, c, g)
      BY <1>3, Zenon DEF Written
    <3>. QED BY <3>1 DEF Keep, resetContext
  <2>3. \/ Respond(last, 200, f)
        \/ ~last /\ UNCHANGED <<responses, unacked>>
    <3>1. CASE chunk.ctx = "kComplete" \/ p.state = "kGotAll"
      BY <1>3, <3>1, Zenon DEF Written
    <3>2. CASE ~(chunk.ctx = "kComplete" \/ p.state = "kGotAll")
      BY <1>3, <3>2 DEF Written, sendVars
    <3>. QED BY <3>1, <3>2
  <2>. HIDE DEF h
  <2>. QED BY <2>1, <2>2, <2>3 DEF Respond, LastCall, EarlyCall, h
<1>. QED BY <1>1, <1>2, <1>3

-----------------------------------------------------------------------------
(* The files.                                                              *)

\* A non-empty set of naturals has a least element.
LEMMA MinNat ==
  ASSUME NEW S, S \subseteq Nat, S # {}
  PROVE  Min(S) \in S
<1>. DEFINE R == OpToRel(<, Nat)
<1>1. IsWellFoundedOn(R, Nat)
  BY NatLessThanWellFounded
<1>2. \A x, y \in Nat : y < x => <<y, x>> \in R
  BY DEF OpToRel
<1>. HIDE DEF R
<1>3. PICK x \in S : \A y \in S : ~(<<y, x>> \in R)
  BY <1>1, WFMin
<1>4. \A y \in S : x <= y
  <2>1. \A y \in S : ~(y < x)
    BY <1>2, <1>3, Zenon
  <2>. QED BY <2>1
<1>. QED BY <1>4 DEF Min

\* std::search stays inside the sequence.
LEMMA FindRange ==
  ASSUME NEW s \in Atoms, NEW pat, Len(pat) \in Nat, Len(pat) > 0
  PROVE  Find(s, pat) \in 0 .. Len(s)
<1>. DEFINE at == {i \in 1 .. Len(s) - Len(pat) + 1 : SubSeq(s, i, i + Len(pat) - 1) = pat}
<1>1. Len(s) \in Nat
  BY LenProperties DEF Atoms
<1>2. at \subseteq Nat /\ at \subseteq 0 .. Len(s)
  BY <1>1
<1>. HIDE DEF at
<1>3. at # {} => Min(at) \in at
  BY <1>2, MinNat
<1>4. Find(s, pat) = IF at = {} THEN 0 ELSE Min(at)
  BY DEF Find, at
<1>5. CASE at = {}
  BY <1>1, <1>4, <1>5
<1>6. CASE at # {}
  BY <1>2, <1>3, <1>4, <1>6
<1>. QED BY <1>5, <1>6

\* A piece of a sequence.
LEMMA Slice ==
  ASSUME NEW s \in Atoms, NEW i \in Int, NEW j \in Int, 1 <= i, j <= Len(s)
  PROVE  SubSeq(s, i, j) \in Atoms
<1>1. Len(s) \in Nat /\ \A k \in 1 .. Len(s) : s[k] \in Int
  BY LenProperties, ElementOfSeq DEF Atoms
<1>2. \A k \in i .. j : s[k] \in Int
  BY <1>1
<1>. QED BY <1>2, SubSeqProperties DEF Atoms

\* What the handler writes is a piece of the body.
LEMMA ChunkData ==
  ASSUME NEW b \in Atoms
  PROVE  firstChunk(b).data \in Atoms /\ nextChunk(b).data \in Atoms
<1>. DEFINE pos == Find(b, <<Blank>>)
            end == Find(b, EndBoundary)
            bnd == Find(b, Boundary)
            e   == <<>>
<1>1. Len(b) \in Nat /\ e \in Atoms
  BY LenProperties, EmptySeq DEF Atoms
<1>2. pos \in 0 .. Len(b) /\ end \in 0 .. Len(b) /\ bnd \in 0 .. Len(b)
  <2>. DEFINE one == <<Blank>>
  <2>1. /\ Len(one) \in Nat /\ Len(one) > 0 /\ Len(EndBoundary) \in Nat /\ Len(EndBoundary) > 0
        /\ Len(Boundary) \in Nat /\ Len(Boundary) > 0
    BY DEF EndBoundary, Boundary
  <2>. HIDE DEF one
  <2>2. Find(b, one) \in 0 .. Len(b)
    BY <2>1, FindRange
  <2>3. end \in 0 .. Len(b) /\ bnd \in 0 .. Len(b)
    BY <2>1, FindRange
  <2>. QED BY <2>2, <2>3 DEF one
<1>3. SubSeq(b, pos + 1, end - 1) \in Atoms /\ Drop(b, pos) \in Atoms
  <2>. HIDE DEF pos, end
  <2>. DEFINE i == pos + 1
              j == end - 1
              k == Len(b)
  <2>1. /\ i \in Int /\ j \in Int /\ 1 <= i /\ j <= Len(b)
        /\ k \in Int /\ k <= Len(b)
    BY <1>1, <1>2
  <2>. HIDE DEF i, j, k
  <2>2. SubSeq(b, i, j) \in Atoms /\ SubSeq(b, i, k) \in Atoms
    BY <2>1, Slice
  <2>. QED BY <2>2 DEF i, j, k, Drop
<1>4. \A i \in 0 .. Len(b) + 1 : SubSeq(b, 1, i - 1) \in Atoms
  <2>. SUFFICES ASSUME NEW i \in 0 .. Len(b) + 1 PROVE SubSeq(b, 1, i - 1) \in Atoms
    OBVIOUS
  <2>. DEFINE j == i - 1
              o == 1
  <2>1. j \in Int /\ o \in Int /\ 1 <= o /\ j <= Len(b)
    BY <1>1
  <2>. HIDE DEF j, o
  <2>2. SubSeq(b, o, j) \in Atoms
    BY <2>1, Slice
  <2>. QED BY <2>2 DEF j, o
<1>5. firstChunk(b).data \in Atoms
  <2>1. firstChunk(b).data \in {e, SubSeq(b, pos + 1, end - 1), Drop(b, pos)}
    <3>. HIDE DEF e
    <3>. QED BY DEF firstChunk, e
  <2>. QED BY <1>1, <1>3, <2>1
<1>6. nextChunk(b).data \in Atoms
  <2>1. /\ SubSeq(b, 1, end - 1) \in Atoms /\ SubSeq(b, 1, bnd - 1) \in Atoms
        /\ SubSeq(b, 1, Len(b) + 1 - 1) \in Atoms
    <3>1. end \in 0 .. Len(b) + 1 /\ bnd \in 0 .. Len(b) + 1 /\ Len(b) + 1 \in 0 .. Len(b) + 1
      BY <1>1, <1>2
    <3>. QED BY <1>4, <3>1
  <2>2. nextChunk(b).data \in {e, SubSeq(b, 1, end - 1), SubSeq(b, 1, bnd - 1),
                               SubSeq(b, 1, Len(b) + 1 - 1)}
    <3>. HIDE DEF e
    <3>. QED BY DEF nextChunk, e
  <2>. QED BY <1>1, <2>1, <2>2
<1>. QED BY <1>5, <1>6

\* The files with f open for writing, of which size bytes are counted.
Opened(files, f, size) ==
  /\ files \in Seq(Atoms) /\ size \in Nat /\ f \in 1 .. Len(files)
  /\ Len(disk) <= Len(files) /\ Len(disk) \in Nat
  /\ \A g \in 1 .. Len(disk) : files[g] = disk[g]
  /\ \A i \in 1 .. Len(rows) : rows[i].file # f
  /\ f \notin bad => size = Len(files[f])

\* The handler creates a file without a row, or goes on with the one it has.
LEMMA OpenedIs ==
  ASSUME FilesTyped, OpenFile
  PROVE  LET fresh == ctx = "none"
         IN  Opened(IF fresh THEN Append(disk, <<>>) ELSE disk,
                    IF fresh THEN Len(disk) + 1 ELSE file, IF fresh THEN 0 ELSE total)
<1>1. disk \in Seq(Atoms) /\ Len(disk) \in Nat /\ bad \subseteq 1 .. Len(disk)
  BY LenProperties DEF FilesTyped
<1>2. \A i \in 1 .. Len(rows) : rows[i].file \in 1 .. Len(disk)
  <2>1. rows \in Seq([file : 1 .. Len(disk), size : Nat])
    BY DEF FilesTyped
  <2>2. \A i \in 1 .. Len(rows) : rows[i] \in [file : 1 .. Len(disk), size : Nat]
    BY <2>1, ElementOfSeq
  <2>. QED BY <2>2
<1>3. CASE ctx = "none"
  <2>. DEFINE e == <<>>
              files == Append(disk, e)
              f == Len(disk) + 1
  <2>1. e \in Atoms /\ Len(e) = 0
    BY EmptySeq DEF Atoms
  <2>. HIDE DEF e
  <2>2. /\ files \in Seq(Atoms) /\ Len(files) = Len(disk) + 1
        /\ \A g \in 1 .. Len(disk) : files[g] = disk[g]
        /\ files[Len(disk) + 1] = e
    BY <1>1, <2>1, AppendProperties
  <2>. HIDE DEF files
  <2>3. f \in 1 .. Len(files) /\ files[f] = e /\ Len(disk) <= Len(files)
    BY <1>1, <2>2
  <2>4. \A i \in 1 .. Len(rows) : rows[i].file # f
    BY <1>1, <1>2
  <2>. HIDE DEF f
  <2>5. Opened(files, f, 0)
    BY <1>1, <2>1, <2>2, <2>3, <2>4 DEF Opened
  <2>. QED BY <1>3, <2>5 DEF files, f, e
<1>4. CASE ctx # "none"
  <2>1. /\ file \in 1 .. Len(disk) /\ total \in Nat
        /\ \A i \in 1 .. Len(rows) : rows[i].file # file
        /\ file \notin bad => total = Len(disk[file])
    BY <1>4 DEF FilesTyped, OpenFile
  <2>2. Opened(disk, file, total)
    BY <1>1, <2>1 DEF Opened
  <2>. QED BY <1>4, <2>2
<1>. QED BY <1>3, <1>4

\* The handler changes no other file, and counts what it writes to this one.
Wrote(f) ==
  /\ disk' \in Seq(Atoms) /\ Len(disk)' \in Nat /\ Len(disk) \in Nat /\ Len(disk) <= Len(disk')
  /\ f \in 1 .. Len(disk') /\ total' \in Nat
  /\ \A g \in 1 .. Len(disk) : g # f => disk'[g] = disk[g]
  /\ bad \subseteq bad' /\ bad' \subseteq 1 .. Len(disk')
  /\ \A i \in 1 .. Len(rows) : rows[i].file # f
  /\ f \notin bad' => total' = Len(disk'[f])

\* The stream may be found or become bad.
LEMMA WroteNothing ==
  ASSUME FilesTyped, NEW files, NEW f, NEW size \in Nat, NEW more \in Nat,
         Opened(files, f, size), disk' = files,
         \/ total' = size /\ bad' = bad
         \/ total' = more /\ bad' = bad \cup {f}
  PROVE  Wrote(f)
<1>1. Len(files) \in Nat /\ bad \subseteq 1 .. Len(disk) /\ Len(disk) \in Nat
  BY LenProperties DEF FilesTyped, Opened
<1>2. 1 .. Len(disk) \subseteq 1 .. Len(files)
  BY <1>1 DEF Opened
<1>3. /\ bad \subseteq bad' /\ bad' \subseteq 1 .. Len(files)
      /\ f \notin bad' => total' = size /\ f \notin bad
      /\ total' \in Nat
  BY <1>1, <1>2 DEF Opened
<1>. QED BY <1>1, <1>3 DEF Opened, Wrote

\* The data is appended.
LEMMA WroteData ==
  ASSUME FilesTyped, NEW files, NEW f, NEW size \in Nat, NEW data \in Atoms,
         Opened(files, f, size), disk' = [files EXCEPT ![f] = @ \o data], f \notin bad,
         bad' = bad, total' = size + Len(data)
  PROVE  Wrote(f)
<1>. DEFINE was == files[f]
            new == was \o data
<1>1. /\ Len(files) \in Nat /\ bad \subseteq 1 .. Len(disk) /\ Len(disk) \in Nat
      /\ files \in Seq(Atoms) /\ f \in 1 .. Len(files) /\ Len(data) \in Nat
  BY LenProperties DEF FilesTyped, Opened, Atoms
<1>2. was \in Atoms /\ Len(was) = size
  BY <1>1, ElementOfSeq DEF Opened
<1>3. new \in Atoms /\ Len(new) = Len(was) + Len(data)
  BY <1>2, ConcatProperties DEF Atoms
<1>4. disk' = [files EXCEPT ![f] = new]
  OBVIOUS
<1>. HIDE DEF was, new
<1>5. /\ disk' \in Seq(Atoms) /\ Len(disk') = Len(files) /\ disk'[f] = new
      /\ \A g \in 1 .. Len(files) : g # f => disk'[g] = files[g]
  <2>. DEFINE z == [files EXCEPT ![f] = new]
  <2>1. /\ z \in Seq(Atoms) /\ Len(z) = Len(files)
        /\ \A g \in 1 .. Len(files) : z[g] = IF g = f THEN new ELSE files[g]
    BY <1>1, <1>3, ExceptSeq
  <2>2. disk' = z
    BY <1>4
  <2>. HIDE DEF z
  <2>. QED BY <1>1, <2>1, <2>2
<1>6. 1 .. Len(disk) \subseteq 1 .. Len(files)
  BY <1>1 DEF Opened
<1>7. total' \in Nat /\ total' = Len(disk'[f])
  BY <1>1, <1>2, <1>3, <1>5
<1>. QED BY <1>1, <1>5, <1>6, <1>7 DEF Opened, Wrote

\* The file gets its row, or goes on with its context, or loses it.
LEMMA FilesAfter ==
  ASSUME FilesTyped, OpenFile, RowsMatchFiles, NEW f, Wrote(f),
         \/ rows' = rows /\ (ctx' = "none" \/ file' = f)
         \/ rows' = Append(rows, [file |-> f, size |-> total']) /\ ctx' = "none"
  PROVE  FilesTyped' /\ OpenFile' /\ RowsMatchFiles'
<1>. DEFINE R == [file : 1 .. Len(disk), size : Nat]
            Q == [file : 1 .. Len(disk'), size : Nat]
            row == [file |-> f, size |-> total']
<1>1. rows \in Seq(R) /\ Len(rows) \in Nat /\ \A i \in 1 .. Len(rows) : rows[i] \in R
  BY LenProperties, ElementOfSeq DEF FilesTyped
<1>2. R \subseteq Q /\ row \in Q /\ row.file = f /\ row.size = total'
  <2>1. 1 .. Len(disk) \subseteq 1 .. Len(disk')
    BY DEF Wrote
  <2>. QED BY <2>1 DEF Wrote
<1>3. rows \in Seq(Q)
  BY <1>1, <1>2, SeqMonotonic
<1>4. \A i \in 1 .. Len(rows) :
        /\ rows[i].file \in 1 .. Len(disk) /\ rows[i].file # f
        /\ rows[i].file \notin bad' => rows[i].size = Len(disk'[rows[i].file])
  <2>1. \A i \in 1 .. Len(rows) : rows[i].file \in 1 .. Len(disk) /\ rows[i].file # f
    BY <1>1 DEF Wrote
  <2>. QED BY <2>1 DEF Wrote, RowsMatchFiles
<1>5. CASE rows' = rows /\ (ctx' = "none" \/ file' = f)
  <2>1. FilesTyped'
    BY <1>3, <1>5 DEF FilesTyped, Wrote
  <2>2. OpenFile'
    BY <1>4, <1>5 DEF OpenFile, Wrote
  <2>3. RowsMatchFiles'
    BY <1>4, <1>5 DEF RowsMatchFiles
  <2>. QED BY <2>1, <2>2, <2>3
<1>6. CASE rows' = Append(rows, row) /\ ctx' = "none"
  <2>. HIDE DEF row, Q
  <2>1. /\ rows' \in Seq(Q) /\ Len(rows') = Len(rows) + 1
        /\ \A i \in 1 .. Len(rows) : rows'[i] = rows[i]
        /\ rows'[Len(rows) + 1] = row
    BY <1>2, <1>3, <1>6, AppendProperties
  <2>2. FilesTyped'
    BY <1>6, <2>1 DEF FilesTyped, Wrote, Q
  <2>3. OpenFile'
    BY <1>6 DEF OpenFile
  <2>4. \A i \in 1 .. Len(rows') : i \in 1 .. Len(rows) \/ i = Len(rows) + 1
    BY <1>1, <2>1
  <2>5. row.file \notin bad' => row.size = Len(disk'[row.file])
    BY <1>2 DEF Wrote
  <2>6. \A i \in 1 .. Len(rows') :
          rows'[i].file \notin bad' => rows'[i].size = Len(disk'[rows'[i].file])
    BY <1>4, <2>1, <2>4, <2>5
  <2>7. \A i, j \in 1 .. Len(rows') : rows'[i].file = rows'[j].file => i = j
    BY <1>2, <1>4, <2>1, <2>4 DEF RowsMatchFiles
  <2>8. RowsMatchFiles'
    BY <2>6, <2>7 DEF RowsMatchFiles
  <2>. QED BY <2>2, <2>3, <2>8
<1>. QED BY <1>5, <1>6

\* Nothing was written.
LEMMA FilesSame ==
  ASSUME FilesTyped, OpenFile, RowsMatchFiles, UNCHANGED <<disk, bad, total, rows>>,
         ctx' = "none" \/ UNCHANGED <<ctx, file>>
  PROVE  FilesTyped' /\ OpenFile' /\ RowsMatchFiles'
<1>1. FilesTyped'
  BY DEF FilesTyped
<1>2. OpenFile'
  BY DEF OpenFile
<1>3. RowsMatchFiles'
  BY DEF RowsMatchFiles
<1>. QED BY <1>1, <1>2, <1>3

\* A refused chunk leaves the table, and one that is written may get a row.
LEMMA RowsAfter ==
  ASSUME NEW p, NEW last \in BOOLEAN, NEW f, NEW c
  PROVE  /\ \A status : Refuse(last, status, p, c, f) =>
              rows' = rows /\ (ctx' = "none" \/ (ctx' = c /\ file' = f))
         /\ \A chunk, size, lost : Written(p, last, chunk, f, size, lost) =>
              /\ total' = size
              /\ \/ rows' = rows /\ (ctx' = "none" \/ file' = f)
                 \/ rows' = Append(rows, [file |-> f, size |-> total']) /\ ctx' = "none"
<1>1. ASSUME NEW status, Refuse(last, status, p, c, f)
      PROVE  rows' = rows /\ (ctx' = "none" \/ (ctx' = c /\ file' = f))
  BY <1>1 DEF Refuse, Keep
<1>2. ASSUME NEW chunk, NEW size, NEW lost, Written(p, last, chunk, f, size, lost)
      PROVE  /\ total' = size
             /\ \/ rows' = rows /\ (ctx' = "none" \/ file' = f)
                \/ rows' = Append(rows, [file |-> f, size |-> total']) /\ ctx' = "none"
  <2>. DEFINE h == [Context(p) EXCEPT !.body = clearBody(@)]
  <2>1. total' = size
    BY <1>2 DEF Written
  <2>2. CASE chunk.ctx = "kComplete" \/ p.state = "kGotAll"
    <3>1. \E ok \in IF "insert" \in Faults THEN BOOLEAN ELSE {TRUE} :
            /\ rows' = IF ok THEN Append(rows, [file |-> f, size |-> size]) ELSE rows
            /\ Keep(last, h, dropContext(chunk.ctx, f).ctx, dropContext(chunk.ctx, f).file)
      BY <1>2, <2>2, Zenon DEF Written
    <3>2. rows' = Append(rows, [file |-> f, size |-> size]) \/ rows' = rows
      BY <3>1, Zenon
    <3>. HIDE DEF h
    <3>3. ctx' = "none"
      BY <3>1 DEF Keep, dropContext
    <3>. QED BY <2>1, <3>2, <3>3
  <2>3. CASE ~(chunk.ctx = "kComplete" \/ p.state = "kGotAll")
    <3>1. Keep(last, h, chunk.ctx, f) /\ UNCHANGED rows
      BY <1>2, <2>3, Zenon DEF Written
    <3>. HIDE DEF h
    <3>. QED BY <2>1, <3>1 DEF Keep
  <2>. QED BY <2>2, <2>3
<1>. QED BY <1>1, <1>2

\* The handler keeps files and rows together on every path, failures included.
LEMMA HandlerFiles ==
  ASSUME FilesTyped, OpenFile, RowsMatchFiles,
         NEW p, p.body \in Atoms, NEW last \in BOOLEAN, handleFileUpload(p, last)
  PROVE  FilesTyped' /\ OpenFile' /\ RowsMatchFiles'
<1>. DEFINE fresh == ctx = "none"
            f     == IF fresh THEN Len(disk) + 1 ELSE file
            chunk == IF fresh THEN firstChunk(p.body) ELSE nextChunk(p.body)
            files == IF fresh THEN Append(disk, <<>>) ELSE disk
            size  == IF fresh THEN 0 ELSE total
            kept  == IF fresh THEN "kExpectHeaders" ELSE ctx
            data  == chunk.data
            more  == size + Len(data)
<1>1. \/ /\ Refuse(last, 401, p, ctx, file) \/ Refuse(last, 500, p, ctx, file)
         /\ UNCHANGED <<disk, bad, total>>
      \/ /\ disk' = files /\ bad' = bad \cup {f} /\ total' = size
         /\ Refuse(last, 500, p, kept, f)
      \/ /\ writeData(f, files, data)
         /\ Written(p, last, chunk, f, more, bad' # bad)
      \/ disk' = files /\ bad' = bad /\ Written(p, last, chunk, f, size, FALSE)
  BY ZenonT(60) DEF handleFileUpload
<1>2. Opened(files, f, size)
  BY OpenedIs
<1>3. data \in Atoms
  <2>1. firstChunk(p.body).data \in Atoms /\ nextChunk(p.body).data \in Atoms
    BY ChunkData
  <2>. QED BY <2>1
<1>. HIDE DEF f, chunk, files, size, kept, data
<1>4. size \in Nat /\ more \in Nat
  BY <1>2, <1>3, LenProperties DEF Opened, Atoms
<1>5. CASE /\ Refuse(last, 401, p, ctx, file) \/ Refuse(last, 500, p, ctx, file)
           /\ UNCHANGED <<disk, bad, total>>
  <2>1. rows' = rows /\ (ctx' = "none" \/ (ctx' = ctx /\ file' = file))
    BY <1>5, RowsAfter, ZenonT(60)
  <2>. QED BY <1>5, <2>1, FilesSame
<1>6. CASE /\ disk' = files /\ bad' = bad \cup {f} /\ total' = size
           /\ Refuse(last, 500, p, kept, f)
  <2>1. rows' = rows /\ (ctx' = "none" \/ file' = f)
    BY <1>6, RowsAfter, ZenonT(60)
  <2>2. Wrote(f)
    BY <1>2, <1>4, <1>6, WroteNothing
  <2>. QED BY <2>1, <2>2, FilesAfter
<1>7. CASE /\ writeData(f, files, data)
           /\ Written(p, last, chunk, f, more, bad' # bad)
  <2>1. /\ total' = more
        /\ \/ rows' = rows /\ (ctx' = "none" \/ file' = f)
           \/ rows' = Append(rows, [file |-> f, size |-> total']) /\ ctx' = "none"
    BY <1>7, RowsAfter, Zenon
  <2>2. Wrote(f)
    <3>1. CASE disk' = [files EXCEPT ![f] = @ \o data] /\ bad' = bad /\ f \notin bad
      BY <1>2, <1>3, <1>4, <2>1, <3>1, WroteData
    <3>2. CASE disk' = files /\ bad' = bad \cup {f}
      <4>. HIDE DEF more
      <4>. QED BY <1>2, <1>4, <2>1, <3>2, WroteNothing
    <3>. QED BY <1>7, <3>1, <3>2, Zenon DEF writeData
  <2>. QED BY <2>1, <2>2, FilesAfter, Zenon
<1>8. CASE disk' = files /\ bad' = bad /\ Written(p, last, chunk, f, size, FALSE)
  <2>1. /\ total' = size
        /\ \/ rows' = rows /\ (ctx' = "none" \/ file' = f)
           \/ rows' = Append(rows, [file |-> f, size |-> total']) /\ ctx' = "none"
    BY <1>8, RowsAfter, Zenon
  <2>2. Wrote(f)
    BY <1>2, <1>4, <1>8, <2>1, WroteNothing
  <2>. QED BY <2>1, <2>2, FilesAfter, Zenon
<1>. QED BY <1>1, <1>5, <1>6, <1>7, <1>8, Zenon

-----------------------------------------------------------------------------
(* The steps.                                                              *)

\* The client's read event that a step handles.
LEMMA ReadIs ==
  ASSUME IndInv, NEW n \in 1 .. Len(rest), NEW p, p = Parsed(n), Reads(n, p)
  PROVE  LET b == buf \o SubSeq(rest, 1, n)
         IN  /\ b \in Atoms /\ rest' \in Atoms /\ b \o rest' = buf \o rest
             /\ rest' = Drop(rest, n) /\ buf' = p.buf /\ form' = form /\ form \in Forms
             /\ \/ Waiting /\ LinePart(p, b)
                \/ Waiting /\ LineRefused(p, b) /\ ~p.fails
                \/ Refused /\ LineRefused(p, b)
                \/ Waiting /\ HeaderPart(p)
                \/ responses = <<>> /\ conn = "up" /\ ~unacked /\ InBodyOf(p, rest', Body(form))
             /\ taken \in Atoms
             /\ Waiting => conn = "up" /\ responses = <<>> /\ ~unacked
<1>. DEFINE b == buf \o SubSeq(rest, 1, n)
<1>1. /\ ~spinning /\ ~failed /\ conn # "down"
      /\ rest' = Drop(rest, n) /\ buf' = p.buf /\ form' = form
  BY DEF Reads
<1>2. Typed /\ Progress /\ form \in Forms /\ taken \in Atoms /\ conn \in {"up", "closing", "down"}
  BY DEF IndInv, Typed
<1>3. b \in Atoms /\ Drop(rest, n) \in Atoms /\ b \o Drop(rest, n) = buf \o rest
  BY <1>2, Took
<1>4. \/ Waiting /\ LinePart(p, b)
      \/ Waiting /\ LineRefused(p, b) /\ ~p.fails
      \/ Refused /\ LineRefused(p, b)
      \/ Waiting /\ HeaderPart(p)
      \/ /\ responses = <<>> /\ conn # "closing" /\ ~unacked
         /\ InBodyOf(p, Drop(rest, n), Body(form))
  BY <1>1, <1>2, Parse, Zenon
<1>5. Waiting => conn = "up" /\ responses = <<>> /\ ~unacked
  BY <1>1, <1>2 DEF Waiting, Progress
<1>6. conn # "closing" => conn = "up"
  BY <1>1, <1>2
<1>. HIDE DEF b
<1>. QED BY <1>1, <1>2, <1>3, <1>4, <1>5, <1>6, Zenon DEF b

\* The files are left alone.
LEMMA FilesKept ==
  ASSUME IndInv, UNCHANGED <<disk, bad, total, rows>>, ctx' = "none" \/ UNCHANGED <<ctx, file>>
  PROVE  FilesTyped' /\ OpenFile' /\ RowsMatchFiles'
BY FilesSame DEF IndInv

\* None or one.
LEMMA FewResponses == responses = <<>> \/ Len(responses) = 1 => Len(responses) <= 1
<1>1. responses = <<>> => Len(responses) <= 1
  OBVIOUS
<1>2. Len(responses) = 1 => Len(responses) <= 1
  OBVIOUS
<1>. QED BY <1>1, <1>2

\* The parser spins, or fails.
LEMMA StuckStep ==
  ASSUME IndInv, NEW n \in 1 .. Len(rest), Stuck(n)
  PROVE  IndInv'
<1>. DEFINE p == Parsed(n)
            b == buf \o SubSeq(rest, 1, n)
<1>1. /\ p.spins \/ p.fails
      /\ Reads(n, p) /\ spinning' = p.spins /\ failed' = p.fails /\ http' = Context(p)
      /\ UNCHANGED <<conn, fileVars, sendVars, ghostVars>>
  BY Zenon DEF Stuck
<1>2. /\ rest' \in Atoms /\ buf' = p.buf /\ form' = form /\ form \in Forms /\ taken \in Atoms
      /\ \/ Waiting /\ LinePart(p, b)
         \/ Waiting /\ LineRefused(p, b) /\ ~p.fails
         \/ Refused /\ LineRefused(p, b)
         \/ Waiting /\ HeaderPart(p)
         \/ responses = <<>> /\ conn = "up" /\ ~unacked /\ InBodyOf(p, rest', Body(form))
  BY <1>1, ReadIs
<1>. HIDE DEF p, b
<1>3. /\ p \in Parses /\ (p.state = "kExpectHeaders" \/ p.state = "kExpectRequestLine")
      /\ Waiting \/ Refused
  BY <1>1, <1>2, Zenon DEF LinePart, LineRefused, HeaderPart, InBodyOf
<1>4. http' \in Contexts /\ http'.state = p.state /\ p.buf \in Atoms
  BY <1>1, <1>3, ContextFields DEF Parses
<1>5. Typed'
  BY <1>1, <1>2, <1>4 DEF Typed, ghostVars, IndInv
<1>6. Stopped'
  <2>1. responses' = responses
    BY <1>1 DEF sendVars
  <2>3. Len(responses) <= 1
    BY <1>3, FewResponses, Zenon DEF Waiting, Refused
  <2>2. spinning' \/ failed'
    BY <1>1, Zenon
  <2>. QED BY <1>3, <1>4, <2>1, <2>2, <2>3 DEF Stopped
<1>7. Progress'
  BY <1>1, <1>6 DEF Progress, IndInv, sendVars
<1>8. FilesTyped' /\ OpenFile' /\ RowsMatchFiles'
  BY <1>1, FilesKept DEF fileVars
<1>. QED BY <1>5, <1>7, <1>8 DEF IndInv

\* The request line is not complete.
LEMMA NeedMoreStep ==
  ASSUME IndInv, NEW n \in 1 .. Len(rest), NeedMore(n)
  PROVE  IndInv'
<1>. DEFINE p == Parsed(n)
            b == buf \o SubSeq(rest, 1, n)
<1>1. /\ ~p.spins /\ ~p.fails /\ p.result = "kNeedMore"
      /\ Reads(n, p) /\ http' = Context(p)
      /\ UNCHANGED <<conn, fileVars, sendVars, ghostVars>>
  BY Zenon DEF NeedMore, Returns
<1>2. /\ b \in Atoms /\ b \o rest' = buf \o rest
      /\ rest' \in Atoms /\ buf' = p.buf /\ form' = form /\ form \in Forms /\ taken \in Atoms
      /\ \/ Waiting /\ LinePart(p, b)
         \/ Waiting /\ LineRefused(p, b) /\ ~p.fails
         \/ Refused /\ LineRefused(p, b)
         \/ Waiting /\ HeaderPart(p)
         \/ responses = <<>> /\ conn = "up" /\ ~unacked /\ InBodyOf(p, rest', Body(form))
  BY <1>1, ReadIs
<1>. HIDE DEF p, b
<1>3. Waiting /\ LinePart(p, b)
  BY <1>1, <1>2 DEF LinePart, LineRefused, HeaderPart, InBodyOf
<1>4. http' \in Contexts /\ http' = NewContext /\ buf' = b /\ Len(b) <= 1
  BY <1>1, <1>2, <1>3, ContextFields DEF LinePart
<1>5. Typed'
  BY <1>1, <1>2, <1>4 DEF Typed, ghostVars, IndInv
<1>6. Waiting'
  BY <1>1, <1>2, <1>3, <1>4 DEF Waiting, sendVars, ghostVars
<1>7. Progress'
  BY <1>1, <1>6 DEF Progress, IndInv, sendVars
<1>8. FilesTyped' /\ OpenFile' /\ RowsMatchFiles'
  BY <1>1, FilesKept DEF fileVars
<1>. QED BY <1>5, <1>7, <1>8 DEF IndInv

\* The request line is refused.
LEMMA BadRequestStep ==
  ASSUME IndInv, NEW n \in 1 .. Len(rest), BadRequest(n)
  PROVE  IndInv'
<1>. DEFINE p == Parsed(n)
            b == buf \o SubSeq(rest, 1, n)
            r == [status |-> 400, file |-> 0]
<1>1. /\ ~p.spins /\ ~p.fails /\ p.result = "kError"
      /\ Reads(n, p) /\ http' = Context(p) /\ conn' = "closing"
      /\ conn = "up" => responses' = Append(responses, r)
      /\ conn # "up" => responses' = responses
      /\ UNCHANGED <<fileVars, callback, ghostVars>>
  <2>. HIDE DEF p
  <2>. QED BY DEF BadRequest, Returns, p
<1>2. /\ b \in Atoms
      /\ rest' \in Atoms /\ buf' = p.buf /\ form' = form /\ form \in Forms /\ taken \in Atoms
      /\ \/ Waiting /\ LinePart(p, b)
         \/ Waiting /\ LineRefused(p, b) /\ ~p.fails
         \/ Refused /\ LineRefused(p, b)
         \/ Waiting /\ HeaderPart(p)
         \/ responses = <<>> /\ conn = "up" /\ ~unacked /\ InBodyOf(p, rest', Body(form))
      /\ Waiting => conn = "up" /\ responses = <<>>
  BY <1>1, ReadIs
<1>. HIDE DEF p, b, r
<1>3. (Waiting \/ Refused) /\ LineRefused(p, b)
  BY <1>1, <1>2 DEF LinePart, LineRefused, HeaderPart, InBodyOf
<1>4. http' \in Contexts /\ http'.state = "kExpectRequestLine" /\ buf' = b
  BY <1>1, <1>2, <1>3, ContextFields DEF LineRefused
<1>5. Typed'
  BY <1>1, <1>2, <1>4 DEF Typed, ghostVars, IndInv
<1>6. Len(responses') = 1
  <2>1. CASE Waiting
    BY <1>1, <1>2, <2>1
  <2>2. CASE Refused
    BY <1>1, <2>2 DEF Refused
  <2>. QED BY <1>3, <2>1, <2>2
<1>7. Refused'
  BY <1>1, <1>3, <1>4, <1>6 DEF Refused, LineRefused
<1>8. Progress'
  <2>1. responses' # <<>>
    BY <1>6
  <2>. QED BY <1>7, <2>1 DEF Progress
<1>9. FilesTyped' /\ OpenFile' /\ RowsMatchFiles'
  BY <1>1, FilesKept DEF fileVars
<1>. QED BY <1>5, <1>8, <1>9 DEF IndInv

\* A read of part of the body, with or without a call of the handler.
LEMMA HeadersCompleteStep ==
  ASSUME IndInv, NEW n \in 1 .. Len(rest), HeadersComplete(n)
  PROVE  IndInv'
<1>. DEFINE p == Parsed(n)
            b == buf \o SubSeq(rest, 1, n)
            body == Body(form)
<1>1. /\ ~p.spins /\ ~p.fails /\ p.result = "kHeadersComplete"
      /\ Reads(n, p) /\ conn' = conn
      /\ \/ handleFileUpload(p, FALSE)
         \/ http' = Context(p) /\ UNCHANGED <<fileVars, sendVars, ghostVars>>
  <2>. HIDE DEF p
  <2>. QED BY DEF HeadersComplete, Returns, p
<1>2. /\ rest' \in Atoms /\ buf' = p.buf /\ form' = form /\ form \in Forms /\ taken \in Atoms
      /\ \/ Waiting /\ LinePart(p, b)
         \/ Waiting /\ LineRefused(p, b) /\ ~p.fails
         \/ Refused /\ LineRefused(p, b)
         \/ Waiting /\ HeaderPart(p)
         \/ responses = <<>> /\ conn = "up" /\ ~unacked /\ InBodyOf(p, rest', body)
  BY <1>1, ReadIs
<1>. HIDE DEF p, b
<1>3. responses = <<>> /\ conn = "up" /\ ~unacked /\ InBodyOf(p, rest', body)
  BY <1>1, <1>2 DEF LinePart, LineRefused, HeaderPart, InBodyOf
<1>4. /\ p \in Parses /\ p.buf = <<>> /\ p.contentLength = Len(body)
      /\ taken \o p.body \o rest' = body /\ p.bodyReceived = Len(taken) + Len(p.body)
      /\ rest' # <<>> /\ p.state = "kExpectBody"
  BY <1>1, <1>3 DEF InBodyOf
<1>5. <<>> \in Atoms /\ Len(<<>>) = 0 /\ p.body \in Atoms /\ p.body \in Seq(Int)
  BY <1>4, EmptySeq DEF Atoms, Parses
<1>. DEFINE h == Context(p)
            c == [h EXCEPT !.body = clearBody(@)]
<1>6. /\ h \in Contexts /\ h.state = "kExpectBody" /\ h.body = p.body
      /\ h.contentLength = Len(body) /\ h.bodyReceived = p.bodyReceived
  BY <1>4, ContextFields
<1>. HIDE DEF h
<1>7. /\ c \in Contexts /\ c.state = "kExpectBody" /\ c.body = <<>>
      /\ c.contentLength = Len(body) /\ c.bodyReceived = p.bodyReceived
  BY <1>6, ClearedFields
<1>. HIDE DEF c
<1>8. /\ responses' = responses /\ unacked' = unacked
      /\ \/ http' = h /\ taken' = taken
         \/ http' = c /\ taken' = taken \o p.body
  <2>1. CASE handleFileUpload(p, FALSE)
    <3>1. EarlyCall(p)
      BY <2>1, HandlerEffect
    <3>. QED BY <3>1 DEF EarlyCall, h, c
  <2>2. CASE http' = Context(p) /\ UNCHANGED <<fileVars, sendVars, ghostVars>>
    BY <2>2 DEF sendVars, ghostVars, h
  <2>. QED BY <1>1, <2>1, <2>2
<1>9. Typed' /\ InBody'
  <2>. HIDE DEF body
  <2>1. buf' \in Atoms /\ buf' = <<>> /\ body = Body(form')
    BY <1>2, <1>4, <1>5 DEF body
  <2>2. CASE http' = h /\ taken' = taken
    <3>1. Typed'
      BY <1>1, <1>2, <1>3, <1>6, <2>1, <2>2 DEF Typed
    <3>2. /\ http'.state = "kExpectBody" /\ http'.contentLength = Len(Body(form'))
          /\ taken' \o http'.body \o rest' = Body(form')
          /\ http'.bodyReceived = Len(taken') + Len(http'.body)
      BY <1>4, <1>6, <2>1, <2>2
    <3>3. InBody'
      BY <1>3, <1>4, <1>8, <2>1, <3>2 DEF InBody
    <3>. QED BY <3>1, <3>3
  <2>3. CASE http' = c /\ taken' = taken \o p.body
    <3>1. taken' \in Atoms /\ Len(taken') = Len(taken) + Len(p.body)
      BY <1>2, <1>5, <2>3, ConcatProperties DEF Atoms
    <3>2. Typed'
      BY <1>1, <1>2, <1>3, <1>7, <2>1, <2>3, <3>1 DEF Typed
    <3>3. taken' \o <<>> = taken'
      BY <3>1, ConcatEmptySeq DEF Atoms
    <3>4. /\ http'.state = "kExpectBody" /\ http'.contentLength = Len(Body(form'))
          /\ taken' \o http'.body \o rest' = Body(form')
      BY <1>4, <1>7, <2>1, <2>3, <3>3
    <3>5. http'.bodyReceived = Len(taken') + Len(http'.body)
      <4>1. Len(taken') + 0 = Len(taken')
        BY <3>1, LenProperties DEF Atoms
      <4>. QED BY <1>4, <1>5, <1>7, <2>3, <3>1, <4>1
    <3>6. InBody'
      BY <1>3, <1>4, <1>8, <2>1, <3>4, <3>5 DEF InBody
    <3>. QED BY <3>2, <3>6
  <2>. QED BY <1>8, <2>2, <2>3
<1>10. Progress'
  BY <1>1, <1>3, <1>8, <1>9 DEF Progress
<1>11. FilesTyped' /\ OpenFile' /\ RowsMatchFiles'
  <2>1. CASE handleFileUpload(p, FALSE)
    BY <1>5, <2>1, HandlerFiles DEF IndInv
  <2>2. CASE http' = Context(p) /\ UNCHANGED <<fileVars, sendVars, ghostVars>>
    BY <2>2, FilesKept DEF fileVars
  <2>. QED BY <1>1, <2>1, <2>2
<1>. QED BY <1>9, <1>10, <1>11 DEF IndInv

\* The read that completes the request.
LEMMA GotRequestStep ==
  ASSUME IndInv, NEW n \in 1 .. Len(rest), GotRequest(n)
  PROVE  IndInv'
<1>. DEFINE p == Parsed(n)
            b == buf \o SubSeq(rest, 1, n)
            body == Body(form)
<1>1. /\ ~p.spins /\ ~p.fails /\ p.result = "kGotRequest"
      /\ Reads(n, p) /\ (conn' = conn \/ conn' = "closing")
      /\ handleFileUpload(p, TRUE)
  <2>. HIDE DEF p
  <2>. QED BY DEF GotRequest, Returns, p
<1>2. /\ rest' \in Atoms /\ buf' = p.buf /\ form' = form /\ form \in Forms /\ taken \in Atoms
      /\ \/ Waiting /\ LinePart(p, b)
         \/ Waiting /\ LineRefused(p, b) /\ ~p.fails
         \/ Refused /\ LineRefused(p, b)
         \/ Waiting /\ HeaderPart(p)
         \/ responses = <<>> /\ conn = "up" /\ ~unacked /\ InBodyOf(p, rest', body)
  BY <1>1, ReadIs
<1>. HIDE DEF p, b
<1>3. responses = <<>> /\ conn = "up" /\ ~unacked /\ InBodyOf(p, rest', body)
  BY <1>1, <1>2 DEF LinePart, LineRefused, HeaderPart, InBodyOf
<1>4. p \in Parses /\ p.buf = <<>> /\ rest' = <<>> /\ p.state = "kGotAll"
  BY <1>1, <1>3 DEF InBodyOf
<1>5. <<>> \in Atoms /\ p.body \in Atoms
  BY <1>4, EmptySeq DEF Atoms, Parses
<1>6. LastCall(p)
  BY <1>1, <1>4, HandlerEffect
<1>7. /\ http' = NewContext /\ NewContext \in Contexts
      /\ taken' = taken \/ taken' = taken \o p.body
  <2>. DEFINE e == <<>>
  <2>1. e \in Atoms
    BY <1>5
  <2>2. NewContext = [state |-> "kExpectRequestLine", method |-> "kInvalid",
                      contentLength |-> 0, bodyReceived |-> 0, body |-> e]
    BY DEF NewContext
  <2>. HIDE DEF e
  <2>3. NewContext \in Contexts
    BY <2>1, <2>2 DEF Contexts
  <2>. QED BY <1>6, <2>3 DEF LastCall
<1>8. taken' \in Atoms
  <2>1. taken \o p.body \in Atoms
    BY <1>2, <1>5, ConcatProperties DEF Atoms
  <2>. QED BY <1>2, <1>7, <2>1
<1>9. Len(responses') = 1
  <2>1. PICK r : responses' = Append(responses, r)
    BY <1>3, <1>6 DEF LastCall
  <2>. QED BY <1>3, <2>1
<1>10. Typed'
  BY <1>1, <1>2, <1>3, <1>4, <1>5, <1>7, <1>8 DEF Typed
<1>11. Progress'
  <2>1. responses' # <<>>
    BY <1>9
  <2>. QED BY <1>4, <1>7, <1>9, <2>1 DEF Progress, Answered
<1>12. FilesTyped' /\ OpenFile' /\ RowsMatchFiles'
  BY <1>1, <1>5, HandlerFiles DEF IndInv
<1>. QED BY <1>10, <1>11, <1>12 DEF IndInv

\* The response is out, the client closes, or the session ends.
LEMMA OtherStep ==
  ASSUME IndInv, WriteComplete \/ ClientCloses \/ SessionEnds \/ UNCHANGED vars
  PROVE  IndInv'
<1>1. /\ UNCHANGED <<form, rest, buf, http, disk, bad, total, rows, responses, spinning, failed,
                     taken>>
      /\ ctx' = "none" \/ UNCHANGED <<ctx, file>>
  BY DEF WriteComplete, ClientCloses, SessionEnds, vars, connVars, fileVars, sendVars, ghostVars
<1>2. /\ conn' \in {"closing", "down", conn}
      /\ unacked' => unacked
      /\ conn' = "closing" => conn = "closing" \/ unacked
  BY DEF WriteComplete, ClientCloses, SessionEnds, vars, connVars, sendVars
<1>3. Typed'
  BY <1>1, <1>2 DEF Typed, IndInv
<1>4. Progress'
  <2>1. (Waiting \/ InBody \/ Refused \/ Answered \/ Stopped)'
    BY <1>1, <1>2 DEF IndInv, Progress, Waiting, InBody, Refused, Answered, Stopped
  <2>2. (responses = <<>> => ~unacked /\ conn # "closing")'
    BY <1>1, <1>2 DEF IndInv, Progress
  <2>. QED BY <2>1, <2>2 DEF Progress
<1>5. FilesTyped' /\ OpenFile' /\ RowsMatchFiles'
  BY <1>1, FilesKept
<1>. QED BY <1>3, <1>4, <1>5 DEF IndInv

-----------------------------------------------------------------------------
(* The theorems.                                                           *)

\* A new connection, before the first byte is read.
LEMMA InitIndInv == Init => IndInv
<1>. SUFFICES ASSUME Init PROVE IndInv
  OBVIOUS
<1>. DEFINE e == <<>>
<1>1. e \in Atoms /\ Len(e) = 0 /\ e \in Seq(Atoms) /\ e \in Seq([file : 1 .. Len(e), size : Nat])
  BY EmptySeq DEF Atoms
<1>2. PICK line \in Lines : rest = Request(line, form)
  BY DEF Init
<1>3. rest \in Atoms /\ e \o rest = rest
  BY <1>2, RequestIs, ConcatEmptySeq DEF Atoms
<1>4. NewContext \in Contexts
  <2>1. NewContext = [state |-> "kExpectRequestLine", method |-> "kInvalid",
                      contentLength |-> 0, bodyReceived |-> 0, body |-> e]
    BY DEF NewContext
  <2>. HIDE DEF e
  <2>. QED BY <1>1, <2>1 DEF Contexts
<1>. HIDE DEF e
<1>5. /\ buf = e /\ taken = e /\ responses = e /\ disk = e /\ rows = e
      /\ http = NewContext /\ conn = "up" /\ ~unacked /\ form \in Forms
      /\ ctx = "none" /\ bad = {} /\ total = 0
  BY DEF Init, e
<1>6. Typed
  BY <1>1, <1>3, <1>4, <1>5 DEF Typed
<1>7. Progress
  <2>1. Len(buf) <= 1 /\ buf \o rest = Request(line, form)
    BY <1>1, <1>2, <1>3, <1>5
  <2>2. Waiting
    BY <1>5, <2>1 DEF Waiting, e
  <2>. QED BY <1>5, <2>2 DEF Progress
<1>8. FilesTyped /\ OpenFile /\ RowsMatchFiles
  <2>1. \A i \in 1 .. Len(rows) : FALSE
    BY <1>1, <1>5
  <2>. QED BY <1>1, <1>5, <2>1 DEF FilesTyped, OpenFile, RowsMatchFiles
<1>. QED BY <1>6, <1>7, <1>8 DEF IndInv

\* Every step of onMessage, of the loop, of the client and of the session keeps the invariant.
THEOREM Invariance == Spec => []IndInv
<1>1. IndInv /\ [Next]_vars => IndInv'
  <2>. SUFFICES ASSUME IndInv, [Next]_vars PROVE IndInv'
    OBVIOUS
  <2>1. CASE \E n \in 1 .. Len(rest) : onMessage(n)
    <3>1. PICK n \in 1 .. Len(rest) : onMessage(n)
      BY <2>1
    <3>. QED
      BY <3>1, StuckStep, NeedMoreStep, BadRequestStep, HeadersCompleteStep, GotRequestStep
         DEF onMessage
  <2>2. CASE WriteComplete \/ ClientCloses \/ SessionEnds \/ UNCHANGED vars
    BY <2>2, OtherStep
  <2>. QED BY <2>1, <2>2 DEF Next
<1>. QED BY <1>1, InitIndInv, PTL DEF Spec

\* However TCP cuts the request, processBody and the handler's setBody("") lose
\* no byte of the body and hand none over twice.
THEOREM NoBodyByteLost == Spec => []BodyIntact
<1>1. IndInv => BodyIntact
  <2>. SUFFICES ASSUME IndInv, http.state = "kExpectBody"
       PROVE  /\ taken \o http.body \o buf \o rest = Body(form)
              /\ http.bodyReceived = Len(taken) + Len(http.body)
    BY DEF BodyIntact
  <2>1. InBody
    BY DEF IndInv, Progress, Waiting, Refused, Answered, Stopped, NewContext
  <2>2. taken \in Seq(Int) /\ http.body \in Seq(Int) /\ buf = <<>>
    BY <2>1 DEF IndInv, Typed, Contexts, Atoms, InBody
  <2>. DEFINE tb == taken \o http.body
  <2>3. tb \in Seq(Int)
    BY <2>2, ConcatProperties
  <2>. HIDE DEF tb
  <2>4. tb \o <<>> = tb
    BY <2>3, ConcatEmptySeq
  <2>. QED BY <2>1, <2>2, <2>4 DEF InBody, tb
<1>. QED BY <1>1, Invariance, PTL

\* onMessage answers a request once, and has answered it when its last byte was read.
THEOREM AnsweredOnce == Spec => []EveryRequestAnswered
<1>1. IndInv => EveryRequestAnswered
  <2>. SUFFICES ASSUME IndInv PROVE EveryRequestAnswered
    OBVIOUS
  <2>1. Len(responses) <= 1
    BY FewResponses, Zenon DEF IndInv, Progress, Waiting, InBody, Refused, Answered, Stopped
  <2>2. ASSUME rest = <<>>, conn = "up", ~spinning, ~failed PROVE Len(responses) = 1
    <3>1. ~Waiting
      <4>. SUFFICES ASSUME Waiting PROVE FALSE
        OBVIOUS
      <4>1. PICK line \in Lines : buf \o rest = Request(line, form)
        BY DEF Waiting
      <4>2. buf \o rest = buf
        BY <2>2, ConcatEmptySeq DEF IndInv, Typed, Atoms
      <4>3. Len(Request(line, form)) = 5 + Len(Body(form)) /\ Len(Body(form)) \in Nat
        BY RequestIs, BodyIs
      <4>4. Len(buf) <= 1 /\ Len(buf) = 5 + Len(Body(form))
        BY <4>1, <4>2, <4>3 DEF Waiting
      <4>. QED BY <4>3, <4>4
    <3>. QED BY <2>2, <3>1 DEF IndInv, Progress, InBody, Refused, Answered, Stopped
  <2>. QED BY <2>1, <2>2 DEF EveryRequestAnswered
<1>. QED BY <1>1, Invariance, PTL

\* Whatever operations of the file system and the database fail, and whenever
\* the session or the connection ends, every row has the size of its file
\* unless that file's stream has failed, and a file has at most one row.
THEOREM RowsAlwaysMatch == Spec => []RowsMatchFiles
<1>1. IndInv => RowsMatchFiles
  BY DEF IndInv
<1>. QED BY <1>1, Invariance, PTL

-----------------------------------------------------------------------------
(* What the searches for the boundaries find in pieces of the body.        *)

\* A sequence at position i of another.
LEMMA PatternAt ==
  ASSUME NEW s \in Atoms, NEW pat \in Atoms, NEW i \in 1 .. Len(s) - Len(pat) + 1, Len(pat) > 0
  PROVE  SubSeq(s, i, i + Len(pat) - 1) = pat <=> \A j \in 1 .. Len(pat) : s[i + j - 1] = pat[j]
<1>. DEFINE m == Len(pat)
            k == i + m - 1
            t == SubSeq(s, i, k)
<1>1. /\ m \in Nat /\ Len(s) \in Nat /\ k \in Int /\ i \in Int /\ k - i + 1 = m
      /\ 1 <= i /\ i <= k /\ k <= Len(s)
  BY LenProperties DEF Atoms
<1>. HIDE DEF k, m
<1>2. \A j \in i .. k : s[j] \in Int
  BY <1>1, ElementOfSeq DEF Atoms
<1>3. /\ t \in Seq(Int) /\ Len(t) = IF i <= k THEN k - i + 1 ELSE 0
      /\ \A j \in 1 .. k - i + 1 : t[j] = s[i + j - 1]
  BY <1>1, <1>2, SubSeqProperties
<1>. HIDE DEF t
<1>4. Len(t) = m /\ \A j \in 1 .. m : t[j] = s[i + j - 1]
  BY <1>1, <1>3
<1>5. t = pat <=> \A j \in 1 .. m : s[i + j - 1] = pat[j]
  <2>1. ASSUME \A j \in 1 .. m : s[i + j - 1] = pat[j] PROVE t = pat
    <3>1. pat \in Seq(Int) /\ Len(pat) = Len(t) /\ \A j \in 1 .. Len(t) : t[j] = pat[j]
      BY <1>4, <2>1 DEF Atoms, m
    <3>. QED BY <1>3, <3>1, SeqEqual
  <2>. QED BY <1>4, <2>1
<1>. QED BY <1>5 DEF t, k, m

\* The body of a form with the file alone, byte by byte.
FileBody(body) ==
  /\ body \in Atoms /\ Len(body) = FileSize + 9
  /\ body[1] = BndA /\ body[2] = BndB /\ body[3] = Part /\ body[4] = Blank
  /\ \A i \in 5 .. FileSize + 4 : body[i] = i - 4
  /\ body[FileSize + 5] = CRLF
  /\ body[FileSize + 6] = BndA /\ body[FileSize + 7] = BndB /\ body[FileSize + 8] = Dashes
  /\ body[FileSize + 9] = CRLF

\* And that is what it is.
LEMMA FileBodyIs == FileBody(Body("file"))
<1>. DEFINE s == Boundary
            one == <<CRLF>>
            ph == <<Part, Blank>>
            e == <<>>
            s1 == s \o ph
            s2 == s1 \o Content
            s3 == s2 \o one
            s4 == s3 \o e
            s5 == s4 \o EndBoundary
            s6 == s5 \o one
<1>1. FileSize \in Nat
  BY UploadAssumption
<1>2. Content \in Seq(Int) /\ Len(Content) = FileSize /\ \A i \in 1 .. FileSize : Content[i] = i
  <2>1. Content \in [1 .. FileSize -> Int] /\ DOMAIN Content = 1 .. FileSize
    BY DEF Content
  <2>2. Content \in Seq(Int)
    BY <1>1, <2>1, SeqDef
  <2>. QED BY <1>1, <2>1, <2>2, LenProperties DEF Content
<1>3. /\ s \in Seq(Int) /\ Len(s) = 2 /\ s[1] = BndA /\ s[2] = BndB
      /\ one \in Seq(Int) /\ Len(one) = 1 /\ one[1] = CRLF
      /\ ph \in Seq(Int) /\ Len(ph) = 2 /\ ph[1] = Part /\ ph[2] = Blank
      /\ e \in Seq(Int) /\ Len(e) = 0
      /\ EndBoundary \in Seq(Int) /\ Len(EndBoundary) = 3 /\ EndBoundary[1] = BndA
      /\ EndBoundary[2] = BndB /\ EndBoundary[3] = Dashes
  BY DEF Boundary, EndBoundary, Part, Blank, CRLF, BndA, BndB, Dashes
<1>. HIDE DEF s, one, ph, e
<1>4. /\ s1 \in Seq(Int) /\ Len(s1) = 4
      /\ s1[1] = BndA /\ s1[2] = BndB /\ s1[3] = Part /\ s1[4] = Blank
  <2>1. /\ s1 \in Seq(Int) /\ Len(s1) = Len(s) + Len(ph)
        /\ \A i \in 1 .. Len(s) + Len(ph) : s1[i] = IF i <= Len(s) THEN s[i] ELSE ph[i - Len(s)]
    BY <1>3, ConcatProperties, ZenonT(60)
  <2>. HIDE DEF s1
  <2>. QED BY <1>3, <2>1
<1>. HIDE DEF s1
<1>5. /\ s2 \in Seq(Int) /\ Len(s2) = FileSize + 4
      /\ s2[1] = BndA /\ s2[2] = BndB /\ s2[3] = Part /\ s2[4] = Blank
      /\ \A i \in 5 .. FileSize + 4 : s2[i] = i - 4
  <2>1. /\ s2 \in Seq(Int) /\ Len(s2) = Len(s1) + Len(Content)
        /\ \A i \in 1 .. Len(s1) + Len(Content) :
             s2[i] = IF i <= Len(s1) THEN s1[i] ELSE Content[i - Len(s1)]
    BY <1>2, <1>4, ConcatProperties
  <2>. HIDE DEF s2
  <2>2. \A i \in 5 .. FileSize + 4 : s2[i] = Content[i - 4] /\ i - 4 \in 1 .. FileSize
    BY <1>1, <1>2, <1>4, <2>1
  <2>. QED BY <1>1, <1>2, <1>4, <2>1, <2>2
<1>. HIDE DEF s2
<1>6. /\ s3 \in Seq(Int) /\ Len(s3) = FileSize + 5
      /\ \A i \in 1 .. FileSize + 4 : s3[i] = s2[i]
      /\ s3[FileSize + 5] = CRLF
  <2>1. /\ s3 \in Seq(Int) /\ Len(s3) = Len(s2) + Len(one)
        /\ \A i \in 1 .. Len(s2) + Len(one) :
             s3[i] = IF i <= Len(s2) THEN s2[i] ELSE one[i - Len(s2)]
    BY <1>3, <1>5, ConcatProperties, ZenonT(60)
  <2>. HIDE DEF s3
  <2>. QED BY <1>1, <1>3, <1>5, <2>1
<1>. HIDE DEF s3
<1>7. s4 \in Seq(Int) /\ Len(s4) = FileSize + 5 /\ \A i \in 1 .. FileSize + 5 : s4[i] = s3[i]
  <2>1. s4 = s3
    BY <1>6, ConcatEmptySeq DEF e
  <2>. QED BY <1>6, <2>1
<1>. HIDE DEF s4
<1>8. /\ s5 \in Seq(Int) /\ Len(s5) = FileSize + 8
      /\ \A i \in 1 .. FileSize + 5 : s5[i] = s3[i]
      /\ s5[FileSize + 6] = BndA /\ s5[FileSize + 7] = BndB /\ s5[FileSize + 8] = Dashes
  <2>1. /\ s5 \in Seq(Int) /\ Len(s5) = Len(s4) + Len(EndBoundary)
        /\ \A i \in 1 .. Len(s4) + Len(EndBoundary) :
             s5[i] = IF i <= Len(s4) THEN s4[i] ELSE EndBoundary[i - Len(s4)]
    <3>1. s4 \in Seq(Int) /\ EndBoundary \in Seq(Int)
      BY <1>3, <1>7
    <3>. QED BY <3>1, ConcatProperties
  <2>. HIDE DEF s5
  <2>. QED BY <1>1, <1>3, <1>6, <1>7, <2>1
<1>. HIDE DEF s5
<1>9. /\ s6 \in Seq(Int) /\ Len(s6) = FileSize + 9
      /\ \A i \in 1 .. FileSize + 8 : s6[i] = s5[i]
      /\ s6[FileSize + 9] = CRLF
  <2>1. /\ s6 \in Seq(Int) /\ Len(s6) = Len(s5) + Len(one)
        /\ \A i \in 1 .. Len(s5) + Len(one) :
             s6[i] = IF i <= Len(s5) THEN s5[i] ELSE one[i - Len(s5)]
    <3>1. s5 \in Seq(Int) /\ one \in Seq(Int)
      BY <1>3, <1>8
    <3>. QED BY <3>1, ConcatProperties
  <2>. HIDE DEF s6
  <2>. QED BY <1>1, <1>3, <1>8, <2>1
<1>10. Body("file") = s6
  BY DEF Body, s6, s5, s4, s3, s2, s1, s, ph, one, e
<1>. HIDE DEF s6
<1>11. FileBody(s6)
  BY <1>1, <1>5, <1>6, <1>8, <1>9 DEF FileBody, Atoms
<1>. QED BY <1>10, <1>11

\* A piece of the body from behind its first t bytes.
Piece(b, t) ==
  /\ b \in Atoms /\ t \in Nat /\ t + Len(b) <= FileSize + 9
  /\ \A i \in 1 .. Len(b) : b[i] = Body("file")[t + i]

\* The end boundary is found in the piece that ends the body, where it stands,
\* and in none that ends before it.
LEMMA FindEnd ==
  ASSUME NEW b, NEW t, Piece(b, t)
  PROVE  /\ t + Len(b) <= FileSize + 5 => Find(b, EndBoundary) = 0
         /\ t + Len(b) = FileSize + 9 /\ t <= FileSize + 5
              => Find(b, EndBoundary) = FileSize + 6 - t /\ Find(b, Boundary) # 0
<1>. DEFINE body == Body("file")
            pat  == EndBoundary
<1>1. FileBody(body) /\ FileSize \in Nat
  BY FileBodyIs, UploadAssumption
<1>2. pat \in Atoms /\ Len(pat) = 3 /\ pat[1] = BndA /\ pat[2] = BndB /\ pat[3] = Dashes
  BY DEF EndBoundary, BndA, BndB, Dashes, Atoms
<1>3. b \in Atoms /\ Len(b) \in Nat /\ t \in Nat /\ \A i \in 1 .. Len(b) : b[i] = body[t + i]
  BY LenProperties DEF Piece, Atoms
<1>. HIDE DEF body, pat
<1>4. \A i \in 1 .. Len(b) - 2 :
        SubSeq(b, i, i + Len(pat) - 1) = pat
          <=> body[t + i] = BndA /\ body[t + i + 1] = BndB /\ body[t + i + 2] = Dashes
  <2>. SUFFICES ASSUME NEW i \in 1 .. Len(b) - 2
       PROVE  SubSeq(b, i, i + Len(pat) - 1) = pat
                <=> body[t + i] = BndA /\ body[t + i + 1] = BndB /\ body[t + i + 2] = Dashes
    OBVIOUS
  <2>1. i \in 1 .. Len(b) - Len(pat) + 1 /\ Len(pat) > 0
    BY <1>2, <1>3
  <2>2. SubSeq(b, i, i + Len(pat) - 1) = pat <=> \A j \in 1 .. Len(pat) : b[i + j - 1] = pat[j]
    BY <1>2, <1>3, <2>1, PatternAt
  <2>3. (\A j \in 1 .. Len(pat) : b[i + j - 1] = pat[j])
          <=> b[i] = BndA /\ b[i + 1] = BndB /\ b[i + 2] = Dashes
    <3>1. /\ \A j \in 1 .. Len(pat) : j = 1 \/ j = 2 \/ j = 3
          /\ i + 1 - 1 = i /\ i + 2 - 1 = i + 1 /\ i + 3 - 1 = i + 2
          /\ 1 \in 1 .. Len(pat) /\ 2 \in 1 .. Len(pat) /\ 3 \in 1 .. Len(pat)
      BY <1>2
    <3>. QED BY <1>2, <3>1
  <2>4. b[i] = body[t + i] /\ b[i + 1] = body[t + i + 1] /\ b[i + 2] = body[t + i + 2]
    <3>1. /\ i \in 1 .. Len(b) /\ i + 1 \in 1 .. Len(b) /\ i + 2 \in 1 .. Len(b)
          /\ t + (i + 1) = t + i + 1 /\ t + (i + 2) = t + i + 2
      BY <1>3
    <3>. QED BY <1>3, <3>1
  <2>. QED BY <2>2, <2>3, <2>4
<1>5. \A j \in 1 .. FileSize + 5 : ~(body[j] = BndA /\ body[j + 2] = Dashes)
  <2>1. \A j \in 1 .. FileSize + 5 : body[j] = BndA => j = 1
    <3>1. \A j \in 1 .. FileSize + 5 :
            j = 1 \/ j = 2 \/ j = 3 \/ j = 4 \/ j \in 5 .. FileSize + 4 \/ j = FileSize + 5
      BY <1>1
    <3>2. \A j \in 5 .. FileSize + 4 : body[j] = j - 4
      BY <1>1 DEF FileBody
    <3>3. \A j \in 5 .. FileSize + 4 : body[j] # BndA
      BY <1>1, <3>2 DEF BndA
    <3>4. body[2] # BndA /\ body[3] # BndA /\ body[4] # BndA /\ body[FileSize + 5] # BndA
      BY <1>1 DEF FileBody, BndA, BndB, Part, Blank, CRLF
    <3>. QED BY <3>1, <3>3, <3>4
  <2>2. body[1 + 2] # Dashes
    BY <1>1 DEF FileBody, Part, Dashes
  <2>. QED BY <2>1, <2>2
<1>6. ASSUME t + Len(b) <= FileSize + 5 PROVE Find(b, pat) = 0
  <2>1. \A i \in 1 .. Len(b) - Len(pat) + 1 : i \in 1 .. Len(b) - 2 /\ t + i \in 1 .. FileSize + 5
    BY <1>1, <1>2, <1>3, <1>6
  <2>2. \A i \in 1 .. Len(b) - Len(pat) + 1 : SubSeq(b, i, i + Len(pat) - 1) # pat
    BY <1>4, <1>5, <2>1
  <2>. QED BY <2>2, FindNone
<1>7. ASSUME t + Len(b) = FileSize + 9, t <= FileSize + 5 
      PROVE  Find(b, pat) = FileSize + 6 - t /\ Find(b, Boundary) # 0
  <2>. DEFINE k == FileSize + 6 - t
  <2>1. /\ k \in 1 .. Len(b) - Len(pat) + 1 /\ k \in 1 .. Len(b) - 2
        /\ t + k = FileSize + 6 /\ t + k + 1 = FileSize + 7 /\ t + k + 2 = FileSize + 8
        /\ Len(b) \in Nat /\ Len(pat) \in Nat
    BY <1>1, <1>2, <1>3, <1>7
  <2>2. \A i \in 1 .. k - 1 : i \in 1 .. Len(b) - 2 /\ t + i \in 1 .. FileSize + 5
    BY <1>1, <1>3, <1>7, <2>1
  <2>. HIDE DEF k
  <2>3. SubSeq(b, k, k + Len(pat) - 1) = pat
    BY <1>1, <1>4, <2>1 DEF FileBody
  <2>4. \A i \in 1 .. k - 1 : SubSeq(b, i, i + Len(pat) - 1) # pat
    BY <1>4, <1>5, <2>2
  <2>5. Find(b, pat) = k
    BY <2>1, <2>3, <2>4, FindIs
  <2>6. Find(b, Boundary) # 0
    <3>. DEFINE two == Boundary
                at  == {i \in 1 .. Len(b) - Len(two) + 1 : SubSeq(b, i, i + Len(two) - 1) = two}
    <3>1. two \in Atoms /\ Len(two) = 2 /\ two[1] = BndA /\ two[2] = BndB
      BY DEF Boundary, BndA, BndB, Atoms
    <3>. HIDE DEF two
    <3>2. k \in 1 .. Len(b) - 1 /\ k \in 1 .. Len(b) /\ k + 1 \in 1 .. Len(b)
          /\ t + (k + 1) = FileSize + 7 /\ Len(b) - Len(two) + 1 = Len(b) - 1
      BY <1>1, <1>3, <2>1, <3>1, SMTT(60)
    <3>3. b[k] = BndA /\ b[k + 1] = BndB
      BY <1>1, <1>3, <2>1, <3>2 DEF FileBody
    <3>4. SubSeq(b, k, k + Len(two) - 1) = two
      <4>1. \A i \in 1 .. Len(b) - 1 :
              SubSeq(b, i, i + Len(two) - 1) = two <=> b[i] = two[1] /\ b[i + 1] = two[2]
        BY <1>3, <3>1, TwoAt
      <4>. QED BY <3>1, <3>2, <3>3, <4>1, Zenon
    <3>5. k \in at /\ at \subseteq Nat \ {0}
      BY <1>3, <3>2, <3>4
    <3>. HIDE DEF at
    <3>6. Min(at) \in at
      BY <3>5, MinNat
    <3>7. Find(b, two) = Min(at)
      BY <3>5 DEF Find, at
    <3>. QED BY <3>5, <3>6, <3>7 DEF two
  <2>. QED BY <2>5, <2>6 DEF k
<1>. QED BY <1>6, <1>7 DEF pat

\* Between the part's header and the end boundary there is no boundary.
LEMMA FindBoundary ==
  ASSUME NEW b, NEW t, Piece(b, t), t >= 4, t + Len(b) <= FileSize + 5
  PROVE  Find(b, Boundary) = 0
<1>. DEFINE body == Body("file")
            pat  == Boundary
<1>1. FileBody(body) /\ FileSize \in Nat
  BY FileBodyIs, UploadAssumption
<1>2. pat \in Atoms /\ Len(pat) = 2 /\ pat[1] = BndA
  BY DEF Boundary, BndA, BndB, Atoms
<1>3. b \in Atoms /\ Len(b) \in Nat /\ t \in Nat /\ \A i \in 1 .. Len(b) : b[i] = body[t + i]
  BY LenProperties DEF Piece, Atoms
<1>. HIDE DEF body, pat
<1>4. \A j \in 5 .. FileSize + 5 : body[j] # BndA
  <2>1. \A j \in 5 .. FileSize + 4 : body[j] = j - 4
    BY <1>1 DEF FileBody
  <2>2. \A j \in 5 .. FileSize + 4 : body[j] # BndA
    BY <1>1, <2>1 DEF BndA
  <2>3. body[FileSize + 5] # BndA
    BY <1>1 DEF FileBody, BndA, CRLF
  <2>4. \A j \in 5 .. FileSize + 5 : j \in 5 .. FileSize + 4 \/ j = FileSize + 5
    BY <1>1
  <2>. QED BY <2>2, <2>3, <2>4
<1>5. ASSUME NEW i \in 1 .. Len(b) - Len(pat) + 1 PROVE SubSeq(b, i, i + Len(pat) - 1) # pat
  <2>1. Len(pat) > 0 /\ 1 \in 1 .. Len(pat) /\ i + 1 - 1 = i /\ i \in 1 .. Len(b)
    BY <1>2, <1>3
  <2>2. t + i \in 5 .. FileSize + 5
    BY <1>1, <1>2, <1>3
  <2>3. SubSeq(b, i, i + Len(pat) - 1) = pat => b[i] = BndA
    BY <1>2, <1>3, <2>1, PatternAt
  <2>. QED BY <1>3, <1>4, <2>1, <2>2, <2>3
<1>6. Find(b, pat) = 0
  BY <1>5, FindNone
<1>. QED BY <1>6 DEF pat

\* The part's header ends behind the fourth atom.
LEMMA FindPart ==
  ASSUME NEW b, Piece(b, 0), Len(b) >= 4
  PROVE  Find(b, <<Blank>>) = 4
<1>. DEFINE body == Body("file")
            pat  == <<Blank>>
            k    == 4
<1>1. FileBody(body) /\ FileSize \in Nat
  BY FileBodyIs, UploadAssumption
<1>2. Len(pat) = 1 /\ Blank \in Int
  BY DEF Blank
<1>3. b \in Atoms /\ Len(b) \in Nat /\ \A i \in 1 .. Len(b) : b[i] = body[0 + i]
  BY LenProperties DEF Piece, Atoms
<1>4. \A i \in 1 .. Len(b) : SubSeq(b, i, i + Len(pat) - 1) = pat <=> b[i] = Blank
  BY <1>2, <1>3, OneAt
<1>. HIDE DEF body, pat
<1>5. b[1] = body[1] /\ b[2] = body[2] /\ b[3] = body[3] /\ b[4] = body[4]
  BY <1>3
<1>6. b[1] # Blank /\ b[2] # Blank /\ b[3] # Blank /\ b[4] = Blank
  BY <1>1, <1>5 DEF FileBody, BndA, BndB, Part, Blank
<1>7. /\ k \in 1 .. Len(b) - Len(pat) + 1 /\ k \in 1 .. Len(b)
      /\ Len(b) \in Nat /\ Len(pat) \in Nat
      /\ \A i \in 1 .. k - 1 : i \in 1 .. Len(b) /\ (i = 1 \/ i = 2 \/ i = 3)
  BY <1>2, <1>3
<1>8. /\ SubSeq(b, k, k + Len(pat) - 1) = pat
      /\ \A i \in 1 .. k - 1 : SubSeq(b, i, i + Len(pat) - 1) # pat
  BY <1>4, <1>6, <1>7
<1>. HIDE DEF k
<1>9. Find(b, pat) = k
  BY <1>7, <1>8, FindIs
<1>. QED BY <1>9 DEF pat, k

\* A piece of a piece.
LEMMA PieceSlice ==
  ASSUME NEW b, NEW t, Piece(b, t), NEW i \in Int, NEW j \in Int, 1 <= i, i <= j + 1, j <= Len(b)
  PROVE  SubSeq(b, i, j) = SubSeq(Body("file"), t + i, t + j)
<1>. DEFINE body == Body("file")
            x == t + i
            y == t + j
            u == SubSeq(b, i, j)
            v == SubSeq(body, x, y)
<1>1. FileBody(body) /\ FileSize \in Nat
  BY FileBodyIs, UploadAssumption
<1>2. /\ b \in Atoms /\ Len(b) \in Nat /\ t \in Nat /\ \A k \in 1 .. Len(b) : b[k] = body[t + k]
      /\ t + Len(b) <= FileSize + 9 /\ body \in Atoms /\ Len(body) = FileSize + 9
  BY <1>1, LenProperties DEF Piece, Atoms, FileBody
<1>. HIDE DEF body
<1>3. x \in Int /\ y \in Int /\ 1 <= x /\ x <= y + 1 /\ y <= Len(body) /\ y - x = j - i
  BY <1>1, <1>2
<1>4. /\ \A k \in i .. j : b[k] \in Int
      /\ \A k \in x .. y : body[k] \in Int
  <2>1. \A k \in 1 .. Len(b) : b[k] \in Int
    BY <1>2, ElementOfSeq DEF Atoms
  <2>2. \A k \in 1 .. Len(body) : body[k] \in Int
    BY <1>2, ElementOfSeq DEF Atoms
  <2>3. i .. j \subseteq 1 .. Len(b) /\ x .. y \subseteq 1 .. Len(body)
    <3>. HIDE DEF x, y
    <3>. QED BY <1>1, <1>2, <1>3
  <2>. QED BY <2>1, <2>2, <2>3
<1>5. /\ u \in Seq(Int) /\ Len(u) = IF i <= j THEN j - i + 1 ELSE 0
      /\ \A k \in 1 .. j - i + 1 : u[k] = b[i + k - 1]
  BY <1>4, SubSeqProperties, SMTT(30)
<1>6. /\ v \in Seq(Int) /\ Len(v) = IF x <= y THEN y - x + 1 ELSE 0
      /\ \A k \in 1 .. y - x + 1 : v[k] = body[x + k - 1]
  <2>. HIDE DEF x, y
  <2>. QED BY <1>3, <1>4, SubSeqProperties
<1>. HIDE DEF u, v
<1>7. Len(u) = j - i + 1 /\ Len(v) = Len(u)
  <2>. HIDE DEF x, y
  <2>1. /\ Len(u) = IF i <= j THEN j - i + 1 ELSE 0
        /\ Len(v) = IF x <= y THEN y - x + 1 ELSE 0
    BY <1>5, <1>6
  <2>2. x \in Int /\ y \in Int /\ x <= y + 1 /\ y - x = j - i
    BY <1>3
  <2>. QED BY <2>1, <2>2, SMTT(30)
<1>8. ASSUME NEW k \in 1 .. Len(u) PROVE u[k] = v[k]
  <2>1. k \in 1 .. j - i + 1 /\ k \in 1 .. y - x + 1 /\ i + k - 1 \in 1 .. Len(b)
    BY <1>2, <1>3, <1>7
  <2>2. t + (i + k - 1) = x + k - 1
    BY <1>2
  <2>3. u[k] = b[i + k - 1] /\ v[k] = body[x + k - 1] /\ b[i + k - 1] = body[t + (i + k - 1)]
    <3>. HIDE DEF x, y
    <3>. QED BY <1>2, <1>5, <1>6, <2>1
  <2>. QED BY <2>2, <2>3
<1>9. u = v
  BY <1>5, <1>6, <1>7, <1>8, SeqEqual
<1>. QED BY <1>9 DEF u, v, x, y, body

-----------------------------------------------------------------------------
(* The stored file.                                                        *)

\* The client sends the file alone, no early chunk ended inside or after the end
\* boundary, and no operation has failed.
Clean == form = "file" /\ ~torn /\ ~faulted

\* What the body's first n atoms have of the file and the CRLF behind it.
FileUpto(n) == SubSeq(Body("file"), 5, n)

\* Until the request is answered, the handler has been given nothing, or the file
\* on disk is what it was given, without the part's header.
Chunked ==
  Clean /\ responses = <<>> /\ conn # "down" /\ ~spinning /\ ~failed
    => /\ rows = <<>>
       /\ \/ ctx = "none" /\ taken = <<>>
          \/ /\ ctx = "kExpectBoundary" /\ file \notin bad
             /\ Len(taken) \in 5 .. FileSize + 5 /\ disk[file] = FileUpto(Len(taken))

\* All of the file, and its CRLF.
LEMMA WholeFile == FileUpto(FileSize + 5) = Content \o <<CRLF>> /\ FileUpto(4) = <<>>
<1>. DEFINE body == Body("file")
            one == <<CRLF>>
            e == <<>>
            k == FileSize + 5
            u == SubSeq(body, 5, k)
            v == SubSeq(body, 5, 4)
            c == Content \o one
<1>1. FileBody(body) /\ FileSize \in Nat
  BY FileBodyIs, UploadAssumption
<1>2. /\ one \in Seq(Int) /\ Len(one) = 1 /\ one[1] = CRLF
      /\ e \in Seq(Int) /\ Len(e) = 0
  BY DEF CRLF
<1>3. Content \in Seq(Int) /\ Len(Content) = FileSize /\ \A i \in 1 .. FileSize : Content[i] = i
  <2>1. Content \in [1 .. FileSize -> Int] /\ DOMAIN Content = 1 .. FileSize
    BY DEF Content
  <2>2. Content \in Seq(Int)
    BY <1>1, <2>1, SeqDef
  <2>. QED BY <1>1, <2>1, <2>2, LenProperties DEF Content
<1>4. body \in Atoms /\ Len(body) = FileSize + 9
  BY <1>1 DEF FileBody
<1>. HIDE DEF body, one, e
<1>5. /\ \A i \in 5 .. k : body[i] \in Int
      /\ \A i \in 5 .. 4 : body[i] \in Int
      /\ k \in Int /\ 5 \in Int /\ 4 \in Int /\ 5 <= k /\ k - 5 + 1 = FileSize + 1
  <2>1. \A i \in 1 .. Len(body) : body[i] \in Int
    BY <1>4, ElementOfSeq DEF Atoms
  <2>. QED BY <1>1, <1>4, <2>1
<1>. HIDE DEF k
<1>6. /\ u \in Seq(Int) /\ Len(u) = IF 5 <= k THEN k - 5 + 1 ELSE 0
      /\ \A i \in 1 .. k - 5 + 1 : u[i] = body[5 + i - 1]
  BY <1>5, SubSeqProperties
<1>7. v \in Seq(Int) /\ Len(v) = IF 5 <= 4 THEN 4 - 5 + 1 ELSE 0
  BY <1>5, SubSeqProperties
<1>8. /\ c \in Seq(Int) /\ Len(c) = Len(Content) + Len(one)
      /\ \A i \in 1 .. Len(Content) + Len(one) :
           c[i] = IF i <= Len(Content) THEN Content[i] ELSE one[i - Len(Content)]
  <2>1. Content \in Seq(Int) /\ one \in Seq(Int)
    BY <1>2, <1>3
  <2>. QED BY <2>1, ConcatProperties
<1>. HIDE DEF u, v, c
<1>9. u = c
  <2>1. Len(u) = FileSize + 1 /\ Len(c) = FileSize + 1
    BY <1>2, <1>3, <1>5, <1>6, <1>8
  <2>2. ASSUME NEW i \in 1 .. FileSize + 1 PROVE u[i] = c[i]
    <3>1. u[i] = body[i + 4]
      <4>1. 5 + i - 1 = i + 4
        BY <1>1
      <4>. QED BY <1>5, <1>6, <4>1
    <3>2. CASE i <= FileSize
      <4>1. i \in 1 .. FileSize /\ i + 4 \in 5 .. FileSize + 4 /\ i + 4 - 4 = i
        BY <1>1, <3>2
      <4>2. body[i + 4] = i
        BY <1>1, <4>1 DEF FileBody
      <4>3. c[i] = Content[i]
        BY <1>1, <1>2, <1>3, <1>8, <3>2
      <4>. QED BY <1>3, <3>1, <4>1, <4>2, <4>3
    <3>3. CASE i = FileSize + 1
      <4>1. i + 4 = FileSize + 5 /\ ~(i <= FileSize) /\ i - FileSize = 1
        BY <1>1, <3>3
      <4>2. c[i] = one[1]
        BY <1>2, <1>3, <1>8, <4>1
      <4>3. body[FileSize + 5] = CRLF
        BY <1>1 DEF FileBody
      <4>. QED BY <1>2, <3>1, <4>1, <4>2, <4>3
    <3>. QED BY <1>1, <3>2, <3>3
  <2>. QED BY <1>6, <1>8, <2>1, <2>2, SeqEqual
<1>10. v = e
  <2>1. Len(v) = Len(e)
    BY <1>2, <1>7
  <2>2. \A i \in 1 .. Len(v) : v[i] = e[i]
    BY <1>2, <2>1
  <2>. QED BY <1>2, <1>7, <2>1, <2>2, SeqEqual
<1>. QED BY <1>9, <1>10 DEF u, v, c, k, one, e, body, FileUpto

\* Consecutive pieces of the file make a longer one.
LEMMA FileGrows ==
  ASSUME NEW m \in 4 .. FileSize + 5, NEW n \in m .. FileSize + 5
  PROVE  /\ FileUpto(m) \o SubSeq(Body("file"), m + 1, n) = FileUpto(n)
         /\ Len(FileUpto(n)) = n - 4
<1>. DEFINE body == Body("file")
            v == SubSeq(body, 5, n)
<1>1. body \in Seq(Int) /\ Len(body) = FileSize + 9 /\ FileSize \in Nat
  BY FileBodyIs, UploadAssumption DEF FileBody, Atoms
<1>. HIDE DEF body
<1>2. 5 \in 1 .. Len(body) + 1 /\ m \in 5 - 1 .. Len(body) /\ n \in m .. Len(body)
  BY <1>1
<1>3. SubSeq(body, 5, m) \o SubSeq(body, m + 1, n) = SubSeq(body, 5, n)
  BY <1>1, <1>2, ConcatAdjacentSubSeq
<1>4. \A i \in 5 .. n : body[i] \in Int
  <2>1. \A i \in 1 .. Len(body) : body[i] \in Int
    BY <1>1, ElementOfSeq
  <2>. QED BY <1>1, <2>1
<1>5. Len(v) = IF 5 <= n THEN n - 5 + 1 ELSE 0
  <2>1. 5 \in Int /\ n \in Int
    BY <1>1
  <2>. QED BY <1>4, <2>1, SubSeqProperties
<1>. HIDE DEF v
<1>6. Len(v) = n - 4
  BY <1>1, <1>5
<1>. QED BY <1>3, <1>6 DEF v, body, FileUpto

-----------------------------------------------------------------------------
(* The handler stores the file.                                            *)

\* What a call of the handler gets of the body: a piece that ends before the end
\* boundary (early), or all that was left.
Given(p, last) ==
  /\ Piece(p.body, Len(taken)) /\ Len(p.body) > 0
  /\ IF last THEN p.state = "kGotAll" /\ Len(taken) + Len(p.body) = FileSize + 9
             ELSE p.state = "kExpectBody" /\ Len(taken) + Len(p.body) \in 5 .. FileSize + 5

\* The end of what the call adds to the file, as a position of the body.
End(p, last) == IF last THEN FileSize + 5 ELSE Len(taken) + Len(p.body)

\* The first chunk is written without the part's header, the last one without
\* the end boundary, and one that is not written has nothing of the file.
Cuts(chunk, m, n, last) ==
  /\ chunk.data = SubSeq(Body("file"), m + 1, n)
  /\ ~chunk.write => m = n
  /\ chunk.ctx = IF last THEN "kComplete" ELSE "kExpectBoundary"

\* The first call ...
LEMMA FirstCut ==
  ASSUME NEW p, NEW last \in BOOLEAN, Given(p, last), taken = <<>>
  PROVE  Cuts(firstChunk(p.body), 4, End(p, last), last)
<1>. DEFINE b == p.body
            n == End(p, last)
            pos == Find(b, <<Blank>>)
            end == Find(b, EndBoundary)
<1>1. Len(taken) = 0 /\ FileSize \in Nat
  BY UploadAssumption
<1>2. Piece(b, 0) /\ b \in Atoms /\ Len(b) \in Nat
  BY <1>1, LenProperties DEF Given, Piece, Atoms
<1>3. /\ last => Len(b) = FileSize + 9 /\ n = FileSize + 5
      /\ ~last => Len(b) \in 5 .. FileSize + 5 /\ n = Len(b)
  BY <1>1, <1>2 DEF Given, End
<1>4. Len(b) > 4 /\ n \in 5 .. Len(b) /\ n \in 5 .. FileSize + 5
  BY <1>1, <1>3
<1>5. pos = 4
  <2>1. Len(b) >= 4
    BY <1>2, <1>4
  <2>. QED BY <1>2, <2>1, FindPart, Zenon
<1>6. (last => end = FileSize + 6) /\ (~last => end = 0)
  <2>1. /\ 0 + Len(b) <= FileSize + 5 => end = 0
        /\ 0 + Len(b) = FileSize + 9 /\ 0 <= FileSize + 5 => end = FileSize + 6 - 0
    BY <1>2, FindEnd
  <2>. HIDE DEF end, n
  <2>. QED BY <1>1, <1>2, <1>3, <2>1
<1>7. SubSeq(b, 5, n) = SubSeq(Body("file"), 5, n)
  <2>1. 5 \in Int /\ n \in Int /\ 1 <= 5 /\ 5 <= n + 1 /\ n <= Len(b) /\ 0 + 5 = 5 /\ 0 + n = n
    BY <1>1, <1>2, <1>4
  <2>. HIDE DEF n, b
  <2>2. SubSeq(b, 5, n) = SubSeq(Body("file"), 0 + 5, 0 + n)
    BY <1>2, <2>1, PieceSlice
  <2>. QED BY <2>1, <2>2
<1>8. firstChunk(b) = IF pos = 0 THEN [write |-> FALSE, data |-> <<>>, ctx |-> "kExpectHeaders"]
      ELSE IF end # 0
      THEN [write |-> TRUE, data |-> SubSeq(b, pos + 1, end - 1), ctx |-> "kComplete"]
      ELSE [write |-> pos < Len(b), data |-> Drop(b, pos), ctx |-> "kExpectBoundary"]
  BY DEF firstChunk
<1>. HIDE DEF pos, end, b
<1>9. CASE last
  <2>1. end # 0 /\ end - 1 = n /\ pos # 0 /\ pos + 1 = 5
    <3>. HIDE DEF n
    <3>. QED BY <1>1, <1>3, <1>5, <1>6, <1>9
  <2>. HIDE DEF n
  <2>. DEFINE d == SubSeq(b, 5, n)
  <2>2. firstChunk(b) = [write |-> TRUE, data |-> d, ctx |-> "kComplete"]
    BY <1>8, <2>1
  <2>. HIDE DEF d
  <2>3. Cuts(firstChunk(b), 4, n, last)
    <3>1. d = SubSeq(Body("file"), 4 + 1, n)
      <4>1. 4 + 1 = 5
        OBVIOUS
      <4>. QED BY <1>7, <4>1, Zenon DEF d
    <3>2. /\ firstChunk(b).data = SubSeq(Body("file"), 4 + 1, n)
          /\ firstChunk(b).write
          /\ firstChunk(b).ctx = "kComplete"
      <4>1. firstChunk(b).data = d /\ firstChunk(b).write
        BY <2>2
      <4>2. firstChunk(b).ctx = "kComplete"
        BY <2>2
      <4>. QED BY <3>1, <4>1, <4>2, Zenon
    <3>. QED BY <1>9, <3>2, Zenon DEF Cuts
  <2>. QED BY <2>3 DEF n, b
<1>10. CASE ~last
  <2>1. end = 0 /\ pos # 0 /\ pos + 1 = 5 /\ pos < Len(b) /\ n = Len(b)
    <3>. HIDE DEF n
    <3>. QED BY <1>2, <1>3, <1>4, <1>5, <1>6, <1>10
  <2>. HIDE DEF n
  <2>. DEFINE d == SubSeq(b, 5, n)
  <2>2. firstChunk(b) = [write |-> TRUE, data |-> d, ctx |-> "kExpectBoundary"]
    BY <1>8, <2>1 DEF Drop
  <2>. HIDE DEF d
  <2>3. Cuts(firstChunk(b), 4, n, last)
    <3>1. d = SubSeq(Body("file"), 4 + 1, n)
      <4>1. 4 + 1 = 5
        OBVIOUS
      <4>. QED BY <1>7, <4>1, Zenon DEF d
    <3>2. /\ firstChunk(b).data = SubSeq(Body("file"), 4 + 1, n)
          /\ firstChunk(b).write
          /\ firstChunk(b).ctx = "kExpectBoundary"
      <4>1. firstChunk(b).data = d /\ firstChunk(b).write
        BY <2>2
      <4>2. firstChunk(b).ctx = "kExpectBoundary"
        BY <2>2
      <4>. QED BY <3>1, <4>1, <4>2, Zenon
    <3>. QED BY <1>10, <3>2, Zenon DEF Cuts
  <2>. QED BY <2>3 DEF n, b
<1>. QED BY <1>9, <1>10

\* ... and a later one.
LEMMA NextCut ==
  ASSUME NEW p, NEW last \in BOOLEAN, Given(p, last), ctx = "kExpectBoundary",
         Len(taken) \in 5 .. FileSize + 5
  PROVE  Cuts(nextChunk(p.body), Len(taken), End(p, last), last)
<1>. DEFINE b == p.body
            t == Len(taken)
            n == End(p, last)
            end == Find(b, EndBoundary)
            bnd == Find(b, Boundary)
<1>1. FileSize \in Nat /\ t \in 5 .. FileSize + 5 /\ t \in Nat
  BY UploadAssumption
<1>2. Piece(b, t) /\ b \in Atoms /\ Len(b) \in Nat /\ Len(b) > 0
  BY LenProperties DEF Given, Piece, Atoms
<1>3. /\ last => t + Len(b) = FileSize + 9 /\ n = FileSize + 5
      /\ ~last => t + Len(b) \in 5 .. FileSize + 5 /\ n = t + Len(b)
  BY DEF Given, End
<1>. HIDE DEF t, n
<1>4. n - t \in 0 .. Len(b) /\ n \in Int
  BY <1>1, <1>2, <1>3
<1>5. (last => end = FileSize + 6 - t /\ bnd # 0) /\ (~last => end = 0 /\ bnd = 0)
  <2>1. /\ t + Len(b) <= FileSize + 5 => end = 0
        /\ t + Len(b) = FileSize + 9 /\ t <= FileSize + 5 => end = FileSize + 6 - t /\ bnd # 0
    BY <1>2, FindEnd
  <2>2. t >= 4 /\ t + Len(b) <= FileSize + 5 => bnd = 0
    BY <1>2, FindBoundary
  <2>. HIDE DEF end, bnd
  <2>. QED BY <1>1, <1>2, <1>3, <2>1, <2>2
<1>6. SubSeq(b, 1, n - t) = SubSeq(Body("file"), t + 1, n)
  <2>. DEFINE j == n - t
  <2>1. 1 \in Int /\ j \in Int /\ 1 <= 1 /\ 1 <= j + 1 /\ j <= Len(b) /\ t + j = n
    BY <1>1, <1>2, <1>4
  <2>. HIDE DEF j, b
  <2>2. SubSeq(b, 1, j) = SubSeq(Body("file"), t + 1, t + j)
    BY <1>2, <2>1, PieceSlice
  <2>. QED BY <2>1, <2>2 DEF j
<1>7. /\ end # 0 /\ bnd # 0 => /\ nextChunk(b).data = SubSeq(b, 1, end - 1)
                               /\ nextChunk(b).ctx = "kComplete"
                               /\ ~nextChunk(b).write => ~(end > 1)
      /\ end = 0 /\ bnd = 0 => /\ nextChunk(b).data = SubSeq(b, 1, Len(b) + 1 - 1)
                               /\ nextChunk(b).ctx = "kExpectBoundary"
                               /\ ~nextChunk(b).write => ~(Len(b) + 1 > 1)
  <2>. DEFINE upto(i) == SubSeq(b, 1, i - 1)
              Upto(i, c) == [write |-> i > 1 \/ ctx = "kExpectContent", data |-> upto(i), ctx |-> c]
              skip == [write |-> FALSE, data |-> <<>>, ctx |-> ctx]
  <2>1. nextChunk(b) =
          CASE ctx = "kExpectBoundary" /\ end # 0 -> Upto(end, "kComplete")
            [] ctx = "kExpectBoundary" /\ end = 0 /\ bnd # 0 ->
                 IF Find(Drop(b, bnd), <<Blank>>) # 0 THEN Upto(bnd, "kExpectContent") ELSE skip
            [] ctx = "kExpectContent" /\ bnd # 0 -> Upto(bnd, "kExpectBoundary")
            [] ctx \in {"kExpectBoundary", "kExpectContent"} /\ bnd = 0 -> Upto(Len(b) + 1, ctx)
            [] OTHER -> skip
    BY Zenon DEF nextChunk
  <2>. HIDE DEF upto, skip, end, bnd, b
  <2>. DEFINE x == Upto(end, "kComplete")
              z == Len(b) + 1
              y == Upto(z, ctx)
  <2>2. /\ x.data = upto(end) /\ x.ctx = "kComplete"
        /\ ~x.write => ~(end > 1)
    OBVIOUS
  <2>3. /\ y.data = upto(z) /\ y.ctx = ctx
        /\ ~y.write => ~(z > 1)
    <3>. HIDE DEF z
    <3>. QED OBVIOUS
  <2>. HIDE DEF Upto
  <2>4. /\ end # 0 /\ bnd # 0 => nextChunk(b) = x
        /\ end = 0 /\ bnd = 0 => nextChunk(b) = y
    BY <2>1
  <2>5. ctx = "kExpectBoundary"
    OBVIOUS
  <2>. HIDE DEF x, y, z
  <2>6. ASSUME end # 0, bnd # 0
        PROVE  /\ nextChunk(b).data = upto(end) /\ nextChunk(b).ctx = "kComplete"
               /\ ~nextChunk(b).write => ~(end > 1)
    <3>1. nextChunk(b) = x
      BY <2>4, <2>6
    <3>. QED BY <2>2, <3>1, Zenon
  <2>7. ASSUME end = 0, bnd = 0
        PROVE  /\ nextChunk(b).data = upto(z) /\ nextChunk(b).ctx = "kExpectBoundary"
               /\ ~nextChunk(b).write => ~(z > 1)
    <3>1. nextChunk(b) = y
      BY <2>4, <2>7
    <3>. QED BY <2>3, <2>5, <3>1, Zenon
  <2>8. upto(end) = SubSeq(b, 1, end - 1) /\ upto(z) = SubSeq(b, 1, Len(b) + 1 - 1)
    BY DEF upto, z
  <2>9. z > 1 <=> Len(b) + 1 > 1
    BY Zenon DEF z
  <2>. QED BY <2>6, <2>7, <2>8, <2>9, Zenon
<1>. HIDE DEF end, bnd, b
<1>8. CASE last
  <2>1. end # 0 /\ bnd # 0 /\ end - 1 = n - t /\ (~(end > 1) => t = n)
    BY <1>1, <1>3, <1>5, <1>8
  <2>2. /\ nextChunk(b).data = SubSeq(b, 1, n - t) /\ nextChunk(b).ctx = "kComplete"
        /\ ~nextChunk(b).write => ~(end > 1)
    BY <1>7, <2>1
  <2>3. /\ nextChunk(b).data = SubSeq(Body("file"), t + 1, n)
        /\ ~nextChunk(b).write => t = n
    BY <1>6, <2>1, <2>2
  <2>. QED BY <1>8, <2>2, <2>3 DEF Cuts, n, b, t
<1>9. CASE ~last
  <2>1. end = 0 /\ bnd = 0 /\ Len(b) + 1 - 1 = n - t /\ Len(b) + 1 > 1
    BY <1>1, <1>2, <1>3, <1>5, <1>9
  <2>2. /\ nextChunk(b).data = SubSeq(b, 1, n - t) /\ nextChunk(b).ctx = "kExpectBoundary"
        /\ nextChunk(b).write
    BY <1>7, <2>1
  <2>. QED BY <1>6, <1>9, <2>2 DEF Cuts, n, b, t
<1>. QED BY <1>8, <1>9

\* A chunk was dealt with and nothing has failed.
LEMMA WrittenIs ==
  ASSUME NEW p, NEW last \in BOOLEAN, NEW chunk, NEW f, NEW size, NEW lost \in BOOLEAN,
         Written(p, last, chunk, f, size, lost), ~faulted',
         last => p.state = "kGotAll",
         ~last => p.state # "kGotAll" /\ chunk.ctx # "kComplete"
  PROVE  /\ ~lost /\ taken' = taken \o p.body
         /\ last => rows' = Append(rows, [file |-> f, size |-> size]) /\ Respond(last, 200, f)
         /\ ~last => rows' = rows /\ ctx' = chunk.ctx /\ file' = f /\ responses' = responses
<1>. DEFINE h == [Context(p) EXCEPT !.body = clearBody(@)]
            row == [file |-> f, size |-> size]
<1>1. taken' = taken \o p.body
  BY DEF Written
<1>2. CASE last
  <2>1. PICK ok \in IF "insert" \in Faults THEN BOOLEAN ELSE {TRUE} :
          /\ rows' = IF ok THEN Append(rows, row) ELSE rows
          /\ faulted' = (faulted \/ lost \/ ~ok)
          /\ Respond(last, 200, f)
    BY <1>2, Zenon DEF Written
  <2>. HIDE DEF row
  <2>2. ok \in BOOLEAN
    BY <2>1
  <2>3. ok /\ ~lost
    BY <2>1, <2>2, Zenon
  <2>4. rows' = Append(rows, row)
    BY <2>1, <2>3, Zenon
  <2>. QED BY <1>1, <1>2, <2>1, <2>3, <2>4, Zenon DEF row
<1>3. CASE ~last
  <2>1. /\ Keep(last, h, chunk.ctx, f) /\ faulted' = (faulted \/ lost)
        /\ UNCHANGED <<rows, sendVars>>
    BY <1>3, Zenon DEF Written
  <2>. HIDE DEF h
  <2>2. ctx' = chunk.ctx /\ file' = f /\ rows' = rows /\ responses' = responses
    BY <1>3, <2>1 DEF Keep, sendVars
  <2>3. ~lost
    BY <2>1, Zenon
  <2>. QED BY <1>1, <1>3, <2>2, <2>3
<1>. QED BY <1>2, <1>3

\* The chunk was refused for want of a session, or it is in the file; and the
\* last one has given the file its row and the client its answer.
RefusedChunk(last) ==
  /\ UNCHANGED <<disk, bad, rows, taken>>
  /\ last => \E r : responses' = Append(responses, r) /\ r.status # 200
  /\ ~last => UNCHANGED <<ctx, file, responses>>

StoredChunk(p) ==
  /\ rows' = rows /\ ctx' = "kExpectBoundary" /\ file' \notin bad'
  /\ taken' = taken \o p.body /\ disk'[file'] = FileUpto(End(p, FALSE))
  /\ responses' = responses

StoredFile ==
  \E f, size : /\ responses' = Append(responses, [status |-> 200, file |-> f])
               /\ rows' = Append(rows, [file |-> f, size |-> size])
               /\ f \notin bad' /\ disk'[f] = FileUpto(FileSize + 5)

\* A call of the handler in which nothing fails does one of these.
LEMMA HandlerStores ==
  ASSUME FilesTyped, NEW p, NEW last \in BOOLEAN, handleFileUpload(p, last), Given(p, last),
         ~faulted', conn = "up", taken \in Atoms,
         \/ ctx = "none" /\ taken = <<>>
         \/ /\ ctx = "kExpectBoundary" /\ file \notin bad
            /\ Len(taken) \in 5 .. FileSize + 5 /\ disk[file] = FileUpto(Len(taken))
  PROVE  \/ RefusedChunk(last)
         \/ ~last /\ StoredChunk(p)
         \/ last /\ StoredFile
<1>. DEFINE fresh == ctx = "none"
            f     == IF fresh THEN Len(disk) + 1 ELSE file
            chunk == IF fresh THEN firstChunk(p.body) ELSE nextChunk(p.body)
            files == IF fresh THEN Append(disk, <<>>) ELSE disk
            size  == IF fresh THEN 0 ELSE total
            data  == chunk.data
            more  == size + Len(data)
            m     == IF fresh THEN 4 ELSE Len(taken)
            n     == End(p, last)
<1>1. \/ /\ Refuse(last, 401, p, ctx, file) /\ UNCHANGED <<disk, bad>>
      \/ /\ writeData(f, files, data)
         /\ Written(p, last, chunk, f, more, bad' # bad)
      \/ /\ ~chunk.write /\ disk' = files /\ bad' = bad
         /\ Written(p, last, chunk, f, size, FALSE)
  BY ZenonT(60) DEF handleFileUpload
<1>2. FileSize \in Nat /\ disk \in Seq(Atoms) /\ Len(disk) \in Nat /\ bad \subseteq 1 .. Len(disk)
  BY UploadAssumption, LenProperties DEF FilesTyped
<1>3. Cuts(chunk, m, n, last)
  <2>1. CASE fresh
    <3>1. taken = <<>>
      BY <2>1
    <3>2. Cuts(firstChunk(p.body), 4, End(p, last), last)
      BY <3>1, FirstCut, Zenon
    <3>. QED BY <2>1, <3>2, Zenon
  <2>2. CASE ~fresh
    <3>1. ctx = "kExpectBoundary" /\ Len(taken) \in 5 .. FileSize + 5
      BY <2>2, Zenon
    <3>2. Cuts(nextChunk(p.body), Len(taken), End(p, last), last)
      BY <3>1, NextCut, Zenon
    <3>. QED BY <2>2, <3>2, Zenon
  <2>. QED BY <2>1, <2>2
<1>4. m \in 4 .. FileSize + 5 /\ n \in m .. FileSize + 5
  <2>1. p.body \in Atoms /\ Len(p.body) \in Nat /\ Len(taken) \in Nat
    BY LenProperties DEF Given, Piece, Atoms
  <2>2. n \in 5 .. FileSize + 5
    BY <1>2 DEF Given, End
  <2>3. CASE fresh
    BY <1>2, <2>2, <2>3
  <2>4. CASE ~fresh
    <3>1. m = Len(taken) /\ m \in 5 .. FileSize + 5
      BY <2>4
    <3>2. n >= m
      BY <1>2, <2>1, <3>1 DEF Given, End
    <3>. QED BY <1>2, <2>2, <3>1, <3>2
  <2>. QED BY <2>3, <2>4
<1>5. f \notin bad /\ files[f] = FileUpto(m) /\ files \in Seq(Atoms) /\ f \in 1 .. Len(files)
  <2>1. CASE fresh
    <3>. DEFINE e == <<>>
                g == Append(disk, e)
    <3>1. e \in Atoms
      BY EmptySeq DEF Atoms
    <3>. HIDE DEF e
    <3>2. g \in Seq(Atoms) /\ Len(g) = Len(disk) + 1 /\ g[Len(disk) + 1] = e
      BY <1>2, <3>1, AppendProperties
    <3>3. e = FileUpto(4)
      BY WholeFile DEF e
    <3>4. f = Len(disk) + 1 /\ files = g /\ m = 4
      BY <2>1 DEF e
    <3>5. f \notin bad
      BY <1>2, <3>4
    <3>. HIDE DEF g, f, files, m
    <3>. QED BY <1>2, <3>2, <3>3, <3>4, <3>5
  <2>2. CASE ~fresh
    <3>1. file \in 1 .. Len(disk) /\ file \notin bad /\ disk[file] = FileUpto(Len(taken))
      BY <2>2 DEF FilesTyped
    <3>2. f = file /\ files = disk /\ m = Len(taken)
      BY <2>2
    <3>. HIDE DEF f, files, m
    <3>. QED BY <1>2, <3>1, <3>2
  <2>. QED BY <2>1, <2>2
<1>. HIDE DEF f, chunk, files, size, data, m, n, more
<1>6. FileUpto(m) \o SubSeq(Body("file"), m + 1, n) = FileUpto(n)
  BY <1>4, FileGrows
<1>7. /\ data = SubSeq(Body("file"), m + 1, n)
      /\ ~chunk.write => m = n
      /\ last => chunk.ctx = "kComplete"
      /\ ~last => chunk.ctx = "kExpectBoundary"
  BY <1>3 DEF Cuts, data
<1>8. CASE Refuse(last, 401, p, ctx, file) /\ UNCHANGED <<disk, bad>>
  <2>. DEFINE r == [status |-> 401, file |-> 0]
  <2>1. last => responses' = Append(responses, r)
    BY <1>8 DEF Refuse, Respond
  <2>2. r.status # 200
    OBVIOUS
  <2>. HIDE DEF r
  <2>3. ~last => UNCHANGED <<ctx, file, responses>>
    BY <1>8 DEF Refuse, Respond, Keep
  <2>4. UNCHANGED <<disk, bad, rows, taken>>
    BY <1>8 DEF Refuse
  <2>. QED BY <2>1, <2>2, <2>3, <2>4 DEF RefusedChunk
<1>9. /\ last => p.state = "kGotAll"
      /\ ~last => p.state # "kGotAll" /\ chunk.ctx # "kComplete"
  BY <1>7 DEF Given
<1>10. ASSUME NEW lost \in BOOLEAN, NEW sz, Written(p, last, chunk, f, sz, lost),
              bad' = bad, disk'[f] = FileUpto(n)
       PROVE  (~last /\ StoredChunk(p)) \/ (last /\ StoredFile)
  <2>1. /\ taken' = taken \o p.body
        /\ last => rows' = Append(rows, [file |-> f, size |-> sz]) /\ Respond(last, 200, f)
        /\ ~last => rows' = rows /\ ctx' = chunk.ctx /\ file' = f /\ responses' = responses
    BY <1>9, <1>10, WrittenIs, ZenonT(60)
  <2>2. CASE last
    <3>1. responses' = Append(responses, [status |-> 200, file |-> f])
      BY <2>1, <2>2 DEF Respond
    <3>2. n = FileSize + 5
      BY <2>2 DEF n, End
    <3>3. f \notin bad' /\ disk'[f] = FileUpto(FileSize + 5)
      BY <1>5, <1>10, <3>2
    <3>. QED BY <2>1, <2>2, <3>1, <3>3, Zenon DEF StoredFile
  <2>3. CASE ~last
    <3>1. n = End(p, FALSE)
      BY <2>3 DEF n, End
    <3>. QED BY <1>5, <1>7, <1>10, <2>1, <2>3, <3>1 DEF StoredChunk
  <2>. QED BY <2>2, <2>3
<1>11. CASE writeData(f, files, data) /\ Written(p, last, chunk, f, more, bad' # bad)
  <2>. DEFINE lost == bad' # bad
  <2>1. lost \in BOOLEAN
    OBVIOUS
  <2>2. ~lost
    BY <1>9, <1>11, <2>1, WrittenIs
  <2>3. disk' = [files EXCEPT ![f] = @ \o data] /\ bad' = bad
    <3>1. bad \cup {f} # bad
      BY <1>5
    <3>. QED BY <1>11, <2>2, <3>1, Zenon DEF writeData
  <2>4. disk'[f] = FileUpto(n)
    <3>. DEFINE new == files[f] \o data
    <3>1. new = FileUpto(n)
      BY <1>5, <1>6, <1>7, Zenon
    <3>2. disk' = [files EXCEPT ![f] = new] /\ f \in DOMAIN files
      <4>1. DOMAIN files = 1 .. Len(files)
        BY <1>5, LenProperties
      <4>. QED BY <1>5, <2>3, <4>1
    <3>. HIDE DEF new
    <3>3. disk'[f] = new
      BY <3>2
    <3>. QED BY <3>1, <3>3
  <2>. QED BY <1>10, <1>11, <2>1, <2>3, <2>4, Zenon
<1>12. CASE ~chunk.write /\ disk' = files /\ bad' = bad /\ Written(p, last, chunk, f, size, FALSE)
  <2>1. disk'[f] = FileUpto(n)
    BY <1>5, <1>7, <1>12, Zenon
  <2>2. FALSE \in BOOLEAN
    OBVIOUS
  <2>. QED BY <1>10, <1>12, <2>1, <2>2, Zenon
<1>. QED BY <1>1, <1>8, <1>11, <1>12, Zenon

\* An operation that has failed is not forgotten.
LEMMA FaultStays ==
  ASSUME NEW p, NEW last \in BOOLEAN, handleFileUpload(p, last), faulted
  PROVE  faulted'
<1>1. \/ UNCHANGED faulted \/ faulted' = TRUE
      \/ \E chunk, f, size, lost : Written(p, last, chunk, f, size, lost)
  <2>. DEFINE fresh == ctx = "none"
              f     == IF fresh THEN Len(disk) + 1 ELSE file
              chunk == IF fresh THEN firstChunk(p.body) ELSE nextChunk(p.body)
              size  == IF fresh THEN 0 ELSE total
              more  == size + Len(chunk.data)
  <2>1. \/ UNCHANGED <<disk, bad, total, faulted>> \/ faulted' = TRUE
        \/ Written(p, last, chunk, f, more, bad' # bad)
        \/ Written(p, last, chunk, f, size, FALSE)
    BY ZenonT(60) DEF handleFileUpload
  <2>. HIDE DEF f, chunk, size, more
  <2>2. UNCHANGED <<disk, bad, total, faulted>> => UNCHANGED faulted
    OBVIOUS
  <2>. QED BY <2>1, <2>2, Zenon
<1>2. ASSUME NEW chunk, NEW f, NEW size, NEW lost, Written(p, last, chunk, f, size, lost)
      PROVE  faulted'
  <2>1. \/ \E ok \in BOOLEAN : faulted' = (faulted \/ lost \/ ~ok)
        \/ faulted' = (faulted \/ lost)
    <3>1. CASE chunk.ctx = "kComplete" \/ p.state = "kGotAll"
      <4>1. \E ok \in IF "insert" \in Faults THEN BOOLEAN ELSE {TRUE} :
              faulted' = (faulted \/ lost \/ ~ok)
        BY <1>2, <3>1, Zenon DEF Written
      <4>2. (IF "insert" \in Faults THEN BOOLEAN ELSE {TRUE}) \subseteq BOOLEAN
        OBVIOUS
      <4>. QED BY <4>1, <4>2, Zenon
    <3>2. CASE ~(chunk.ctx = "kComplete" \/ p.state = "kGotAll")
      BY <1>2, <3>2, Zenon DEF Written
    <3>. QED BY <3>1, <3>2
  <2>. QED BY <2>1, Zenon
<1>. QED BY <1>1, <1>2, Zenon

\* What the handler is given is the next piece of the body.
LEMMA PieceIs ==
  ASSUME NEW s \in Atoms, NEW b \in Atoms, NEW left \in Atoms, s \o b \o left = Body("file")
  PROVE  Piece(b, Len(s)) /\ Len(s) + Len(b) + Len(left) = FileSize + 9
<1>. DEFINE body == Body("file")
            sb == s \o b
<1>1. /\ Len(s) \in Nat /\ Len(b) \in Nat /\ Len(left) \in Nat
      /\ s \in Seq(Int) /\ b \in Seq(Int) /\ left \in Seq(Int) /\ Len(body) = FileSize + 9
  BY LenProperties, FileBodyIs DEF Atoms, FileBody
<1>2. /\ sb \in Seq(Int) /\ Len(sb) = Len(s) + Len(b)
      /\ \A i \in 1 .. Len(s) + Len(b) : sb[i] = IF i <= Len(s) THEN s[i] ELSE b[i - Len(s)]
  <2>1. s \in Seq(Int) /\ b \in Seq(Int)
    BY <1>1
  <2>. QED BY <2>1, ConcatProperties
<1>3. body = sb \o left
  OBVIOUS
<1>. HIDE DEF sb
<1>4. /\ Len(sb \o left) = Len(sb) + Len(left)
      /\ \A i \in 1 .. Len(sb) + Len(left) :
           (sb \o left)[i] = IF i <= Len(sb) THEN sb[i] ELSE left[i - Len(sb)]
  <2>1. sb \in Seq(Int) /\ left \in Seq(Int)
    BY <1>1, <1>2
  <2>. QED BY <2>1, ConcatProperties
<1>. HIDE DEF body
<1>5. Len(s) + Len(b) + Len(left) = FileSize + 9
  BY <1>1, <1>2, <1>3, <1>4
<1>6. ASSUME NEW i \in 1 .. Len(b) PROVE b[i] = body[Len(s) + i]
  <2>. DEFINE k == Len(s) + i
  <2>1. k \in 1 .. Len(s) + Len(b) /\ ~(k <= Len(s)) /\ k - Len(s) = i
    BY <1>1
  <2>2. k \in 1 .. Len(sb) + Len(left) /\ k <= Len(sb)
    BY <1>1, <1>2, <2>1
  <2>. HIDE DEF k
  <2>3. sb[k] = b[i]
    BY <1>2, <2>1
  <2>4. body[k] = sb[k]
    BY <1>3, <1>4, <2>2
  <2>. QED BY <2>3, <2>4 DEF k
<1>7. Len(s) + Len(b) <= FileSize + 9
  BY <1>1, <1>5
<1>. QED BY <1>1, <1>5, <1>6, <1>7 DEF Piece, body

\* A read of the body.
LEMMA ReadBody ==
  ASSUME IndInv, NEW n \in 1 .. Len(rest), NEW p, p = Parsed(n), Reads(n, p),
         ~p.spins, ~p.fails, p.result \in {"kHeadersComplete", "kGotRequest"}
  PROVE  /\ responses = <<>> /\ conn = "up" /\ form' = form /\ ~spinning /\ ~failed
         /\ taken \in Atoms /\ p.body \in Atoms /\ rest' \in Atoms
         /\ InBodyOf(p, rest', Body(form))
<1>. DEFINE b == buf \o SubSeq(rest, 1, n)
<1>1. /\ rest' \in Atoms /\ form' = form /\ taken \in Atoms
      /\ \/ Waiting /\ LinePart(p, b)
         \/ Waiting /\ LineRefused(p, b) /\ ~p.fails
         \/ Refused /\ LineRefused(p, b)
         \/ Waiting /\ HeaderPart(p)
         \/ responses = <<>> /\ conn = "up" /\ ~unacked /\ InBodyOf(p, rest', Body(form))
  BY ReadIs
<1>. HIDE DEF b
<1>2. responses = <<>> /\ conn = "up" /\ InBodyOf(p, rest', Body(form))
  BY <1>1 DEF LinePart, LineRefused, HeaderPart, InBodyOf
<1>3. p.body \in Atoms
  BY <1>2 DEF InBodyOf, Parses
<1>. QED BY <1>1, <1>2, <1>3 DEF Reads

-----------------------------------------------------------------------------
(* The steps keep the stored file whole.                                   *)

\* A step that leaves files, rows and answers alone.
LEMMA AnswersKept ==
  ASSUME WholeChunksStored, UNCHANGED <<form, disk, rows, responses, torn, faulted>>
  PROVE  WholeChunksStored'
BY DEF WholeChunksStored, Success

\* Without an answer there is nothing to say.
LEMMA NoAnswer == responses' = <<>> => WholeChunksStored'
<1>1. responses' = <<>> => \A i \in 1 .. Len(responses') : FALSE
  OBVIOUS
<1>. QED BY <1>1 DEF WholeChunksStored

\* All that Chunked depends on.
LEMMA ChunkedKept ==
  ASSUME Chunked, UNCHANGED <<form, torn, faulted, responses, conn, spinning, failed, rows, ctx,
                              taken, file, bad, disk>>
  PROVE  Chunked'
BY DEF Chunked, Clean

\* The parser spins, or fails.
LEMMA StuckStored ==
  ASSUME IndInv, Chunked, WholeChunksStored, NEW n \in 1 .. Len(rest), Stuck(n)
  PROVE  Chunked' /\ WholeChunksStored'
<1>. DEFINE p == Parsed(n)
<1>1. /\ p.spins \/ p.fails
      /\ Reads(n, p) /\ spinning' = p.spins /\ failed' = p.fails
      /\ UNCHANGED <<conn, fileVars, sendVars, ghostVars>>
  BY Zenon DEF Stuck
<1>. HIDE DEF p
<1>2. spinning' \/ failed'
  BY <1>1, Zenon
<1>3. UNCHANGED <<form, disk, rows, responses, torn, faulted>>
  BY <1>1 DEF Reads, fileVars, sendVars, ghostVars
<1>. QED BY <1>2, <1>3, AnswersKept DEF Chunked

\* The request line is not complete.
LEMMA NeedMoreStored ==
  ASSUME IndInv, Chunked, WholeChunksStored, NEW n \in 1 .. Len(rest), NeedMore(n)
  PROVE  Chunked' /\ WholeChunksStored'
<1>. DEFINE p == Parsed(n)
<1>1. /\ Reads(n, p) /\ UNCHANGED <<spinning, failed>>
      /\ UNCHANGED <<conn, fileVars, sendVars, ghostVars>>
  BY Zenon DEF NeedMore, Returns
<1>. HIDE DEF p
<1>2. UNCHANGED <<form, torn, faulted, responses, conn, spinning, failed, rows, ctx,
                  taken, file, bad, disk>>
  BY <1>1 DEF Reads, fileVars, sendVars, ghostVars
<1>. QED BY <1>2, AnswersKept, ChunkedKept

\* The request line is refused: the answer names no file.
LEMMA BadRequestStored ==
  ASSUME IndInv, Chunked, WholeChunksStored, NEW n \in 1 .. Len(rest), BadRequest(n)
  PROVE  Chunked' /\ WholeChunksStored'
<1>. DEFINE p == Parsed(n)
            b == buf \o SubSeq(rest, 1, n)
            r == [status |-> 400, file |-> 0]
<1>1. /\ ~p.spins /\ ~p.fails /\ p.result = "kError"
      /\ Reads(n, p)
      /\ conn = "up" => responses' = Append(responses, r)
      /\ conn # "up" => responses' = responses
      /\ UNCHANGED <<fileVars, callback, ghostVars>>
  <2>. HIDE DEF p
  <2>. QED BY DEF BadRequest, Returns, p
<1>2. /\ \/ Waiting /\ LinePart(p, b)
         \/ Waiting /\ LineRefused(p, b) /\ ~p.fails
         \/ Refused /\ LineRefused(p, b)
         \/ Waiting /\ HeaderPart(p)
         \/ responses = <<>> /\ conn = "up" /\ ~unacked /\ InBodyOf(p, rest', Body(form))
      /\ Waiting => conn = "up" /\ responses = <<>>
  BY <1>1, ReadIs
<1>. HIDE DEF p, b
<1>3. (Waiting /\ conn = "up" /\ responses = <<>>) \/ (Refused /\ conn # "up")
  BY <1>1, <1>2 DEF LinePart, LineRefused, HeaderPart, InBodyOf, Refused
<1>4. UNCHANGED <<form, disk, rows, torn, faulted>>
  BY <1>1 DEF Reads, fileVars, ghostVars
<1>5. CASE Waiting /\ conn = "up" /\ responses = <<>>
  <2>1. r.status # 200
    OBVIOUS
  <2>. HIDE DEF r
  <2>2. Len(responses') = 1 /\ responses'[1] = r
    BY <1>1, <1>5
  <2>3. responses' # <<>>
    BY <2>2
  <2>4. \A i \in 1 .. Len(responses') : responses'[i].status # 200
    BY <2>1, <2>2
  <2>. QED BY <2>3, <2>4 DEF Chunked, WholeChunksStored, Success
<1>6. CASE Refused /\ conn # "up"
  <2>1. responses' = responses
    BY <1>1, <1>6
  <2>2. responses # <<>>
    BY <1>6 DEF Refused
  <2>. QED BY <1>4, <2>1, <2>2, AnswersKept DEF Chunked
<1>. QED BY <1>3, <1>5, <1>6

\* An early chunk is added to the file, or left in the request.
LEMMA HeadersCompleteStored ==
  ASSUME IndInv, Chunked, WholeChunksStored, NEW n \in 1 .. Len(rest), HeadersComplete(n)
  PROVE  Chunked' /\ WholeChunksStored'
<1>. DEFINE p == Parsed(n)
<1>1. /\ ~p.spins /\ ~p.fails /\ p.result = "kHeadersComplete"
      /\ Reads(n, p) /\ UNCHANGED <<conn, spinning, failed>>
      /\ \/ /\ Len(p.body) >= ChunkSize /\ handleFileUpload(p, FALSE)
            /\ torn' = (torn \/ p.bodyReceived > p.contentLength - Len(EndBoundary) - 1)
         \/ UNCHANGED <<fileVars, sendVars, ghostVars>>
  <2>. HIDE DEF p
  <2>. QED BY DEF HeadersComplete, Returns, p
<1>2. /\ responses = <<>> /\ conn = "up" /\ form' = form /\ ~spinning /\ ~failed
      /\ taken \in Atoms /\ p.body \in Atoms /\ rest' \in Atoms
      /\ InBodyOf(p, rest', Body(form))
  BY <1>1, ReadBody
<1>. HIDE DEF p
<1>3. CASE UNCHANGED <<fileVars, sendVars, ghostVars>>
  <2>1. UNCHANGED <<form, torn, faulted, responses, conn, spinning, failed, rows, ctx,
                    taken, file, bad, disk>>
    BY <1>1, <1>2, <1>3 DEF fileVars, sendVars, ghostVars
  <2>. QED BY <2>1, AnswersKept, ChunkedKept
<1>4. CASE /\ Len(p.body) >= ChunkSize /\ handleFileUpload(p, FALSE)
           /\ torn' = (torn \/ p.bodyReceived > p.contentLength - Len(EndBoundary) - 1)
  <2>1. WholeChunksStored'
    <3>1. EarlyCall(p)
      BY <1>4, HandlerEffect
    <3>2. responses' = <<>>
      BY <1>2, <3>1 DEF EarlyCall
    <3>. QED BY <3>2, NoAnswer
  <2>2. ASSUME Clean' PROVE Chunked'
    <3>1. Clean /\ ~faulted' /\ ~torn' /\ form = "file"
      BY <1>2, <1>4, <2>2, FaultStays DEF Clean
    <3>2. /\ rows = <<>>
          /\ \/ ctx = "none" /\ taken = <<>>
             \/ /\ ctx = "kExpectBoundary" /\ file \notin bad
                /\ Len(taken) \in 5 .. FileSize + 5 /\ disk[file] = FileUpto(Len(taken))
      BY <1>2, <3>1 DEF Chunked
    <3>3. /\ taken \o p.body \o rest' = Body("file") /\ p.contentLength = Len(Body("file"))
          /\ p.bodyReceived = Len(taken) + Len(p.body) /\ p.state = "kExpectBody"
      BY <1>1, <1>2, <3>1 DEF InBodyOf
    <3>4. Piece(p.body, Len(taken))
      BY <1>2, <3>3, PieceIs
    <3>5. /\ Len(taken) \in Nat /\ Len(p.body) \in Nat
          /\ FileSize \in Nat /\ ChunkSize \in Nat /\ ChunkSize > 4
      BY <1>2, LenProperties, UploadAssumption DEF Atoms
    <3>6. Len(taken) + Len(p.body) \in 5 .. FileSize + 5 /\ Len(p.body) > 0
      <4>1. Len(EndBoundary) = 3
        BY DEF EndBoundary
      <4>2. Len(Body("file")) = FileSize + 9
        BY FileBodyIs DEF FileBody
      <4>3. ~(p.bodyReceived > p.contentLength - Len(EndBoundary) - 1)
        BY <1>4, <3>1, Zenon
      <4>4. ~(Len(taken) + Len(p.body) > (FileSize + 9) - 3 - 1)
        BY <3>3, <4>1, <4>2, <4>3
      <4>. QED BY <1>4, <3>5, <4>4
    <3>7. Given(p, FALSE)
      BY <3>3, <3>4, <3>6 DEF Given
    <3>8. RefusedChunk(FALSE) \/ StoredChunk(p)
      <4>1. FilesTyped
        BY DEF IndInv
      <4>2. \/ RefusedChunk(FALSE)
            \/ ~FALSE /\ StoredChunk(p)
            \/ FALSE /\ StoredFile
        BY <1>2, <1>4, <3>1, <3>2, <3>7, <4>1, HandlerStores
      <4>. QED BY <4>2
    <3>9. CASE RefusedChunk(FALSE)
      <4>1. UNCHANGED <<disk, bad, rows, taken, ctx, file>>
        BY <3>9 DEF RefusedChunk
      <4>. QED BY <3>2, <4>1 DEF Chunked
    <3>10. CASE StoredChunk(p)
      <4>1. Len(taken') = Len(taken) + Len(p.body)
        BY <1>2, <3>10, ConcatProperties DEF StoredChunk, Atoms
      <4>2. End(p, FALSE) = Len(taken')
        BY <4>1 DEF End
      <4>. QED BY <3>2, <3>6, <3>10, <4>1, <4>2 DEF StoredChunk, Chunked, FileUpto
    <3>. QED BY <3>8, <3>9, <3>10
  <2>3. ASSUME ~Clean' PROVE Chunked'
    BY <2>3 DEF Chunked
  <2>. QED BY <2>1, <2>2, <2>3
<1>. QED BY <1>1, <1>3, <1>4

\* The last chunk is added to the file, and the row and the answer name it.
LEMMA GotRequestStored ==
  ASSUME IndInv, Chunked, WholeChunksStored, NEW n \in 1 .. Len(rest), GotRequest(n)
  PROVE  Chunked' /\ WholeChunksStored'
<1>. DEFINE p == Parsed(n)
<1>1. /\ ~p.spins /\ ~p.fails /\ p.result = "kGotRequest"
      /\ Reads(n, p) /\ handleFileUpload(p, TRUE) /\ UNCHANGED torn
  <2>. HIDE DEF p
  <2>. QED BY DEF GotRequest, Returns, p
<1>2. /\ responses = <<>> /\ conn = "up" /\ form' = form /\ ~spinning /\ ~failed
      /\ taken \in Atoms /\ p.body \in Atoms /\ rest' \in Atoms
      /\ InBodyOf(p, rest', Body(form))
  BY <1>1, ReadBody
<1>. HIDE DEF p
<1>3. p.state = "kGotAll" /\ rest' = <<>> /\ taken \o p.body \o rest' = Body(form)
  BY <1>1, <1>2 DEF InBodyOf
<1>4. Chunked'
  <2>1. LastCall(p)
    BY <1>1, <1>3, HandlerEffect
  <2>2. PICK r : responses' = Append(responses, r)
    BY <1>2, <2>1 DEF LastCall
  <2>3. responses' # <<>>
    BY <1>2, <2>2
  <2>. QED BY <2>3 DEF Chunked
<1>5. ASSUME Clean' PROVE WholeChunksStored'
  <2>1. Clean /\ ~faulted' /\ form = "file"
    BY <1>1, <1>2, <1>5, FaultStays DEF Clean
  <2>2. /\ rows = <<>>
        /\ \/ ctx = "none" /\ taken = <<>>
           \/ /\ ctx = "kExpectBoundary" /\ file \notin bad
              /\ Len(taken) \in 5 .. FileSize + 5 /\ disk[file] = FileUpto(Len(taken))
    BY <1>2, <2>1 DEF Chunked
  <2>3. /\ Piece(p.body, Len(taken)) /\ Len(taken) + Len(p.body) + Len(rest') = FileSize + 9
    BY <1>2, <1>3, <2>1, PieceIs
  <2>4. Len(taken) \in Nat /\ Len(p.body) \in Nat /\ FileSize \in Nat
    BY <1>2, LenProperties, UploadAssumption DEF Atoms
  <2>5. Len(taken) + Len(p.body) = FileSize + 9 /\ Len(p.body) > 0
    <3>1. Len(rest') = 0
      BY <1>3
    <3>2. Len(taken) + Len(p.body) = FileSize + 9
      BY <2>3, <2>4, <3>1
    <3>3. Len(taken) <= FileSize + 5
      <4>1. CASE taken = <<>>
        BY <2>4, <4>1
      <4>2. CASE Len(taken) \in 5 .. FileSize + 5
        BY <2>4, <4>2
      <4>. QED BY <2>2, <4>1, <4>2
    <3>. QED BY <2>4, <3>2, <3>3
  <2>6. Given(p, TRUE)
    BY <1>3, <2>3, <2>5 DEF Given
  <2>7. RefusedChunk(TRUE) \/ StoredFile
    <3>1. FilesTyped
      BY DEF IndInv
    <3>2. \/ RefusedChunk(TRUE)
          \/ ~TRUE /\ StoredChunk(p)
          \/ TRUE /\ StoredFile
      BY <1>1, <1>2, <2>1, <2>2, <2>6, <3>1, HandlerStores
    <3>. QED BY <3>2
  <2>8. CASE RefusedChunk(TRUE)
    <3>1. PICK r : responses' = Append(responses, r) /\ r.status # 200
      BY <2>8 DEF RefusedChunk
    <3>2. Len(responses') = 1 /\ responses'[1] = r
      BY <1>2, <3>1
    <3>3. \A i \in 1 .. Len(responses') : responses'[i].status # 200
      BY <3>1, <3>2
    <3>. QED BY <3>3 DEF WholeChunksStored, Success
  <2>9. CASE StoredFile
    <3>1. PICK f, size : /\ responses' = Append(responses, [status |-> 200, file |-> f])
                         /\ rows' = Append(rows, [file |-> f, size |-> size])
                         /\ f \notin bad' /\ disk'[f] = FileUpto(FileSize + 5)
      BY <2>9, Zenon DEF StoredFile
    <3>. DEFINE row == [file |-> f, size |-> size]
                r == [status |-> 200, file |-> f]
    <3>2. row.file = f /\ row.size = size /\ r.file = f
      OBVIOUS
    <3>3. /\ responses' = Append(responses, r) /\ rows' = Append(rows, row)
          /\ f \notin bad' /\ disk'[f] = FileUpto(FileSize + 5)
      BY <3>1, Zenon
    <3>4. Append(<<>>, r) = <<r>> /\ Append(<<>>, row) = <<row>>
      <4>. HIDE DEF r, row
      <4>. QED OBVIOUS
    <3>. HIDE DEF r, row
    <3>5. Len(responses') = 1 /\ responses'[1] = r /\ rows' = <<row>>
      BY <1>2, <2>2, <3>3, <3>4
    <3>6. size = FileSize + 1
      <4>1. RowsMatchFiles'
        BY GotRequestStep DEF IndInv
      <4>2. 1 \in 1 .. Len(rows') /\ rows'[1] = row
        BY <3>5
      <4>3. rows'[1].file \notin bad' => rows'[1].size = Len(disk'[rows'[1].file])
        BY <4>1, <4>2 DEF RowsMatchFiles
      <4>4. size = Len(FileUpto(FileSize + 5))
        BY <3>2, <3>3, <4>2, <4>3
      <4>. DEFINE k == FileSize + 5
      <4>5. k \in 4 .. FileSize + 5 /\ k \in k .. FileSize + 5 /\ k - 4 = FileSize + 1
        BY <2>4
      <4>. HIDE DEF k
      <4>6. Len(FileUpto(k)) = k - 4
        BY <4>5, FileGrows
      <4>. QED BY <4>4, <4>5, <4>6 DEF k
    <3>7. disk'[f] = Content \o <<CRLF>>
      BY <3>3, WholeFile, Zenon
    <3>8. rows' = <<[file |-> f, size |-> FileSize + 1]>>
      BY <3>5, <3>6 DEF row
    <3>9. \A i \in 1 .. Len(responses') : responses'[i].file = f
      BY <3>2, <3>5
    <3>. QED BY <3>7, <3>8, <3>9, Zenon DEF WholeChunksStored
  <2>. QED BY <2>7, <2>8, <2>9
<1>6. ASSUME ~Clean' PROVE WholeChunksStored'
  BY <1>6 DEF WholeChunksStored, Clean
<1>. QED BY <1>4, <1>5, <1>6

\* The response is out, the client closes, or the session ends.
LEMMA OtherStored ==
  ASSUME IndInv, Chunked, WholeChunksStored,
         WriteComplete \/ ClientCloses \/ SessionEnds \/ UNCHANGED vars
  PROVE  Chunked' /\ WholeChunksStored'
<1>1. WholeChunksStored'
  <2>1. UNCHANGED <<form, disk, rows, responses, torn, faulted>>
    BY DEF WriteComplete, ClientCloses, SessionEnds, vars, connVars, fileVars, sendVars, ghostVars
  <2>. QED BY <2>1, AnswersKept
<1>2. CASE WriteComplete
  BY <1>1, <1>2 DEF WriteComplete, Chunked, IndInv, Progress
<1>3. CASE ClientCloses
  BY <1>1, <1>3 DEF ClientCloses, Chunked
<1>4. CASE SessionEnds \/ UNCHANGED vars
  <2>1. UNCHANGED <<form, torn, faulted, responses, conn, spinning, failed, rows, ctx,
                    taken, file, bad, disk>>
    BY <1>4 DEF SessionEnds, vars, connVars, fileVars, sendVars, ghostVars
  <2>. QED BY <1>1, <2>1, ChunkedKept
<1>. QED BY <1>2, <1>3, <1>4

\* However TCP cuts the request and whatever the size of the file, an upload that
\* handleFileUpload reports stored without a failure is on disk complete and in
\* order, and has one row with its size.
THEOREM ChunksPutTogether == Spec => []WholeChunksStored
<1>1. Init => Chunked /\ WholeChunksStored
  <2>. SUFFICES ASSUME Init PROVE Chunked /\ WholeChunksStored
    OBVIOUS
  <2>1. responses = <<>> /\ rows = <<>> /\ ctx = "none" /\ taken = <<>>
    BY DEF Init
  <2>2. \A i \in 1 .. Len(responses) : FALSE
    BY <2>1
  <2>. QED BY <2>1, <2>2 DEF Chunked, WholeChunksStored
<1>2. IndInv /\ Chunked /\ WholeChunksStored /\ [Next]_vars => Chunked' /\ WholeChunksStored'
  <2>. SUFFICES ASSUME IndInv, Chunked, WholeChunksStored, [Next]_vars
       PROVE  Chunked' /\ WholeChunksStored'
    OBVIOUS
  <2>1. CASE \E n \in 1 .. Len(rest) : onMessage(n)
    <3>1. PICK n \in 1 .. Len(rest) : onMessage(n)
      BY <2>1
    <3>. QED BY <3>1, StuckStored, NeedMoreStored, BadRequestStored, HeadersCompleteStored,
                GotRequestStored DEF onMessage
  <2>2. CASE WriteComplete \/ ClientCloses \/ SessionEnds \/ UNCHANGED vars
    BY <2>2, OtherStored
  <2>. QED BY <2>1, <2>2 DEF Next
<1>. QED BY <1>1, <1>2, Invariance, PTL DEF Spec

=============================================================================
