------------------------------ MODULE HttpProofs ------------------------------
(***************************************************************************)
(* The parser's verdict, for every stream, every buffer size and every way *)
(* recv() cuts the stream into pieces: an induction over its steps, with   *)
(* an invariant that says what is known of the part already checked.       *)
(***************************************************************************)
EXTENDS HttpParser, NumberProofs, SequenceTheorems

-----------------------------------------------------------------------------
(* The verdict, by what stands where it is decided.                        *)

Wrong(p) == Strays(p) \cup {e \in Ends(p) : e = Min(Ends(p)) /\ ~WellFormed(LineTo(p, e))}
Right(p) == {e \in Ends(p) : e # Min(Ends(p)) /\ LineTo(p, e) = <<>>}

FirstEnd(p, e) == e \in Ends(p) /\ \A d \in Ends(p) : e <= d

(* The position decides: a stray, the end of a first line that is not      *)
(* well formed, or the end of an empty line after it.                      *)
IllAt(p, k) == k \in Strays(p) \/ (FirstEnd(p, k) /\ ~WellFormed(SubSeq(p, 1, k - 2)))
EmptyAt(p, k) == k \in Ends(p) /\ k - 2 \in Ends(p)

LEMMA EndsAre ==
  ASSUME NEW p \in Seq(Symbol)
  PROVE  Ends(p) \subseteq 0..Len(p) /\ Ends(p) \subseteq Nat /\ Strays(p) \subseteq Nat
BY SMT DEF Ends, Strays

LEMMA FirstEndIs ==
  ASSUME NEW p \in Seq(Symbol), NEW e \in Ends(p)
  PROVE  e = Min(Ends(p)) <=> FirstEnd(p, e)
<1>1. Min(Ends(p)) \in Ends(p) /\ \A d \in Ends(p) : Min(Ends(p)) <= d
  BY EndsAre, MinExists
<1>2. e \in Nat /\ Min(Ends(p)) \in Nat
  BY <1>1, EndsAre
<1> QED
  BY <1>1, <1>2, SMT DEF FirstEnd

LEMMA LineToFirst ==
  ASSUME NEW p \in Seq(Symbol), NEW e, FirstEnd(p, e)
  PROVE  LineTo(p, e) = SubSeq(p, 1, e - 2)
<1>1. \A d \in Ends(p) : d \in Nat /\ e \in Nat /\ e <= d
  BY EndsAre DEF FirstEnd
<1>2. {d \in Ends(p) : d < e} \cup {0} = {0}
  BY <1>1, SMT
<1>3. Max({0}) = 0
  <2>1. {0} \in SUBSET Int /\ 0 \in {0} /\ \A y \in {0} : y <= 0
    BY SMT
  <2> DEFINE z == 0
  <2> HIDE DEF z
  <2>2. Max({z}) = z
    BY <2>1, MaxIs, Zenon DEF z
  <2> QED
    BY <2>2 DEF z
<1>4. LineTo(p, e) = SubSeq(p, 0 + 1, e - 2)
  BY <1>2, <1>3, Zenon DEF LineTo
<1> QED
  BY <1>4

LEMMA LineToLater ==
  ASSUME NEW p \in Seq(Symbol), NEW e \in Ends(p), NEW d \in Ends(p), d < e,
         \A c \in Ends(p) : c < e => c <= d
  PROVE  LineTo(p, e) = SubSeq(p, d + 1, e - 2)
<1> DEFINE S == {c \in Ends(p) : c < e} \cup {0}
<1>1. S \subseteq Int /\ d \in S /\ \A c \in S : c <= d
  BY EndsAre, SMT
<1>2. Max(S) = d
  <2> HIDE DEF S
  <2> QED
    BY <1>1, MaxIs
<1> QED
  BY <1>2 DEF LineTo

LEMMA LineToEmpty ==
  ASSUME NEW p \in Seq(Symbol), NEW e \in Ends(p), ~FirstEnd(p, e)
  PROVE  LineTo(p, e) = <<>> <=> e - 2 \in Ends(p)
<1>0. PICK c \in Ends(p) : ~(e <= c)
  BY DEF FirstEnd
<1> DEFINE S == {b \in Ends(p) : b < e}
           d == Max(S)
<1>1. Len(p) \in Nat /\ S \in SUBSET (0..Len(p)) /\ c \in S
  BY <1>0, EndsAre, SMT
<1>2. d \in S /\ \A b \in S : b <= d
  <2> HIDE DEF S
  <2> QED
    BY <1>1, MaxExists
<1>3. d \in Ends(p) /\ d < e /\ \A b \in Ends(p) : b < e => b <= d
  BY <1>2
<1> HIDE DEF d
<1>4. LineTo(p, e) = SubSeq(p, d + 1, e - 2)
  BY <1>3, LineToLater
<1>5. p \in Seq(Symbol) /\ p[e - 1] = "CR" /\ p[e] = "LF" /\ p[d] = "LF" /\ e \in Nat /\ d \in Nat
      /\ e <= Len(p) /\ d >= 2
  BY <1>3, SMT DEF Ends
<1>6. d # e - 1
  BY <1>5
<1>7. d <= e - 2
  BY <1>3, <1>5, <1>6, SMT
<1>8. e - 2 \in Ends(p) <=> d = e - 2
  <2>1. e - 2 \in Ends(p) => e - 2 <= d
    BY <1>3, <1>5, SMT
  <2> QED
    BY <2>1, <1>7, <1>3, <1>5, SMT
<1>9. SubSeq(p, d + 1, e - 2) = <<>> <=> d = e - 2
  <2>1. Len(SubSeq(p, d + 1, e - 2)) = IF d + 1 <= e - 2 THEN (e - 2) - (d + 1) + 1 ELSE 0
    BY <1>5, <1>7, SubSeqProperties, SMT
  <2>2. SubSeq(p, d + 1, e - 2) \in Seq(Symbol)
    BY <1>5, <1>7, SubSeqProperties, SMT
  <2>3. CASE d = e - 2
    BY <2>1, <2>2, <2>3, <1>5, EmptySeq, SMT
  <2>4. CASE d # e - 2
    BY <2>1, <2>4, <1>5, <1>7, SMT
  <2> QED
    BY <2>3, <2>4
<1> QED
  BY <1>4, <1>8, <1>9

LEMMA DecidedAre ==
  ASSUME NEW p \in Seq(Symbol)
  PROVE  /\ \A k : k \in Wrong(p) <=> IllAt(p, k)
         /\ \A k : k \in Right(p) <=> EmptyAt(p, k)
<1>1. \A k \in Ends(p) : k = Min(Ends(p)) <=> FirstEnd(p, k)
  BY FirstEndIs
<1>2. \A k : FirstEnd(p, k) => LineTo(p, k) = SubSeq(p, 1, k - 2)
  BY LineToFirst
<1>3. \A k : k \in Wrong(p) <=> IllAt(p, k)
  BY <1>1, <1>2 DEF Wrong, IllAt, FirstEnd
<1>4. \A k \in Ends(p) : ~FirstEnd(p, k) => (LineTo(p, k) = <<>> <=> k - 2 \in Ends(p))
  BY LineToEmpty
<1>5. \A k : FirstEnd(p, k) => k - 2 \notin Ends(p)
  BY EndsAre, SMT DEF FirstEnd
<1>6. \A k : k \in Right(p) <=> EmptyAt(p, k)
  BY <1>1, <1>4, <1>5 DEF Right, EmptyAt
<1> QED
  BY <1>3, <1>6

LEMMA VerdictIs ==
  ASSUME NEW p
  PROVE  Verdict(p) = IF Wrong(p) \cup Right(p) = {} THEN "none"
                      ELSE IF Min(Wrong(p) \cup Right(p)) \in Right(p) THEN "correct" ELSE "wrong"
BY DEF Verdict, Wrong, Right

LEMMA Undecided ==
  ASSUME NEW p \in Seq(Symbol), \A k \in Nat : ~IllAt(p, k) /\ ~EmptyAt(p, k)
  PROVE  Verdict(p) = "none"
<1>1. Wrong(p) \cup Right(p) \subseteq Nat
  BY EndsAre DEF Wrong, Right
<1>2. Wrong(p) \cup Right(p) = {}
  BY <1>1, DecidedAre
<1> QED
  BY <1>2, VerdictIs

LEMMA Decided ==
  ASSUME NEW p \in Seq(Symbol), NEW k \in Nat,
         \A j \in Nat : j < k => ~IllAt(p, j) /\ ~EmptyAt(p, j)
  PROVE  /\ IllAt(p, k) /\ ~EmptyAt(p, k) => Verdict(p) = "wrong"
         /\ EmptyAt(p, k) => Verdict(p) = "correct"
<1> DEFINE S == Wrong(p) \cup Right(p)
<1>1. S \subseteq Nat
  BY EndsAre DEF Wrong, Right
<1>2. \A j : j \in S <=> IllAt(p, j) \/ EmptyAt(p, j)
  BY DecidedAre
<1> HIDE DEF S
<1>3. \A j \in S : k <= j
  BY <1>1, <1>2, SMT
<1>4. ASSUME IllAt(p, k) \/ EmptyAt(p, k)
      PROVE  Min(S) = k /\ S # {}
  <2>1. k \in S /\ S \in SUBSET Int
    BY <1>1, <1>2, <1>4
  <2> QED
    BY <2>1, <1>3, MinIs
<1> QED
  BY <1>4, VerdictIs, DecidedAre DEF S

-----------------------------------------------------------------------------
(* The request line: what parse_requestline's scan accepts is what has the *)
(* form of a request.                                                      *)

LEMMA BlankIs ==
  ASSUME NEW s \in Seq(Symbol), NEW k \in 1..Len(s) + 1
  PROVE  /\ BlankFrom(s, k) = 0 => \A j \in k..Len(s) : s[j] # "SP"
         /\ BlankFrom(s, k) # 0 => /\ BlankFrom(s, k) \in k..Len(s)
                                   /\ s[BlankFrom(s, k)] = "SP"
                                   /\ \A j \in k..BlankFrom(s, k) - 1 : s[j] # "SP"
<1> DEFINE S == {m \in k..Len(s) : s[m] = "SP"} \cup {Len(s) + 1}
           b == Min(S)
<1>1. Len(s) \in Nat /\ S \in SUBSET Nat /\ S # {}
  BY SMT
<1>2. b \in S /\ \A j \in S : b <= j
  <2> HIDE DEF S
  <2> QED
    BY <1>1, MinExists
<1>3. BlankFrom(s, k) = b % (Len(s) + 1)
  BY DEF BlankFrom
<1>4. b \in k..Len(s) + 1 /\ (b # Len(s) + 1 => s[b] = "SP")
  BY <1>1, <1>2, SMT
<1>5. \A j \in k..Len(s) : s[j] = "SP" => b <= j
  BY <1>2
<1> HIDE DEF b
<1>6. CASE b = Len(s) + 1
  <2>1. BlankFrom(s, k) = 0
    BY <1>1, <1>3, <1>6, SMT
  <2>2. \A j \in k..Len(s) : s[j] # "SP"
    BY <1>1, <1>5, <1>6, SMT
  <2> QED
    BY <2>1, <2>2
<1>7. CASE b # Len(s) + 1
  <2>1. b \in k..Len(s) /\ b \in 0..Len(s) /\ b # 0
    BY <1>1, <1>4, <1>7, SMT
  <2>2. BlankFrom(s, k) = b
    BY <1>1, <1>3, <2>1, SMT
  <2>3. \A j \in k..b - 1 : s[j] # "SP"
    BY <1>1, <1>5, <2>1, SMT
  <2> QED
    BY <1>4, <1>7, <2>1, <2>2, <2>3
<1> QED
  BY <1>6, <1>7

LEMMA WordIs ==
  ASSUME NEW s \in Seq(Symbol), NEW k \in 1..Len(s) + 1
  PROVE  /\ WordFrom(s, k) \in k..Len(s) + 1
         /\ WordFrom(s, k) # Len(s) + 1 => s[WordFrom(s, k)] # "SP"
         /\ \A j \in k..WordFrom(s, k) - 1 : s[j] = "SP"
<1> DEFINE S == {m \in k..Len(s) : s[m] # "SP"} \cup {Len(s) + 1}
           b == Min(S)
<1>1. Len(s) \in Nat /\ S \in SUBSET Nat /\ S # {}
  BY SMT
<1>2. b \in S /\ \A j \in S : b <= j
  <2> HIDE DEF S
  <2> QED
    BY <1>1, MinExists
<1>3. WordFrom(s, k) = b
  BY DEF WordFrom
<1>4. b \in k..Len(s) + 1 /\ (b # Len(s) + 1 => s[b] # "SP")
  BY <1>1, <1>2, SMT
<1>5. \A j \in k..Len(s) : s[j] # "SP" => b <= j
  BY <1>2
<1> HIDE DEF b
<1>6. \A j \in k..b - 1 : s[j] = "SP"
  BY <1>1, <1>4, <1>5, SMT
<1> QED
  BY <1>3, <1>4, <1>6

(* GET, blanks, from u on a word that begins well, from b on blanks, and   *)
(* the version.                                                            *)
Shape(s, u, b) ==
  /\ u \in 3..Len(s) /\ b \in u + 1..Len(s) - 1
  /\ s[1] = "GET" /\ s[u] = "URL" /\ s[Len(s)] = "VERSION"
  /\ \A j \in 2..u - 1 : s[j] = "SP"
  /\ \A j \in u..b - 1 : s[j] # "SP"
  /\ \A j \in b..Len(s) - 1 : s[j] = "SP"

LEMMA OneSymbol ==
  ASSUME NEW s \in Seq(Symbol), NEW i \in 1..Len(s) + 1, NEW j \in 0..Len(s), NEW x
  PROVE  SubSeq(s, i, j) = <<x>> <=> i = j /\ s[i] = x
<1>1. Len(s) \in Nat
  OBVIOUS
<1>2. /\ Len(SubSeq(s, i, j)) = IF i <= j THEN j - i + 1 ELSE 0
      /\ \A k \in 1..j - i + 1 : SubSeq(s, i, j)[k] = s[i + k - 1]
      /\ SubSeq(s, i, j) \in Seq(Symbol)
  <2>1. \A k \in i..j : s[k] \in Symbol
    BY <1>1, LenProperties, SMT
  <2> QED
    BY <1>1, <2>1, SubSeqProperties, SMT
<1>3. ASSUME SubSeq(s, i, j) = <<x>> PROVE i = j /\ s[i] = x
  <2>1. Len(<<x>>) = 1 /\ <<x>>[1] = x
    OBVIOUS
  <2>2. i <= j /\ j - i + 1 = 1
    BY <1>1, <1>2, <1>3, <2>1, SMT
  <2>3. i = j /\ 1 \in 1..j - i + 1 /\ i + 1 - 1 = i
    BY <1>1, <2>2, SMT
  <2> QED
    BY <1>2, <1>3, <2>1, <2>3, Zenon
<1>4. ASSUME i = j, s[i] = x PROVE SubSeq(s, i, j) = <<x>>
  <2>1. i \in 1..Len(s) /\ Len(SubSeq(s, i, j)) = 1 /\ 1 \in 1..j - i + 1 /\ i + 1 - 1 = i
    BY <1>1, <1>2, <1>4, SMT
  <2>2. SubSeq(s, i, j)[1] = x /\ x \in Symbol
    BY <1>2, <1>4, <2>1, LenProperties, Zenon
  <2>3. <<x>> \in Seq(Symbol) /\ Len(<<x>>) = 1 /\ <<x>>[1] = x
    BY <2>2
  <2>4. \A k \in 1..Len(SubSeq(s, i, j)) : SubSeq(s, i, j)[k] = <<x>>[k]
    BY <2>1, <2>2, <2>3, SMT
  <2> QED
    BY <1>2, <2>1, <2>3, <2>4, SeqEqual, Zenon
<1> QED
  BY <1>3, <1>4

LEMMA ScanIs ==
  ASSUME NEW s \in Seq(Symbol)
  PROVE  GoodRequestLine(s) <=> \E u, b : Shape(s, u, b)
<1>1. Len(s) \in Nat
  OBVIOUS
<1> DEFINE method == BlankFrom(s, 1)
           url == WordFrom(s, method)
           blank == BlankFrom(s, url)
           version == WordFrom(s, blank)
<1>2. GoodRequestLine(s) <=>
        /\ method # 0 /\ SubSeq(s, 1, method - 1) = <<"GET">>
        /\ blank # 0 /\ SubSeq(s, version, Len(s)) = <<"VERSION">>
        /\ s[url] = "URL"
  BY DEF GoodRequestLine
<1>3. /\ method = 0 => \A j \in 1..Len(s) : s[j] # "SP"
      /\ method # 0 => /\ method \in 1..Len(s)
                       /\ s[method] = "SP"
                       /\ \A j \in 1..method - 1 : s[j] # "SP"
  <2> DEFINE k == 1
  <2>1. k \in 1..Len(s) + 1
    BY <1>1, SMT
  <2> HIDE DEF k
  <2>2. /\ BlankFrom(s, k) = 0 => \A j \in k..Len(s) : s[j] # "SP"
        /\ BlankFrom(s, k) # 0 => /\ BlankFrom(s, k) \in k..Len(s)
                                  /\ s[BlankFrom(s, k)] = "SP"
                                  /\ \A j \in k..BlankFrom(s, k) - 1 : s[j] # "SP"
    BY <2>1, BlankIs
  <2> QED
    BY <2>2 DEF k
<1> HIDE DEF method
<1>4. method # 0 => /\ url \in method..Len(s) + 1
                    /\ url # Len(s) + 1 => s[url] # "SP"
                    /\ \A j \in method..url - 1 : s[j] = "SP"
  <2>1. method # 0 => method \in 1..Len(s) + 1
    BY <1>1, <1>3, SMT
  <2> QED
    BY <2>1, WordIs
<1> HIDE DEF url
<1>5. method # 0 =>
        /\ blank = 0 => \A j \in url..Len(s) : s[j] # "SP"
        /\ blank # 0 => /\ blank \in url..Len(s)
                        /\ s[blank] = "SP"
                        /\ \A j \in url..blank - 1 : s[j] # "SP"
  <2>1. method # 0 => url \in 1..Len(s) + 1
    BY <1>1, <1>3, <1>4, SMT
  <2> QED
    BY <2>1, BlankIs
<1> HIDE DEF blank
<1>6. method # 0 /\ blank # 0 =>
        /\ version \in blank..Len(s) + 1
        /\ version # Len(s) + 1 => s[version] # "SP"
        /\ \A j \in blank..version - 1 : s[j] = "SP"
  <2>1. method # 0 /\ blank # 0 => blank \in 1..Len(s) + 1
    BY <1>1, <1>3, <1>4, <1>5, SMT
  <2> QED
    BY <2>1, WordIs
<1> HIDE DEF version
<1>7. ASSUME GoodRequestLine(s) PROVE \E u, b : Shape(s, u, b)
  <2>1. 1 \in 1..Len(s) + 1 /\ method - 1 \in 0..Len(s)
    BY <1>1, <1>2, <1>3, <1>7, SMT
  <2>2. 1 = method - 1 /\ s[1] = "GET"
    <3> DEFINE k == 1
               m == method - 1
    <3>1. k \in 1..Len(s) + 1 /\ m \in 0..Len(s) /\ SubSeq(s, k, m) = <<"GET">>
      BY <2>1, <1>2, <1>7
    <3> HIDE DEF k, m
    <3>2. k = m /\ s[k] = "GET"
      BY <3>1, OneSymbol
    <3> QED
      BY <3>2 DEF k, m
  <2>3. version \in 1..Len(s) + 1 /\ Len(s) \in 0..Len(s)
    BY <1>1, <1>2, <1>3, <1>4, <1>5, <1>6, <1>7, SMT
  <2>4. version = Len(s) /\ s[Len(s)] = "VERSION"
    BY <2>3, <1>2, <1>7, OneSymbol
  <2>5. method = 2 /\ url # 2 /\ url # blank /\ blank # Len(s)
    <3>1. method = 2
      BY <1>1, <2>2, <1>3, <1>2, <1>7, SMT
    <3>2. s[2] = "SP" /\ s[blank] = "SP"
      BY <3>1, <1>2, <1>3, <1>5, <1>7
    <3> QED
      BY <3>1, <3>2, <1>2, <1>7, <2>4
  <2>6. url \in 3..Len(s) /\ blank \in url + 1..Len(s) - 1
    BY <1>1, <2>5, <1>2, <1>4, <1>5, <1>7, SMT
  <2>7. \A j \in 2..url - 1 : s[j] = "SP"
    BY <2>5, <1>4
  <2> QED
    BY <1>2, <1>5, <1>6, <1>7, <2>2, <2>4, <2>5, <2>6, <2>7 DEF Shape
<1>8. ASSUME NEW u, NEW b, Shape(s, u, b) PROVE GoodRequestLine(s)
  <2>1. /\ u \in 3..Len(s) /\ b \in u + 1..Len(s) - 1
        /\ s[1] = "GET" /\ s[u] = "URL" /\ s[Len(s)] = "VERSION"
        /\ \A j \in 2..u - 1 : s[j] = "SP"
        /\ \A j \in u..b - 1 : s[j] # "SP"
        /\ \A j \in b..Len(s) - 1 : s[j] = "SP"
    BY <1>8 DEF Shape
  <2>2. s[2] = "SP" /\ 2 \in 1..Len(s)
    BY <1>1, <2>1, SMT
  <2>3. method # 0 /\ method = 2
    <3>1. method # 0 /\ method # 1
      BY <2>1, <2>2, <1>3
    <3>2. ~(2 \in 1..method - 1)
      BY <2>2, <1>3, <3>1
    <3> QED
      BY <1>1, <1>3, <3>1, <3>2, SMT
  <2>4. url = u
    <3>1. ~(url \in 2..u - 1)
      <4>1. url # Len(s) + 1 => s[url] # "SP"
        BY <1>4, <2>3
      <4> QED
        BY <1>1, <4>1, <2>1, SMT
    <3>2. ~(u \in 2..url - 1)
      BY <1>4, <2>1, <2>3
    <3> QED
      BY <1>1, <1>4, <2>1, <2>3, <3>1, <3>2, SMT
  <2>5. blank # 0 /\ blank = b
    <3>1. s[b] = "SP" /\ b \in url..Len(s)
      BY <1>1, <2>1, <2>4, SMT
    <3>2. blank # 0
      BY <3>1, <1>5, <2>3
    <3>3. ~(blank \in u..b - 1) /\ ~(b \in url..blank - 1)
      BY <3>1, <3>2, <1>5, <2>1, <2>3
    <3> QED
      BY <1>1, <3>1, <3>2, <3>3, <1>5, <2>1, <2>3, <2>4, SMT
  <2>6. version = Len(s)
    <3>1. ~(Len(s) \in blank..version - 1)
      BY <1>6, <2>1, <2>3, <2>5
    <3>2. ~(version \in b..Len(s) - 1)
      <4>1. version # Len(s) + 1 => s[version] # "SP"
        BY <1>6, <2>3, <2>5
      <4> QED
        BY <1>1, <4>1, <2>1, SMT
    <3> QED
      BY <1>1, <3>1, <3>2, <1>6, <2>1, <2>3, <2>5, SMT
  <2>7. SubSeq(s, 1, method - 1) = <<"GET">>
    <3> DEFINE k == 1
               m == method - 1
    <3>1. k \in 1..Len(s) + 1 /\ m \in 0..Len(s) /\ k = m /\ s[k] = "GET"
      BY <1>1, <2>1, <2>3, SMT
    <3> HIDE DEF k, m
    <3>2. SubSeq(s, k, m) = <<"GET">>
      BY <3>1, OneSymbol
    <3> QED
      BY <3>2 DEF k, m
  <2>8. SubSeq(s, version, Len(s)) = <<"VERSION">>
    <3>1. version \in 1..Len(s) + 1 /\ Len(s) \in 0..Len(s)
      BY <1>1, <2>1, <2>6, SMT
    <3>2. version = Len(s) /\ s[version] = "VERSION"
      BY <2>1, <2>6
    <3> QED
      BY <3>1, <3>2, OneSymbol
  <2> QED
    BY <1>2, <2>1, <2>3, <2>4, <2>5, <2>7, <2>8
<1> QED
  BY <1>7, <1>8

LEMMA BlanksAre ==
  ASSUME NEW n \in Nat
  PROVE  Sp(n) \in Seq(Symbol) /\ Len(Sp(n)) = n /\ \A j \in 1..n : Sp(n)[j] = "SP"
<1>1. Sp(n) \in [1..n -> Symbol]
  BY DEF Sp, Symbol
<1>2. Sp(n) \in Seq(Symbol)
  BY <1>1, SeqDef
<1>3. Len(Sp(n)) = n
  BY <1>1, <1>2, LenProperties, SMT
<1> QED
  BY <1>2, <1>3, SMT DEF Sp

(* u is s, of m symbols, and then t, n symbols together.                   *)
IsJoin(u, s, m, t, n) ==
  /\ u \in Seq(Symbol) /\ Len(u) = n
  /\ \A i \in 1..m : u[i] = s[i]
  /\ \A i \in m + 1..n : u[i] = t[i - m]

LEMMA Joined ==
  ASSUME NEW s \in Seq(Symbol), NEW t \in Seq(Symbol), NEW m \in Nat, NEW n \in Nat,
         Len(s) = m, Len(t) = n - m
  PROVE  IsJoin(s \o t, s, m, t, n)
<1>1. /\ s \o t \in Seq(Symbol) /\ Len(s \o t) = Len(s) + Len(t)
      /\ \A i \in 1..Len(s) + Len(t) : (s \o t)[i] = IF i <= Len(s) THEN s[i] ELSE t[i - Len(s)]
  BY ConcatProperties
<1> DEFINE u == s \o t
<1> HIDE DEF u
<1>2. Len(s) + Len(t) = n /\ m <= n
  <2>1. Len(t) \in Nat
    BY LenProperties
  <2> QED
    BY <2>1, SMT
<1>3. \A i \in 1..n : u[i] = IF i <= m THEN s[i] ELSE t[i - m]
  BY <1>1, <1>2, Zenon DEF u
<1>4. \A i \in 1..m : u[i] = s[i]
  BY <1>2, <1>3, SMT
<1>5. \A i \in m + 1..n : u[i] = t[i - m]
  BY <1>2, <1>3, SMT
<1> QED
  BY <1>1, <1>2, <1>4, <1>5, Zenon DEF u, IsJoin

(* t is the request line of s that has a blanks behind GET, and the word   *)
(* that begins there ends at m.                                            *)
IsRequest(t, s, a, m) ==
  /\ t \in Seq(Symbol) /\ Len(t) = Len(s)
  /\ t[1] = "GET" /\ t[Len(s)] = "VERSION"
  /\ \A j \in 2..a + 1 : t[j] = "SP"
  /\ \A j \in a + 2..m : t[j] = s[j]
  /\ \A j \in m + 1..Len(s) - 1 : t[j] = "SP"

LEMMA JoinedIs ==
  ASSUME NEW s \in Seq(Symbol), NEW a \in 1..Len(s), NEW m \in 3..Len(s) - 2, a + 2 <= m
  PROVE  IsRequest(<<"GET">> \o Sp(a) \o SubSeq(s, a + 2, m) \o Sp(Len(s) - 1 - m) \o <<"VERSION">>,
                   s, a, m)
<1>1. Len(s) \in Nat /\ a \in Nat /\ m \in Nat /\ Len(s) - 1 - m \in Nat
  BY SMT
<1> DEFINE get == <<"GET">>
           first == Sp(a)
           url == SubSeq(s, a + 2, m)
           r == Len(s) - 1 - m
           second == Sp(r)
           version == <<"VERSION">>
           t1 == get \o first
           t2 == t1 \o url
           t3 == t2 \o second
           t4 == t3 \o version
<1>2. get \in Seq(Symbol) /\ Len(get) = 1 /\ get[1] = "GET"
  BY DEF Symbol
<1>3. version \in Seq(Symbol) /\ Len(version) = 1 /\ version[1] = "VERSION"
  BY DEF Symbol
<1>4. first \in Seq(Symbol) /\ Len(first) = a /\ \A j \in 1..a : first[j] = "SP"
  BY <1>1, BlanksAre
<1>5. second \in Seq(Symbol) /\ Len(second) = r /\ \A j \in 1..r : second[j] = "SP"
  BY <1>1, BlanksAre
<1>6. url \in Seq(Symbol) /\ Len(url) = m - a - 1 /\ \A j \in 1..m - a - 1 : url[j] = s[j + a + 1]
  <2>1. \A k \in a + 2..m : s[k] \in Symbol
    BY <1>1, LenProperties, SMT
  <2>2. /\ SubSeq(s, a + 2, m) \in Seq(Symbol)
        /\ Len(SubSeq(s, a + 2, m)) = IF a + 2 <= m THEN m - (a + 2) + 1 ELSE 0
        /\ \A i \in 1..m - (a + 2) + 1 : SubSeq(s, a + 2, m)[i] = s[(a + 2) + i - 1]
    BY <1>1, <2>1, SubSeqProperties, SMT
  <2> QED
    BY <1>1, <2>2, SMT
<1> HIDE DEF get, version, url, first, second
<1> DEFINE n1 == 1
           n2 == 1 + a
           n4 == Len(s) - 1
           n5 == Len(s)
<1>0. /\ n1 \in Nat /\ n2 \in Nat /\ m \in Nat /\ n4 \in Nat /\ n5 \in Nat
      /\ a = n2 - n1 /\ m - a - 1 = m - n2 /\ r = n4 - m /\ 1 = n5 - n4
  BY <1>1, SMT
<1> HIDE DEF n1, n2, n4, n5, r
<1>7. /\ t1 \in Seq(Symbol) /\ Len(t1) = n2
      /\ \A i \in 1..n1 : t1[i] = get[i]
      /\ \A i \in n1 + 1..n2 : t1[i] = first[i - n1]
  <2>1. /\ get \in Seq(Symbol) /\ first \in Seq(Symbol) /\ n1 \in Nat /\ n2 \in Nat
        /\ Len(get) = n1 /\ Len(first) = n2 - n1
    BY <1>0, <1>2, <1>4 DEF n1
  <2>2. IsJoin(get \o first, get, n1, first, n2)
    BY <2>1, Joined
  <2> QED
    BY <2>2 DEF IsJoin
<1> HIDE DEF t1
<1>8. /\ t2 \in Seq(Symbol) /\ Len(t2) = m
      /\ \A i \in 1..n2 : t2[i] = t1[i]
      /\ \A i \in n2 + 1..m : t2[i] = url[i - n2]
  <2>1. /\ t1 \in Seq(Symbol) /\ url \in Seq(Symbol) /\ n2 \in Nat /\ m \in Nat
        /\ Len(t1) = n2 /\ Len(url) = m - n2
    BY <1>0, <1>6, <1>7
  <2>2. IsJoin(t1 \o url, t1, n2, url, m)
    BY <2>1, Joined
  <2> QED
    BY <2>2 DEF IsJoin
<1> HIDE DEF t2
<1>9. /\ t3 \in Seq(Symbol) /\ Len(t3) = n4
      /\ \A i \in 1..m : t3[i] = t2[i]
      /\ \A i \in m + 1..n4 : t3[i] = second[i - m]
  <2>1. /\ t2 \in Seq(Symbol) /\ second \in Seq(Symbol) /\ m \in Nat /\ n4 \in Nat
        /\ Len(t2) = m /\ Len(second) = n4 - m
    BY <1>0, <1>5, <1>8
  <2>2. IsJoin(t2 \o second, t2, m, second, n4)
    BY <2>1, Joined
  <2> QED
    BY <2>2 DEF IsJoin
<1> HIDE DEF t3
<1>10. /\ t4 \in Seq(Symbol) /\ Len(t4) = n5
       /\ \A i \in 1..n4 : t4[i] = t3[i]
       /\ \A i \in n4 + 1..n5 : t4[i] = version[i - n4]
  <2>1. /\ t3 \in Seq(Symbol) /\ version \in Seq(Symbol) /\ n4 \in Nat /\ n5 \in Nat
        /\ Len(t3) = n4 /\ Len(version) = n5 - n4
    BY <1>0, <1>3, <1>9
  <2>2. IsJoin(t3 \o version, t3, n4, version, n5)
    BY <2>1, Joined
  <2> QED
    BY <2>2 DEF IsJoin
<1> HIDE DEF t4
<1>11. /\ 1 \in 1..n1 /\ 1 \in 1..n2 /\ 1 \in 1..m /\ 1 \in 1..n4
       /\ \A i \in 2..a + 1 : i \in n1 + 1..n2 /\ i \in 1..n2 /\ i \in 1..m /\ i \in 1..n4
                              /\ i - n1 \in 1..a
       /\ \A i \in a + 2..m : i \in n2 + 1..m /\ i \in 1..m /\ i \in 1..n4
                              /\ i - n2 \in 1..m - a - 1 /\ (i - n2) + a + 1 = i
       /\ \A i \in m + 1..Len(s) - 1 : i \in m + 1..n4 /\ i \in 1..n4 /\ i - m \in 1..r
       /\ Len(s) \in n4 + 1..n5 /\ Len(s) - n4 = 1
  BY <1>1, SMT DEF n1, n2, n4, n5, r
<1>16. t4[1] = "GET"
  <2>1. t4[1] = t3[1] /\ t3[1] = t2[1] /\ t2[1] = t1[1] /\ t1[1] = get[1]
    BY <1>7, <1>8, <1>9, <1>10, <1>11
  <2> QED
    BY <1>2, <2>1
<1>17. t4[Len(s)] = "VERSION"
  <2>1. t4[Len(s)] = version[Len(s) - n4]
    BY <1>10, <1>11
  <2> QED
    BY <1>3, <1>11, <2>1
<1>18. \A j \in 2..a + 1 : t4[j] = "SP"
  <2> TAKE j \in 2..a + 1
  <2>1. /\ j \in n1 + 1..n2 /\ j \in 1..n2 /\ j \in 1..m /\ j \in 1..n4 /\ j - n1 \in 1..a
    BY <1>11
  <2>2. t4[j] = t3[j] /\ t3[j] = t2[j] /\ t2[j] = t1[j] /\ t1[j] = first[j - n1]
    BY <1>7, <1>8, <1>9, <1>10, <2>1
  <2> QED
    BY <1>4, <2>1, <2>2
<1>19. \A j \in a + 2..m : t4[j] = s[j]
  <2> TAKE j \in a + 2..m
  <2>1. /\ j \in n2 + 1..m /\ j \in 1..m /\ j \in 1..n4
        /\ j - n2 \in 1..m - a - 1 /\ (j - n2) + a + 1 = j
    BY <1>11
  <2>2. t4[j] = t3[j] /\ t3[j] = t2[j] /\ t2[j] = url[j - n2]
    BY <1>8, <1>9, <1>10, <2>1
  <2>3. url[j - n2] = s[(j - n2) + a + 1]
    BY <1>6, <2>1
  <2>4. s[(j - n2) + a + 1] = s[j]
    BY <2>1, Zenon
  <2> QED
    BY <2>2, <2>3, <2>4, Zenon
<1>20. \A j \in m + 1..Len(s) - 1 : t4[j] = "SP"
  <2> TAKE j \in m + 1..Len(s) - 1
  <2>1. j \in m + 1..n4 /\ j \in 1..n4 /\ j - m \in 1..r
    BY <1>11
  <2>2. t4[j] = t3[j] /\ t3[j] = second[j - m]
    BY <1>9, <1>10, <2>1
  <2> QED
    BY <1>5, <2>1, <2>2
<1>21. t4 = <<"GET">> \o Sp(a) \o SubSeq(s, a + 2, m) \o Sp(Len(s) - 1 - m) \o <<"VERSION">>
  BY DEF t4, t3, t2, t1, get, version, url, first, second, r
<1>22. Len(t4) = Len(s)
  BY <1>10 DEF n5
<1> QED
  BY <1>10, <1>16, <1>17, <1>18, <1>19, <1>20, <1>21, <1>22, Zenon DEF IsRequest

LEMMA FormIs ==
  ASSUME NEW s \in Seq(Symbol)
  PROVE  WellFormed(s) <=> \E u, b : Shape(s, u, b)
<1>1. Len(s) \in Nat /\ DOMAIN s = 1..Len(s) /\ \A k \in 1..Len(s) : s[k] \in Symbol
  BY LenProperties
<1> DEFINE Url(a, m) == SubSeq(s, a + 2, m)
           T(a, m) == <<"GET">> \o Sp(a) \o Url(a, m) \o Sp(Len(s) - 1 - m) \o <<"VERSION">>
<1>2. WellFormed(s) <=>
        \E a \in 1..Len(s), m \in 3..Len(s) - 2 :
           /\ s = T(a, m)
           /\ Url(a, m) # <<>> /\ Url(a, m)[1] = "URL"
           /\ "SP" \notin {Url(a, m)[k] : k \in DOMAIN Url(a, m)}
  BY DEF WellFormed
<1>3. ASSUME NEW a \in 1..Len(s), NEW m \in 3..Len(s) - 2, a + 2 <= m
      PROVE  /\ Url(a, m) \in Seq(Symbol) /\ Len(Url(a, m)) = m - a - 1
             /\ DOMAIN Url(a, m) = 1..m - a - 1
             /\ \A j \in 1..m - a - 1 : Url(a, m)[j] = s[j + a + 1]
  <2>1. a + 2 \in Int /\ m \in Int /\ \A k \in a + 2..m : s[k] \in Symbol
    BY <1>1, <1>3, SMT
  <2>2. /\ SubSeq(s, a + 2, m) \in Seq(Symbol)
        /\ Len(SubSeq(s, a + 2, m)) = IF a + 2 <= m THEN m - (a + 2) + 1 ELSE 0
        /\ \A i \in 1..m - (a + 2) + 1 : SubSeq(s, a + 2, m)[i] = s[(a + 2) + i - 1]
    BY <2>1, SubSeqProperties
  <2>3. Len(SubSeq(s, a + 2, m)) = m - a - 1 /\ m - (a + 2) + 1 = m - a - 1
    BY <1>1, <1>3, <2>2, SMT
  <2>4. \A i \in 1..m - a - 1 : (a + 2) + i - 1 = i + a + 1
    BY <1>1, <1>3, SMT
  <2> QED
    BY <2>2, <2>3, <2>4, LenProperties
<1>4. ASSUME NEW a \in 1..Len(s), NEW m \in 3..Len(s) - 2, ~(a + 2 <= m)
      PROVE  Url(a, m) = <<>>
  BY <1>4, SubSeqEmpty, SMT
<1>5. ASSUME NEW a \in 1..Len(s), NEW m \in 3..Len(s) - 2, a + 2 <= m
      PROVE  /\ T(a, m) \in Seq(Symbol) /\ Len(T(a, m)) = Len(s)
             /\ T(a, m)[1] = "GET" /\ T(a, m)[Len(s)] = "VERSION"
             /\ \A j \in 2..a + 1 : T(a, m)[j] = "SP"
             /\ \A j \in a + 2..m : T(a, m)[j] = s[j]
             /\ \A j \in m + 1..Len(s) - 1 : T(a, m)[j] = "SP"
  <2>1. IsRequest(<<"GET">> \o Sp(a) \o SubSeq(s, a + 2, m) \o Sp(Len(s) - 1 - m) \o <<"VERSION">>,
                  s, a, m)
    BY <1>5, JoinedIs
  <2>2. IsRequest(T(a, m), s, a, m)
    BY <2>1
  <2> HIDE DEF T
  <2> QED
    BY <2>2 DEF IsRequest
<1> HIDE DEF T, Url
<1>6. ASSUME WellFormed(s) PROVE \E u, b : Shape(s, u, b)
  <2>1. PICK a \in 1..Len(s), m \in 3..Len(s) - 2 :
           /\ s = T(a, m)
           /\ Url(a, m) # <<>> /\ Url(a, m)[1] = "URL"
           /\ "SP" \notin {Url(a, m)[k] : k \in DOMAIN Url(a, m)}
    BY <1>2, <1>6
  <2>2. a + 2 <= m
    BY <2>1, <1>4
  <2>3. /\ DOMAIN Url(a, m) = 1..m - a - 1
        /\ \A j \in 1..m - a - 1 : Url(a, m)[j] = s[j + a + 1]
    BY <2>2, <1>3
  <2>4. s[a + 2] = "URL"
    <3>1. 1 \in 1..m - a - 1 /\ 1 + a + 1 = a + 2
      BY <1>1, <2>2, SMT
    <3> QED
      BY <3>1, <2>1, <2>3, Zenon
  <2>5. \A j \in a + 2..m : s[j] # "SP"
    <3> TAKE j \in a + 2..m
    <3>1. j - a - 1 \in 1..m - a - 1 /\ (j - a - 1) + a + 1 = j
      BY <1>1, SMT
    <3> QED
      BY <3>1, <2>1, <2>3, ZenonT(60)
  <2>6. /\ s[1] = "GET" /\ s[Len(s)] = "VERSION"
        /\ \A j \in 2..a + 1 : s[j] = "SP"
        /\ \A j \in m + 1..Len(s) - 1 : s[j] = "SP"
    BY <2>1, <2>2, <1>5
  <2>7. /\ a + 2 \in 3..Len(s) /\ m + 1 \in a + 2 + 1..Len(s) - 1
        /\ (a + 2) - 1 = a + 1 /\ (m + 1) - 1 = m
    BY <1>1, <2>2, SMT
  <2>8. Shape(s, a + 2, m + 1)
    BY <2>4, <2>5, <2>6, <2>7, Zenon DEF Shape
  <2> QED
    BY <2>8
<1>7. ASSUME NEW u, NEW b, Shape(s, u, b) PROVE WellFormed(s)
  <2>1. /\ u \in 3..Len(s) /\ b \in u + 1..Len(s) - 1
        /\ s[1] = "GET" /\ s[u] = "URL" /\ s[Len(s)] = "VERSION"
        /\ \A j \in 2..u - 1 : s[j] = "SP"
        /\ \A j \in u..b - 1 : s[j] # "SP"
        /\ \A j \in b..Len(s) - 1 : s[j] = "SP"
    BY <1>7 DEF Shape
  <2> DEFINE a == u - 2
             m == b - 1
  <2>2. /\ a \in 1..Len(s) /\ m \in 3..Len(s) - 2 /\ a + 2 <= m
        /\ a + 1 = u - 1 /\ a + 2 = u /\ m + 1 = b /\ m - a - 1 >= 1
    BY <1>1, <2>1, SMT
  <2> HIDE DEF a, m
  <2>3. s = T(a, m)
    <3>1. \A j \in 1..Len(s) : s[j] = T(a, m)[j]
      <4> TAKE j \in 1..Len(s)
      <4>1. u \in 3..Len(s) /\ b \in u + 1..Len(s) - 1 /\ m + 1 = b /\ m \in Int
        BY <2>1, <2>2
      <4>2. j = 1 \/ j = Len(s) \/ j \in 2..u - 1 \/ j \in u..m \/ j \in b..Len(s) - 1
        <5> DEFINE n == Len(s)
        <5>1. /\ n \in Nat /\ j \in 1..n /\ u \in 3..n /\ b \in u + 1..n - 1
              /\ m + 1 = b /\ m \in Int
          BY <1>1, <4>1
        <5> HIDE DEF n
        <5>2. j = 1 \/ j = n \/ j \in 2..u - 1 \/ j \in u..m \/ j \in b..n - 1
          BY <5>1, SMT
        <5> QED
          BY <5>2 DEF n
      <4>3. /\ T(a, m)[1] = "GET" /\ T(a, m)[Len(s)] = "VERSION"
            /\ \A i \in 2..a + 1 : T(a, m)[i] = "SP"
            /\ \A i \in a + 2..m : T(a, m)[i] = s[i]
            /\ \A i \in m + 1..Len(s) - 1 : T(a, m)[i] = "SP"
        BY <2>2, <1>5, ZenonT(60)
      <4>4. a + 1 = u - 1 /\ a + 2 = u /\ m + 1 = b
        BY <2>2
      <4>5. /\ \A i \in 2..u - 1 : T(a, m)[i] = "SP"
            /\ \A i \in u..m : T(a, m)[i] = s[i]
            /\ \A i \in b..Len(s) - 1 : T(a, m)[i] = "SP"
        BY <4>3, <4>4, Zenon
      <4> QED
        BY <4>2, <4>3, <4>5, <2>1, Zenon
    <3> QED
      BY <3>1, <2>2, <1>5, SeqEqual
  <2>4. /\ Url(a, m) \in Seq(Symbol) /\ Len(Url(a, m)) = m - a - 1
        /\ DOMAIN Url(a, m) = 1..m - a - 1
        /\ \A j \in 1..m - a - 1 : Url(a, m)[j] = s[j + a + 1]
    BY <2>2, <1>3
  <2>5. Url(a, m) # <<>>
    BY <1>1, <2>2, <2>4, EmptySeq, SMT
  <2>6. Url(a, m)[1] = "URL"
    <3>1. 1 \in 1..m - a - 1 /\ 1 + a + 1 = u
      BY <1>1, <2>1, <2>2, SMT
    <3> QED
      BY <3>1, <2>1, <2>4, Zenon
  <2>7. "SP" \notin {Url(a, m)[k] : k \in DOMAIN Url(a, m)}
    <3>1. \A k \in 1..m - a - 1 : k + a + 1 \in u..b - 1
      BY <1>1, <2>1, <2>2, SMT
    <3> QED
      BY <3>1, <2>1, <2>4
  <2> QED
    BY <1>2, <2>2, <2>3, <2>5, <2>6, <2>7, Zenon
<1> QED
  BY <1>6, <1>7

(* parse_requestline accepts what has the form of a request line.          *)
LEMMA RequestLineIs ==
  ASSUME NEW s \in Seq(Symbol)
  PROVE  GoodRequestLine(s) <=> WellFormed(s)
BY ScanIs, FormIs

-----------------------------------------------------------------------------
(* A prefix of a stream decides where the stream does.                     *)

LEMMA PrefixIs ==
  ASSUME NEW s \in Seq(Symbol), NEW n \in 0..Len(s)
  PROVE  /\ SubSeq(s, 1, n) \in Seq(Symbol) /\ Len(SubSeq(s, 1, n)) = n
         /\ \A k \in 1..n : SubSeq(s, 1, n)[k] = s[k]
<1>1. Len(s) \in Nat /\ n \in Nat
  OBVIOUS
<1>2. 1 \in Int /\ n \in Int /\ \A i \in 1..n : s[i] \in Symbol
  BY <1>1, LenProperties, SMT
<1>3. /\ SubSeq(s, 1, n) \in Seq(Symbol)
      /\ Len(SubSeq(s, 1, n)) = IF 1 <= n THEN n - 1 + 1 ELSE 0
      /\ \A i \in 1..n - 1 + 1 : SubSeq(s, 1, n)[i] = s[1 + i - 1]
  <2> DEFINE one == 1
  <2>1. one \in Int /\ \A i \in one..n : s[i] \in Symbol
    BY <1>2
  <2> HIDE DEF one
  <2>2. /\ SubSeq(s, one, n) \in Seq(Symbol)
        /\ Len(SubSeq(s, one, n)) = IF one <= n THEN n - one + 1 ELSE 0
        /\ \A i \in 1..n - one + 1 : SubSeq(s, one, n)[i] = s[one + i - 1]
    BY <1>2, <2>1, SubSeqProperties
  <2> QED
    BY <2>2 DEF one
<1>4. n - 1 + 1 = n /\ (IF 1 <= n THEN n - 1 + 1 ELSE 0) = n /\ \A i \in 1..n : 1 + i - 1 = i
  BY <1>1, SMT
<1> QED
  BY <1>3, <1>4

LEMMA PrefixDecides ==
  ASSUME NEW s \in Seq(Symbol), NEW n \in 0..Len(s), NEW p, p = SubSeq(s, 1, n)
  PROVE  /\ \A k : k \in Ends(p) <=> k \in Ends(s) /\ k <= n
         /\ \A k : k \in Strays(p) <=> k \in Strays(s) /\ k <= n /\ ~(k = n /\ s[k] = "CR")
<1>1. /\ p \in Seq(Symbol) /\ Len(p) = n /\ n \in Nat /\ Len(s) \in Nat /\ n <= Len(s)
      /\ \A k \in 1..n : p[k] = s[k]
  BY PrefixIs
<1>2. ASSUME NEW k PROVE k \in Ends(p) <=> k \in Ends(s) /\ k <= n
  <2>1. k \in 2..n <=> k \in 2..Len(s) /\ k <= n
    BY <1>1, SMT
  <2>2. k \in 2..n => k - 1 \in 1..n /\ k \in 1..n
    BY <1>1, SMT
  <2>3. k \in 2..n => p[k] = s[k] /\ p[k - 1] = s[k - 1]
    BY <1>1, <2>2
  <2> QED
    BY <1>1, <2>1, <2>3 DEF Ends
<1>3. ASSUME NEW k
      PROVE  k \in Strays(p) <=> k \in Strays(s) /\ k <= n /\ ~(k = n /\ s[k] = "CR")
  <2>1. k \in 1..n <=> k \in 1..Len(s) /\ k <= n
    BY <1>1, SMT
  <2>2. CASE k \notin 1..n
    BY <1>1, <2>1, <2>2 DEF Strays
  <2>3. CASE k \in 1..n
    <3>1. p[k] = s[k]
      BY <1>1, <2>3
    <3>2. k < n => p[k + 1] = s[k + 1]
      <4>1. k < n => k + 1 \in 1..n
        BY <1>1, <2>3, SMT
      <4> QED
        BY <1>1, <4>1
    <3>3. k - 1 \in {m \in 1..Len(p) : p[m] = "CR"} <=> k - 1 \in {m \in 1..Len(s) : s[m] = "CR"}
      <4>1. k - 1 \in 1..n <=> k - 1 \in 1..Len(s)
        BY <1>1, <2>3, SMT
      <4> QED
        BY <1>1, <4>1
    <3>4. (k < n <=> k < Len(s) /\ k # n) /\ k <= n
      BY <1>1, <2>3, SMT
    <3>5. k \in Strays(p) <=>
             \/ s[k] = "CR" /\ k < n /\ p[k + 1] # "LF"
             \/ s[k] = "LF" /\ k - 1 \notin {m \in 1..Len(s) : s[m] = "CR"}
      BY <1>1, <2>3, <3>1, <3>3 DEF Strays
    <3>6. k \in Strays(s) <=>
             \/ s[k] = "CR" /\ k < Len(s) /\ s[k + 1] # "LF"
             \/ s[k] = "LF" /\ k - 1 \notin {m \in 1..Len(s) : s[m] = "CR"}
      BY <2>1, <2>3 DEF Strays
    <3> QED
      BY <3>2, <3>4, <3>5, <3>6
  <2> QED
    BY <2>2, <2>3
<1> QED
  BY <1>2, <1>3

LEMMA PrefixPoint ==
  ASSUME NEW s \in Seq(Symbol), NEW n \in 0..Len(s), NEW k \in Nat
  PROVE  LET p == SubSeq(s, 1, n)
         IN /\ IllAt(p, k) => k <= n /\ IllAt(s, k)
            /\ EmptyAt(p, k) <=> k <= n /\ EmptyAt(s, k)
            /\ k <= n /\ ~(k = n /\ s[k] = "CR") /\ IllAt(s, k) => IllAt(p, k)
<1> DEFINE p == SubSeq(s, 1, n)
<1>1. /\ \A j : j \in Ends(p) <=> j \in Ends(s) /\ j <= n
      /\ \A j : j \in Strays(p) <=> j \in Strays(s) /\ j <= n /\ ~(j = n /\ s[j] = "CR")
  BY PrefixDecides
<1>2. Len(s) \in Nat /\ n \in Nat /\ Ends(s) \subseteq Nat
  BY EndsAre
<1>3. p \in Seq(Symbol)
  BY PrefixIs
<1>4. k \in Ends(s) /\ k <= n => SubSeq(p, 1, k - 2) = SubSeq(s, 1, k - 2)
  <2> SUFFICES ASSUME k \in Ends(s), k <= n PROVE SubSeq(p, 1, k - 2) = SubSeq(s, 1, k - 2)
    OBVIOUS
  <2> DEFINE m == k - 2
  <2>1. m \in 0..Len(s) /\ m \in 0..n /\ m <= n /\ Len(p) = n
    BY <1>2, PrefixIs, SMT DEF Ends
  <2>2. m \in 0..Len(p)
    BY <2>1
  <2> HIDE DEF m, p
  <2>3. /\ SubSeq(s, 1, m) \in Seq(Symbol) /\ Len(SubSeq(s, 1, m)) = m
        /\ \A j \in 1..m : SubSeq(s, 1, m)[j] = s[j]
    BY <2>1, PrefixIs
  <2>4. /\ SubSeq(p, 1, m) \in Seq(Symbol) /\ Len(SubSeq(p, 1, m)) = m
        /\ \A j \in 1..m : SubSeq(p, 1, m)[j] = p[j]
    BY <1>3, <2>2, PrefixIs
  <2>5. \A j \in 1..m : p[j] = s[j]
    <3>1. \A j \in 1..n : p[j] = s[j]
      BY PrefixIs DEF p
    <3>2. 1..m \subseteq 1..n
      BY <2>1, <1>2, SMT
    <3> QED
      BY <3>1, <3>2
  <2>6. \A j \in 1..Len(SubSeq(p, 1, m)) : SubSeq(p, 1, m)[j] = SubSeq(s, 1, m)[j]
    BY <2>3, <2>4, <2>5
  <2>7. SubSeq(p, 1, m) = SubSeq(s, 1, m)
    BY <2>3, <2>4, <2>6, SeqEqual
  <2> QED
    BY <2>7 DEF m
<1>5. k <= n => (FirstEnd(p, k) <=> FirstEnd(s, k))
  <2>1. \A j \in Ends(s) : j \in Nat
    BY <1>2
  <2>2. ASSUME k <= n, FirstEnd(p, k) PROVE FirstEnd(s, k)
    <3>1. k \in Ends(s) /\ \A j \in Ends(s) : j <= n => k <= j
      BY <1>1, <2>2 DEF FirstEnd
    <3>2. \A j \in Ends(s) : k <= j
      BY <3>1, <2>1, <2>2, <1>2, SMT
    <3> QED
      BY <3>1, <3>2 DEF FirstEnd
  <2>3. ASSUME k <= n, FirstEnd(s, k) PROVE FirstEnd(p, k)
    BY <1>1, <2>3 DEF FirstEnd
  <2> QED
    BY <2>2, <2>3
<1>6. FirstEnd(p, k) => k \in Ends(s) /\ k <= n
  BY <1>1 DEF FirstEnd
<1>7. FirstEnd(s, k) => k \in Ends(s)
  BY DEF FirstEnd
<1>8. IllAt(p, k) => k <= n /\ IllAt(s, k)
  BY <1>1, <1>4, <1>5, <1>6 DEF IllAt
<1>9. EmptyAt(p, k) <=> k <= n /\ EmptyAt(s, k)
  <2>1. k <= n => k - 2 <= n
    BY <1>2, SMT
  <2> QED
    BY <1>1, <2>1 DEF EmptyAt
<1>10. k <= n /\ ~(k = n /\ s[k] = "CR") /\ IllAt(s, k) => IllAt(p, k)
  BY <1>1, <1>4, <1>5, <1>7 DEF IllAt
<1> QED
  BY <1>8, <1>9, <1>10

LEMMA PlainOpen ==
  ASSUME NEW s \in Seq(Symbol), NEW k \in 1..Len(s), s[k] \notin {"CR", "LF"}
  PROVE  ~IllAt(s, k) /\ ~EmptyAt(s, k) /\ k \notin Ends(s)
BY DEF IllAt, EmptyAt, FirstEnd, Ends, Strays
-----------------------------------------------------------------------------
(* The invariant.                                                          *)

(* The line being collected, and what is behind it, is as it was sent.     *)
Kept == \A k \in start_line..read_index - 1 : buffer[k] = stream[k + 1]

(* A CR or an LF is never passed over inside a line.                       *)
NonePassed == \A k \in start_line + 1..checked_index : stream[k] \notin {"CR", "LF"}

(* A line other than the first starts behind CR LF, of which zeros are     *)
(* left in the buffer.                                                     *)
Started ==
  /\ start_line # 0 => /\ start_line \in Ends(stream)
                       /\ buffer[start_line - 1] = "NUL"
  /\ reply = "none" => (checkstate = "REQUESTLINE" <=> start_line = 0)

(* recv() is called when all is checked, but for a CR at the end.          *)
Resting ==
  reply = "none" /\ ~parsing =>
    checked_index = read_index \/ (checked_index = read_index - 1 /\ stream[read_index] = "CR")

(* Nothing that has been checked decides.                                  *)
StillOpen ==
  reply = "none" => \A k \in 1..checked_index : ~IllAt(stream, k) /\ ~EmptyAt(stream, k)

HttpInv ==
  /\ TypeOK /\ IndicesOrdered /\ Kept /\ NonePassed /\ Started /\ Resting /\ StillOpen
  /\ reply # "none" => SameVerdict /\ ~parsing

LEMMA Facts ==
  ASSUME HttpInv
  PROVE  /\ stream \in Seq(Symbol) /\ Len(stream) \in Nat /\ BufferSize \in Nat
         /\ start_line \in Nat /\ checked_index \in Nat /\ read_index \in Nat
         /\ start_line <= checked_index /\ checked_index <= read_index
         /\ read_index <= BufferSize /\ read_index <= Len(stream)
<1>1. stream \in Seq(Symbol) /\ BufferSize \in Nat
  BY HttpAssumption DEF HttpInv, TypeOK
<1>2. /\ start_line \in 0..BufferSize /\ checked_index \in 0..BufferSize /\ read_index \in 0..BufferSize
  BY DEF HttpInv, TypeOK
<1>3. Len(stream) \in Nat
  BY <1>1, LenProperties
<1>4. IndicesOrdered
  BY DEF HttpInv
<1> QED
  BY <1>1, <1>2, <1>3, <1>4, SMT DEF IndicesOrdered

(* Where parse_line stops.                                                 *)
LEMMA Scanned ==
  ASSUME HttpInv, Breaks # {}
  PROVE  /\ Break \in checked_index..read_index - 1
         /\ buffer[Break] = stream[Break + 1] /\ stream[Break + 1] \in {"CR", "LF"}
         /\ \A k \in start_line + 1..Break : stream[k] \notin {"CR", "LF"}
<1>1. Breaks \in SUBSET Nat
  BY Facts, SMT DEF Breaks
<1>2. Break \in Breaks /\ \A k \in Breaks : Break <= k
  BY <1>1, MinExists DEF Break
<1>3. Break \in checked_index..read_index - 1 /\ buffer[Break] \in {"CR", "LF"}
  BY <1>2 DEF Breaks
<1>4. \A k \in start_line..read_index - 1 : buffer[k] = stream[k + 1]
  BY DEF HttpInv, Kept
<1>5. Break \in start_line..read_index - 1
  BY <1>3, Facts, SMT
<1>6. \A k \in start_line + 1..Break : stream[k] \notin {"CR", "LF"}
  <2> TAKE k \in start_line + 1..Break
  <2>1. CASE k <= checked_index
    <3>1. k \in start_line + 1..checked_index
      BY <2>1, <1>3, Facts, SMT
    <3> QED
      BY <3>1 DEF HttpInv, NonePassed
  <2>2. CASE ~(k <= checked_index)
    <3>1. k - 1 \in checked_index..read_index - 1 /\ ~(Break <= k - 1) /\ k - 1 + 1 = k
          /\ k - 1 \in start_line..read_index - 1
      BY <2>2, <1>3, Facts, SMT
    <3>2. k - 1 \notin Breaks
      BY <1>2, <3>1
    <3>3. buffer[k - 1] \notin {"CR", "LF"}
      BY <3>1, <3>2 DEF Breaks
    <3>4. buffer[k - 1] = stream[k]
      BY <1>4, <3>1, Zenon
    <3> QED
      BY <3>3, <3>4
  <2> QED
    BY <2>1, <2>2
<1> QED
  BY <1>3, <1>4, <1>5, <1>6

LEMMA NoBreaks ==
  ASSUME HttpInv, Breaks = {}
  PROVE  \A k \in start_line + 1..read_index : stream[k] \notin {"CR", "LF"}
<1> TAKE k \in start_line + 1..read_index
<1>1. CASE k <= checked_index
  <2>1. k \in start_line + 1..checked_index
    BY <1>1, Facts, SMT
  <2> QED
    BY <2>1 DEF HttpInv, NonePassed
<1>2. CASE ~(k <= checked_index)
  <2>1. k - 1 \in checked_index..read_index - 1 /\ k - 1 + 1 = k
        /\ k - 1 \in start_line..read_index - 1
    BY <1>2, Facts, SMT
  <2>2. buffer[k - 1] \notin {"CR", "LF"}
    BY <2>1 DEF Breaks
  <2>3. buffer[k - 1] = stream[k]
    BY <2>1, Zenon DEF HttpInv, Kept
  <2> QED
    BY <2>2, <2>3
<1> QED
  BY <1>1, <1>2

(* An LF at which it stops has no CR before it.                            *)
LEMMA LoneLF ==
  ASSUME HttpInv, Breaks # {}, buffer[Break] # "CR"
  PROVE  /\ buffer[Break] = "LF" /\ stream[Break + 1] = "LF"
         /\ Break # 0 => stream[Break] # "CR"
         /\ Break > 1 => buffer[Break - 1] # "CR"
<1>1. buffer[Break] = "LF" /\ stream[Break + 1] = "LF"
  BY Scanned
<1>2. Break \in Nat /\ start_line <= Break /\ Break <= read_index - 1
  BY Scanned, Facts, SMT
<1>3. CASE Break = start_line
  <2>1. start_line # 0 => start_line \in Ends(stream) /\ buffer[start_line - 1] = "NUL"
    BY DEF HttpInv, Started
  <2>2. start_line \in Ends(stream) => stream[start_line] = "LF"
    BY DEF Ends
  <2>3. Break > 1 => start_line # 0
    BY <1>2, <1>3, SMT
  <2> QED
    BY <1>1, <1>3, <2>1, <2>2, <2>3
<1>4. CASE Break # start_line
  <2>1. Break \in start_line + 1..Break /\ Break - 1 \in start_line..read_index - 1
        /\ Break - 1 + 1 = Break
    BY <1>2, <1>4, Facts, SMT
  <2>2. stream[Break] \notin {"CR", "LF"}
    BY <2>1, Scanned
  <2>3. buffer[Break - 1] = stream[Break]
    BY <2>1, Zenon DEF HttpInv, Kept
  <2> QED
    BY <1>1, <2>2, <2>3
<1> QED
  BY <1>3, <1>4

(* A complete line.                                                        *)
LEMMA Completed ==
  ASSUME HttpInv, LineOk
  PROVE  /\ Breaks # {} /\ LineEnd = Break /\ PastEnd = Break + 2
         /\ Break \in checked_index..read_index - 2
         /\ stream[Break + 1] = "CR" /\ stream[Break + 2] = "LF"
         /\ \A k \in start_line + 1..Break : stream[k] \notin {"CR", "LF"}
<1>1. Breaks # {}
  BY DEF LineOk, LineOpen
<1>2. buffer[Break] = "CR"
  BY <1>1, LoneLF DEF LineOk
<1>3. LineEnd = Break /\ PastEnd = Break + 2
  BY <1>2 DEF LineEnd, PastEnd
<1>4. Break + 1 # read_index /\ buffer[Break + 1] = "LF"
  BY <1>1, <1>2 DEF LineOk, LineOpen
<1>5. Break \in checked_index..read_index - 1
  BY <1>1, Scanned
<1>6. Break \in checked_index..read_index - 2 /\ Break + 1 \in start_line..read_index - 1
      /\ Break + 1 + 1 = Break + 2
  BY <1>4, <1>5, Facts, SMT
<1>7. buffer[Break + 1] = stream[Break + 2]
  BY <1>6, Zenon DEF HttpInv, Kept
<1> QED
  BY <1>1, <1>2, <1>3, <1>4, <1>6, <1>7, Scanned

(* A line that cannot be one ends in a stray.                              *)
LEMMA Broken ==
  ASSUME HttpInv, ~LineOpen, ~LineOk
  PROVE  /\ Breaks # {} /\ Break \in checked_index..read_index - 1
         /\ Break + 1 \in Strays(stream) /\ Break + 1 \notin Ends(stream)
         /\ ~(Break + 1 = read_index /\ stream[Break + 1] = "CR")
         /\ \A k \in start_line + 1..Break : stream[k] \notin {"CR", "LF"}
<1>1. Breaks # {}
  BY DEF LineOpen
<1>2. Break \in checked_index..read_index - 1 /\ buffer[Break] = stream[Break + 1]
  BY <1>1, Scanned
<1>3. Break \in Nat /\ Break + 1 \in 1..Len(stream) /\ Break + 1 <= read_index
  BY <1>2, Facts, SMT
<1>4. CASE buffer[Break] = "CR"
  <2>1. Break + 1 # read_index /\ buffer[Break + 1] # "LF"
    BY <1>1, <1>4 DEF LineOk, LineOpen
  <2>2. Break + 1 \in start_line..read_index - 1 /\ Break + 1 < Len(stream) /\ Break + 1 + 1 = Break + 2
    BY <2>1, <1>2, Facts, SMT
  <2>3. buffer[Break + 1] = stream[Break + 1 + 1]
    BY <2>2, Zenon DEF HttpInv, Kept
  <2>4. Break + 1 \in Strays(stream)
    BY <1>2, <1>3, <1>4, <2>1, <2>2, <2>3 DEF Strays
  <2>5. Break + 1 \notin Ends(stream)
    BY <1>2, <1>4 DEF Ends
  <2> QED
    BY <1>1, <1>2, <2>1, <2>4, <2>5, Scanned
<1>5. CASE buffer[Break] # "CR"
  <2>1. stream[Break + 1] = "LF" /\ (Break # 0 => stream[Break] # "CR")
    BY <1>1, <1>5, LoneLF
  <2>2. Break + 1 - 1 = Break
    BY <1>3, SMT
  <2>3. Break + 1 - 1 \notin {m \in 1..Len(stream) : stream[m] = "CR"}
    <3>1. 0 \notin 1..Len(stream)
      BY Facts, SMT
    <3> QED
      BY <2>1, <2>2, <3>1
  <2>4. Break + 1 \in Strays(stream)
    BY <1>3, <2>1, <2>3 DEF Strays
  <2>5. Break + 1 \notin Ends(stream)
    <3>1. Break + 1 \in 2..Len(stream) => Break # 0
      BY <1>3, SMT
    <3>2. \A k \in Ends(stream) : k \in 2..Len(stream) /\ stream[k - 1] = "CR"
      BY DEF Ends
    <3> DEFINE k == Break + 1
    <3>3. k - 1 = Break
      BY <1>3, SMT
    <3> HIDE DEF k
    <3>4. k \in Ends(stream) => k \in 2..Len(stream) /\ stream[Break] = "CR"
      BY <3>2, <3>3
    <3> QED
      BY <2>1, <3>1, <3>4 DEF k
  <2> QED
    BY <1>1, <1>2, <2>1, <2>4, <2>5, Scanned
<1> QED
  BY <1>4, <1>5

(* A line that still comes ends what was read, or a CR does.               *)
LEMMA Incomplete ==
  ASSUME HttpInv, LineOpen
  PROVE  /\ OpenIndex \in checked_index..read_index
         /\ OpenIndex = read_index \/ (OpenIndex = read_index - 1 /\ stream[read_index] = "CR")
         /\ \A k \in start_line + 1..OpenIndex : stream[k] \notin {"CR", "LF"}
<1>1. CASE Breaks = {}
  <2>1. OpenIndex = read_index
    BY <1>1 DEF OpenIndex
  <2>2. read_index \in checked_index..read_index
    BY Facts, SMT
  <2> QED
    BY <1>1, <2>1, <2>2, NoBreaks
<1>2. CASE Breaks # {}
  <2>1. OpenIndex = Break /\ buffer[Break] = "CR" /\ Break + 1 = read_index
    BY <1>2 DEF OpenIndex, LineOpen
  <2>2. Break \in checked_index..read_index - 1 /\ buffer[Break] = stream[Break + 1]
    BY <1>2, Scanned
  <2>3. Break = read_index - 1 /\ Break \in checked_index..read_index
    BY <2>1, <2>2, Facts, SMT
  <2> QED
    BY <1>2, <2>1, <2>2, <2>3, Scanned
<1> QED
  BY <1>1, <1>2

-----------------------------------------------------------------------------
(* What the checked part says of the verdict.                              *)

LEMMA ZeroOpen ==
  ASSUME NEW s \in Seq(Symbol)
  PROVE  \A k : IllAt(s, k) \/ EmptyAt(s, k) => k \in 1..Len(s)
<1>1. \A k \in Ends(s) \cup Strays(s) : k \in 1..Len(s)
  BY SMT DEF Ends, Strays
<1> QED
  BY <1>1 DEF IllAt, EmptyAt, FirstEnd

LEMMA PrefixOpen ==
  ASSUME NEW s \in Seq(Symbol), NEW n \in 0..Len(s), NEW c \in 0..n,
         c = n \/ (c = n - 1 /\ s[n] = "CR"),
         \A k \in 1..c : ~IllAt(s, k) /\ ~EmptyAt(s, k)
  PROVE  Verdict(SubSeq(s, 1, n)) = "none"
<1> DEFINE p == SubSeq(s, 1, n)
<1>1. p \in Seq(Symbol) /\ n \in Nat /\ c \in Nat
  BY PrefixIs
<1>2. \A k \in Nat : (IllAt(p, k) => k <= n /\ IllAt(s, k)) /\ (EmptyAt(p, k) => k <= n /\ EmptyAt(s, k))
  BY PrefixPoint
<1>3. \A k : IllAt(s, k) \/ EmptyAt(s, k) => k \in 1..Len(s)
  BY ZeroOpen
<1>4. s[n] = "CR" => n \notin Ends(p) /\ n \notin Strays(p)
  <2>1. s[n] = "CR" => n \notin Ends(s)
    BY DEF Ends
  <2> QED
    BY <2>1, PrefixDecides
<1> HIDE DEF p
<1>5. ASSUME NEW k \in Nat PROVE ~IllAt(p, k) /\ ~EmptyAt(p, k)
  <2>1. CASE k \in 1..c
    BY <1>2, <2>1
  <2>2. CASE k \notin 1..c
    <3> SUFFICES ASSUME IllAt(p, k) \/ EmptyAt(p, k) PROVE FALSE
      OBVIOUS
    <3>1. k \in 1..Len(s) /\ k <= n
      BY <1>2, <1>3
    <3>2. c # n /\ k = n
      BY <1>1, <2>2, <3>1, SMT
    <3>3. n \notin Ends(p) /\ n \notin Strays(p)
      BY <1>4, <3>2
    <3> QED
      BY <3>2, <3>3 DEF IllAt, EmptyAt, FirstEnd
  <2> QED
    BY <2>1, <2>2
<1>6. Verdict(p) = "none"
  BY <1>1, <1>5, Undecided
<1> QED
  BY <1>6 DEF p

LEMMA PrefixDecided ==
  ASSUME NEW s \in Seq(Symbol), NEW n \in 0..Len(s), NEW k \in 1..n,
         ~(k = n /\ s[k] = "CR"),
         \A j \in 1..k - 1 : ~IllAt(s, j) /\ ~EmptyAt(s, j)
  PROVE  /\ IllAt(s, k) /\ ~EmptyAt(s, k) => Verdict(SubSeq(s, 1, n)) = "wrong"
         /\ EmptyAt(s, k) => Verdict(SubSeq(s, 1, n)) = "correct"
<1> DEFINE p == SubSeq(s, 1, n)
<1>1. p \in Seq(Symbol) /\ n \in Nat /\ k \in Nat /\ k <= n
  BY PrefixIs, SMT
<1>2. \A j \in Nat : (IllAt(p, j) => IllAt(s, j)) /\ (EmptyAt(p, j) => EmptyAt(s, j))
  BY PrefixPoint
<1>3. \A j : IllAt(s, j) \/ EmptyAt(s, j) => j \in 1..Len(s)
  BY ZeroOpen
<1>4. /\ EmptyAt(p, k) <=> EmptyAt(s, k)
      /\ IllAt(s, k) => IllAt(p, k)
  BY <1>1, PrefixPoint
<1> HIDE DEF p
<1>5. \A j \in Nat : j < k => ~IllAt(p, j) /\ ~EmptyAt(p, j)
  <2> TAKE j \in Nat
  <2> SUFFICES ASSUME j < k PROVE ~IllAt(p, j) /\ ~EmptyAt(p, j)
    OBVIOUS
  <2>1. j \in 1..Len(s) => j \in 1..k - 1
    BY <1>1, SMT
  <2> QED
    BY <1>2, <1>3, <2>1
<1>6. /\ IllAt(p, k) /\ ~EmptyAt(p, k) => Verdict(p) = "wrong"
      /\ EmptyAt(p, k) => Verdict(p) = "correct"
  BY <1>1, <1>5, Decided
<1> QED
  BY <1>4, <1>6 DEF p

LEMMA OpenUpTo ==
  ASSUME HttpInv, reply = "none", NEW c \in checked_index..Len(stream),
         \A k \in start_line + 1..c : stream[k] \notin {"CR", "LF"}
  PROVE  /\ \A k \in 1..c : ~IllAt(stream, k) /\ ~EmptyAt(stream, k)
         /\ \A k \in Ends(stream) : k <= c => k <= start_line
<1>1. stream \in Seq(Symbol)
  BY Facts
<1>2. \A k \in 1..checked_index : ~IllAt(stream, k) /\ ~EmptyAt(stream, k)
  BY DEF HttpInv, StillOpen
<1>3. \A k \in start_line + 1..c : k \in 1..Len(stream)
  BY Facts, SMT
<1>4. \A k \in start_line + 1..c : ~IllAt(stream, k) /\ ~EmptyAt(stream, k) /\ k \notin Ends(stream)
  BY <1>1, <1>3, PlainOpen
<1>5. \A k \in 1..c : k \in 1..checked_index \/ k \in start_line + 1..c
  BY Facts, SMT
<1>6. \A k \in Ends(stream) : k \in Nat
  BY <1>1, EndsAre
<1>7. \A k \in Nat : k <= c => k <= start_line \/ k \in start_line + 1..c
  BY Facts, SMT
<1> QED
  BY <1>2, <1>4, <1>5, <1>6, <1>7

(* When a line is complete, nothing up to its CR decides, and its LF is    *)
(* the next end of a line.                                                 *)
LEMMA UpToEnd ==
  ASSUME HttpInv, reply = "none", LineOk
  PROVE  /\ \A k \in 1..Break + 1 : ~IllAt(stream, k) /\ ~EmptyAt(stream, k)
         /\ Break + 2 \in Ends(stream) /\ Break + 2 \in 1..read_index
         /\ \A k \in Ends(stream) : k < Break + 2 => k <= start_line
<1>1. /\ Break \in checked_index..read_index - 2
      /\ stream[Break + 1] = "CR" /\ stream[Break + 2] = "LF"
      /\ \A k \in start_line + 1..Break : stream[k] \notin {"CR", "LF"}
  BY Completed
<1>2. Break \in checked_index..Len(stream) /\ Break + 1 < Len(stream) /\ Break \in Nat
  BY <1>1, Facts, SMT
<1>3. /\ \A k \in 1..Break : ~IllAt(stream, k) /\ ~EmptyAt(stream, k)
      /\ \A k \in Ends(stream) : k <= Break => k <= start_line
  BY <1>1, <1>2, OpenUpTo
<1>4. Break + 1 \notin Ends(stream) /\ Break + 1 \notin Strays(stream)
  <2>1. Break + 1 + 1 = Break + 2
    BY <1>2, SMT
  <2> QED
    BY <1>1, <2>1 DEF Ends, Strays
<1>5. ~IllAt(stream, Break + 1) /\ ~EmptyAt(stream, Break + 1)
  BY <1>4 DEF IllAt, EmptyAt, FirstEnd
<1>6. \A k \in 1..Break + 1 : k \in 1..Break \/ k = Break + 1
  BY <1>2, SMT
<1>7. Break + 2 \in Ends(stream)
  <2> DEFINE k == Break + 2
  <2>1. k \in 2..Len(stream) /\ k - 1 = Break + 1
    BY <1>1, <1>2, Facts, SMT
  <2>2. stream[k] = "LF"
    BY <1>1
  <2> HIDE DEF k
  <2>3. stream[k - 1] = "CR"
    BY <1>1, <2>1
  <2>4. k \in Ends(stream)
    BY <2>1, <2>2, <2>3 DEF Ends
  <2> QED
    BY <2>4 DEF k
<1>8. Break + 2 \in 1..read_index
  BY <1>1, <1>2, Facts, SMT
<1>9. \A k \in Ends(stream) : k < Break + 2 => k <= start_line
  <2>1. \A k \in Ends(stream) : k \in Nat
    BY Facts, EndsAre
  <2>2. \A k \in Nat : k < Break + 2 => k <= Break \/ k = Break + 1
    BY <1>2, SMT
  <2> QED
    BY <1>3, <1>4, <2>1, <2>2
<1> QED
  BY <1>3, <1>5, <1>6, <1>7, <1>8, <1>9

LEMMA LineIs ==
  ASSUME HttpInv, LineOk
  PROVE  /\ Line = SubSeq(stream, start_line + 1, Break) /\ Line \in Seq(Symbol)
         /\ Line = <<>> <=> Break = start_line
<1>1. LineEnd = Break /\ Break \in checked_index..read_index - 2
  BY Completed
<1> DEFINE n == Break - start_line
<1>2. n \in Nat /\ \A k \in 1..n : /\ start_line + k - 1 \in start_line..read_index - 1
                                   /\ (start_line + k - 1) + 1 \in 1..Len(stream)
                                   /\ (start_line + k - 1) + 1 = (start_line + 1) + k - 1
  BY <1>1, Facts, SMTT(60)
<1>3. stream \in Seq(Symbol) /\ \A k \in 1..Len(stream) : stream[k] \in Symbol
  BY Facts, LenProperties
<1>4. Line = [k \in 1..n |-> buffer[start_line + k - 1]]
  BY <1>1 DEF Line
<1>5. \A k \in 1..n : buffer[start_line + k - 1] = stream[(start_line + k - 1) + 1]
  BY <1>2 DEF HttpInv, Kept
<1>6. \A k \in 1..n : Line[k] = stream[(start_line + 1) + k - 1] /\ Line[k] \in Symbol
  BY <1>2, <1>3, <1>4, <1>5
<1> HIDE DEF n
<1>7. Line \in [1..n -> Symbol]
  BY <1>4, <1>6
<1>8. Line \in Seq(Symbol)
  BY <1>2, <1>7, SeqDef
<1>9. Len(Line) = n
  BY <1>2, <1>4, <1>8, LenProperties, SMT
<1>10. /\ SubSeq(stream, start_line + 1, Break) \in Seq(Symbol)
       /\ Len(SubSeq(stream, start_line + 1, Break)) = n
       /\ \A k \in 1..n : SubSeq(stream, start_line + 1, Break)[k] = stream[(start_line + 1) + k - 1]
  <2> DEFINE a == start_line + 1
  <2>1. /\ a \in Int /\ Break \in Int /\ \A i \in a..Break : i \in 1..Len(stream)
        /\ Break - a + 1 = n /\ (IF a <= Break THEN Break - a + 1 ELSE 0) = n
    BY <1>1, <1>2, Facts, SMTT(60) DEF n
  <2> HIDE DEF a
  <2>2. /\ SubSeq(stream, a, Break) \in Seq(Symbol)
        /\ Len(SubSeq(stream, a, Break)) = IF a <= Break THEN Break - a + 1 ELSE 0
        /\ \A i \in 1..Break - a + 1 : SubSeq(stream, a, Break)[i] = stream[a + i - 1]
    BY <1>3, <2>1, SubSeqProperties
  <2> QED
    BY <2>1, <2>2 DEF a
<1>11. Line = SubSeq(stream, start_line + 1, Break)
  <2> DEFINE q == SubSeq(stream, start_line + 1, Break)
  <2>1. q \in Seq(Symbol) /\ Len(Line) = Len(q) /\ \A k \in 1..Len(Line) : Line[k] = q[k]
    BY <1>6, <1>9, <1>10
  <2> HIDE DEF q
  <2>2. Line = q
    BY <1>8, <2>1, SeqEqual
  <2> QED
    BY <2>2 DEF q
<1>12. Line = <<>> <=> Break = start_line
  <2>1. Line = <<>> <=> n = 0
    BY <1>2, <1>8, <1>9, EmptySeq, SMT
  <2>2. Break \in Int /\ start_line \in Int
    BY <1>1, Facts, SMT
  <2> QED
    BY <2>1, <2>2, SMT DEF n
<1> QED
  BY <1>8, <1>11, <1>12

-----------------------------------------------------------------------------
(* The steps.                                                              *)

LEMMA HttpStarts == Init => HttpInv
<1> SUFFICES ASSUME Init PROVE HttpInv
  OBVIOUS
<1>1. stream \in Seq(Symbol) /\ Len(stream) \in Nat /\ BufferSize \in Nat \ {0}
  BY HttpAssumption, LenProperties DEF Init
<1>2. TypeOK
  BY <1>1, SMT DEF Init, TypeOK
<1>3. IndicesOrdered
  BY <1>1, SMT DEF Init, IndicesOrdered
<1>4. Kept
  BY SMT DEF Init, Kept
<1>5. NonePassed
  BY SMT DEF Init, NonePassed
<1>6. Started
  BY DEF Init, Started
<1>7. Resting
  BY DEF Init, Resting
<1>8. StillOpen
  BY SMT DEF Init, StillOpen
<1> QED
  BY <1>2, <1>3, <1>4, <1>5, <1>6, <1>7, <1>8 DEF HttpInv, Init

LEMMA RecvStep == HttpInv /\ Recv => HttpInv'
<1> SUFFICES ASSUME HttpInv, Recv PROVE HttpInv'
  OBVIOUS
<1>1. /\ reply = "none" /\ ~parsing /\ parsing' = TRUE
      /\ UNCHANGED <<stream, closed, checked_index, start_line, checkstate, reply>>
  BY DEF Recv, Receiving
<1>2. PICK n \in 1..BufferSize - read_index :
        /\ read_index + n <= Len(stream)
        /\ read_index' = read_index + n
        /\ buffer' = [k \in 0..BufferSize - 1 |->
                        IF k \in read_index..read_index + n - 1 THEN stream[k + 1] ELSE buffer[k]]
  BY DEF Recv
<1>3. /\ n \in Nat /\ read_index + n <= BufferSize /\ read_index + n \in 0..BufferSize
      /\ read_index <= read_index + n
  BY <1>2, Facts, SMT
<1>4. buffer' \in [0..BufferSize - 1 -> Symbol \cup {"NUL"}]
  <2>1. buffer \in [0..BufferSize - 1 -> Symbol \cup {"NUL"}]
    BY DEF HttpInv, TypeOK
  <2>2. \A k \in read_index..read_index + n - 1 : stream[k + 1] \in Symbol
    <3>1. \A k \in read_index..read_index + n - 1 : k + 1 \in 1..Len(stream)
      BY <1>2, <1>3, Facts, SMT
    <3> QED
      BY <3>1, Facts, LenProperties
  <2> QED
    BY <1>2, <2>1, <2>2
<1>5. TypeOK'
  BY <1>1, <1>2, <1>3, <1>4 DEF HttpInv, TypeOK
<1>6. IndicesOrdered'
  BY <1>1, <1>2, <1>3, Facts, SMT DEF IndicesOrdered
<1>7. Kept'
  <2>1. ASSUME NEW k \in start_line..read_index + n - 1
        PROVE  buffer'[k] = stream[k + 1]
    <3>1. k \in 0..BufferSize - 1 /\ (k \in read_index..read_index + n - 1 \/ k \in start_line..read_index - 1)
      BY <1>3, Facts, SMT
    <3>2. k \in start_line..read_index - 1 => buffer[k] = stream[k + 1]
      BY DEF HttpInv, Kept
    <3> QED
      BY <1>2, <3>1, <3>2, Zenon
  <2>2. read_index' = read_index + n /\ start_line' = start_line /\ stream' = stream
    BY <1>1, <1>2
  <2>3. \A k \in start_line..read_index + n - 1 : buffer'[k] = stream[k + 1]
    BY <2>1
  <2>4. \A k \in start_line'..read_index' - 1 : buffer'[k] = stream'[k + 1]
    <3> TAKE k \in start_line'..read_index' - 1
    <3>1. k \in start_line..read_index + n - 1
      BY <1>3, <2>2, Facts, SMT
    <3>2. buffer'[k] = stream[k + 1]
      BY <2>3, <3>1
    <3> QED
      BY <2>2, <3>2
  <2> QED
    BY <2>4, Zenon DEF Kept
<1>8. NonePassed'
  BY <1>1 DEF HttpInv, NonePassed
<1>9. Started'
  <2>1. start_line # 0 => start_line - 1 \in 0..BufferSize - 1 /\ start_line - 1 \notin read_index..read_index + n - 1
    BY <1>3, Facts, SMT
  <2>2. start_line # 0 => buffer'[start_line - 1] = buffer[start_line - 1]
    BY <1>2, <2>1
  <2> QED
    BY <1>1, <2>2 DEF HttpInv, Started
<1>10. Resting'
  BY <1>1 DEF Resting
<1>11. StillOpen'
  BY <1>1 DEF HttpInv, StillOpen
<1> QED
  BY <1>1, <1>5, <1>6, <1>7, <1>8, <1>9, <1>10, <1>11 DEF HttpInv

(* Before a recv() the verdict is open.                                    *)
LEMMA OpenAtRest ==
  ASSUME HttpInv, Receiving
  PROVE  Verdict(SubSeq(stream, 1, read_index)) = "none"
<1>1. checked_index = read_index \/ (checked_index = read_index - 1 /\ stream[read_index] = "CR")
  BY DEF HttpInv, Resting, Receiving
<1>2. \A k \in 1..checked_index : ~IllAt(stream, k) /\ ~EmptyAt(stream, k)
  BY DEF HttpInv, StillOpen, Receiving
<1>3. /\ stream \in Seq(Symbol) /\ read_index \in 0..Len(stream) /\ checked_index \in 0..read_index
  BY Facts, SMT
<1> QED
  BY <1>1, <1>2, <1>3, PrefixOpen

LEMMA StopStep == HttpInv /\ (RecvNothing \/ RecvError) => HttpInv'
<1> SUFFICES ASSUME HttpInv, RecvNothing \/ RecvError PROVE HttpInv'
  OBVIOUS
<1>1. /\ Receiving /\ reply' \in {"silent", "failed"}
      /\ UNCHANGED <<stream, closed, buffer, read_index, checked_index, start_line, checkstate, parsing>>
  BY DEF RecvNothing, RecvError
<1>2. Verdict(SubSeq(stream, 1, read_index)) = "none"
  BY <1>1, OpenAtRest
<1>3. SameVerdict'
  BY <1>1, <1>2 DEF SameVerdict
<1>4. TypeOK' /\ IndicesOrdered' /\ Kept' /\ NonePassed'
  BY <1>1 DEF HttpInv, TypeOK, IndicesOrdered, Kept, NonePassed
<1>5. Started' /\ Resting' /\ StillOpen'
  BY <1>1 DEF HttpInv, Started, Resting, StillOpen
<1> QED
  BY <1>1, <1>3, <1>4, <1>5 DEF HttpInv, Receiving

LEMMA NeedMoreStep == HttpInv /\ NeedMore => HttpInv'
<1> SUFFICES ASSUME HttpInv, NeedMore PROVE HttpInv'
  OBVIOUS
<1>1. /\ reply = "none" /\ LineOpen /\ checked_index' = OpenIndex /\ parsing' = FALSE
      /\ UNCHANGED <<stream, closed, buffer, read_index, start_line, checkstate, reply>>
  BY DEF NeedMore
<1>2. /\ OpenIndex \in checked_index..read_index
      /\ OpenIndex = read_index \/ (OpenIndex = read_index - 1 /\ stream[read_index] = "CR")
      /\ \A k \in start_line + 1..OpenIndex : stream[k] \notin {"CR", "LF"}
  BY <1>1, Incomplete
<1>3. /\ OpenIndex \in 0..BufferSize /\ start_line <= OpenIndex /\ OpenIndex <= read_index
      /\ OpenIndex \in checked_index..Len(stream)
  BY <1>2, Facts, SMT
<1>4. TypeOK' /\ IndicesOrdered'
  BY <1>1, <1>3 DEF HttpInv, TypeOK, IndicesOrdered
<1>5. Kept' /\ NonePassed' /\ Started'
  BY <1>1, <1>2 DEF HttpInv, Kept, NonePassed, Started
<1>6. Resting'
  BY <1>1, <1>2 DEF Resting
<1>7. StillOpen'
  <2>1. \A k \in 1..OpenIndex : ~IllAt(stream, k) /\ ~EmptyAt(stream, k)
    BY <1>1, <1>2, <1>3, OpenUpTo
  <2> QED
    BY <1>1, <2>1 DEF StillOpen
<1> QED
  BY <1>1, <1>4, <1>5, <1>6, <1>7 DEF HttpInv

LEMMA BadLineStep == HttpInv /\ BadLine => HttpInv'
<1> SUFFICES ASSUME HttpInv, BadLine PROVE HttpInv'
  OBVIOUS
<1>1. /\ reply = "none" /\ ~LineOpen /\ ~LineOk /\ checked_index' = Break
      /\ reply' = "wrong" /\ parsing' = FALSE
      /\ UNCHANGED <<stream, closed, buffer, read_index, start_line, checkstate>>
  BY DEF BadLine
<1>2. /\ Break \in checked_index..read_index - 1
      /\ Break + 1 \in Strays(stream) /\ Break + 1 \notin Ends(stream)
      /\ ~(Break + 1 = read_index /\ stream[Break + 1] = "CR")
      /\ \A k \in start_line + 1..Break : stream[k] \notin {"CR", "LF"}
  BY <1>1, Broken
<1>3. /\ Break \in 0..BufferSize /\ start_line <= Break /\ Break <= read_index
      /\ Break \in checked_index..Len(stream) /\ Break + 1 - 1 = Break
      /\ Break + 1 \in 1..read_index /\ read_index \in 0..Len(stream)
  BY <1>2, Facts, SMT
<1>4. TypeOK' /\ IndicesOrdered'
  BY <1>1, <1>3 DEF HttpInv, TypeOK, IndicesOrdered
<1>5. Kept' /\ NonePassed' /\ Started'
  BY <1>1, <1>2 DEF HttpInv, Kept, NonePassed, Started
<1>6. Resting' /\ StillOpen'
  BY <1>1 DEF Resting, StillOpen
<1>7. Verdict(SubSeq(stream, 1, read_index)) = "wrong"
  <2> DEFINE k == Break + 1
  <2>1. \A j \in 1..k - 1 : ~IllAt(stream, j) /\ ~EmptyAt(stream, j)
    BY <1>1, <1>2, <1>3, OpenUpTo
  <2>2. IllAt(stream, k) /\ ~EmptyAt(stream, k)
    BY <1>2 DEF IllAt, EmptyAt
  <2>3. k \in 1..read_index /\ ~(k = read_index /\ stream[k] = "CR")
    BY <1>2, <1>3
  <2> HIDE DEF k
  <2> QED
    BY <1>3, <2>1, <2>2, <2>3, Facts, PrefixDecided
<1>8. SameVerdict'
  BY <1>1, <1>7 DEF SameVerdict
<1> QED
  BY <1>1, <1>4, <1>5, <1>6, <1>8 DEF HttpInv

(* What taking a complete line leaves, whatever is made of it.             *)
LEMMA TakeStep ==
  ASSUME HttpInv, TakeLine, checkstate' \in {"REQUESTLINE", "HEADER"}, parsing' \in BOOLEAN,
         reply' \in {"none", "correct", "wrong"}, reply' = "none" => parsing' /\ checkstate' = "HEADER"
  PROVE  /\ TypeOK' /\ IndicesOrdered' /\ Kept' /\ NonePassed' /\ Started' /\ Resting'
         /\ reply = "none" /\ LineOk /\ UNCHANGED <<stream, closed, read_index>>
         /\ checked_index' = Break + 2
<1>1. /\ reply = "none" /\ parsing /\ LineOk
      /\ UNCHANGED <<stream, closed, read_index>>
  BY DEF TakeLine
<1>2. /\ LineEnd = Break /\ PastEnd = Break + 2
      /\ Break \in checked_index..read_index - 2
  BY <1>1, Completed
<1>3. /\ checked_index' = Break + 2 /\ start_line' = Break + 2
      /\ buffer' = [buffer EXCEPT ![Break] = "NUL", ![Break + 1] = "NUL"]
  BY <1>2 DEF TakeLine, NextStart
<1>4. /\ Break \in Nat /\ Break + 2 \in 0..BufferSize /\ Break + 2 <= read_index
      /\ Break + 2 - 1 = Break + 1 /\ Break + 1 \in 0..BufferSize - 1 /\ Break + 2 # 0
  BY <1>2, Facts, SMT
<1>5. buffer \in [0..BufferSize - 1 -> Symbol \cup {"NUL"}]
  BY DEF HttpInv, TypeOK
<1>6. buffer' \in [0..BufferSize - 1 -> Symbol \cup {"NUL"}]
  BY <1>3, <1>5
<1>7. TypeOK'
  BY <1>1, <1>3, <1>4, <1>6 DEF HttpInv, TypeOK
<1>8. IndicesOrdered'
  BY <1>1, <1>3, <1>4, Facts, SMT DEF IndicesOrdered
<1>9. Kept'
  <2>1. ASSUME NEW k \in Break + 2..read_index - 1
        PROVE  buffer'[k] = stream[k + 1]
    <3>1. k \in start_line..read_index - 1 /\ k # Break /\ k # Break + 1 /\ k \in 0..BufferSize - 1
      BY <1>2, <1>4, Facts, SMT
    <3>2. buffer[k] = stream[k + 1]
      BY <3>1 DEF HttpInv, Kept
    <3> QED
      BY <1>3, <1>5, <3>1, <3>2
  <2> QED
    BY <1>1, <1>3, <2>1 DEF Kept
<1>10. NonePassed'
  BY <1>3, <1>4, SMT DEF NonePassed
<1>11. Started'
  <2>1. Break + 2 \in Ends(stream)
    BY <1>1, UpToEnd
  <2>2. buffer'[Break + 1] = "NUL"
    BY <1>3, <1>4, <1>5
  <2>3. start_line' # 0 /\ start_line' \in Ends(stream') /\ buffer'[start_line' - 1] = "NUL"
    BY <1>1, <1>3, <1>4, <2>1, <2>2
  <2> QED
    BY <2>3 DEF Started
<1>12. Resting'
  BY DEF Resting
<1> QED
  BY <1>1, <1>3, <1>7, <1>8, <1>9, <1>10, <1>11, <1>12

(* A line that decides nothing.                                            *)
LEMMA StillOpenStep ==
  ASSUME HttpInv, reply = "none", LineOk, UNCHANGED stream, checked_index' = Break + 2,
         ~IllAt(stream, Break + 2), ~EmptyAt(stream, Break + 2)
  PROVE  StillOpen'
<1>1. \A k \in 1..Break + 1 : ~IllAt(stream, k) /\ ~EmptyAt(stream, k)
  BY UpToEnd
<1>2. Break \in Nat
  BY Completed, Facts, SMT
<1>3. \A k \in 1..Break + 2 : k \in 1..Break + 1 \/ k = Break + 2
  BY <1>2, SMT
<1> QED
  BY <1>1, <1>3 DEF StillOpen

(* Only the first line can be first, and only an empty one follows an end. *)
LEMMA EndOfLine ==
  ASSUME HttpInv, reply = "none", LineOk
  PROVE  /\ Break + 2 \in Ends(stream) /\ Break + 2 \notin Strays(stream)
         /\ FirstEnd(stream, Break + 2) <=> start_line = 0
         /\ EmptyAt(stream, Break + 2) <=> start_line # 0 /\ Line = <<>>
<1>1. /\ Break \in checked_index..read_index - 2
      /\ stream[Break + 1] = "CR" /\ stream[Break + 2] = "LF"
      /\ \A k \in start_line + 1..Break : stream[k] \notin {"CR", "LF"}
  BY Completed
<1>2. Break \in Nat /\ start_line <= Break /\ start_line \in Nat
  BY <1>1, Facts, SMT
<1>3. /\ Break + 2 \in Ends(stream)
      /\ \A k \in Ends(stream) : k < Break + 2 => k <= start_line
  BY UpToEnd
<1>4. \A k \in Ends(stream) : k \in Nat /\ k >= 2 /\ k \in 2..Len(stream) /\ stream[k] = "LF"
  BY Facts, SMT DEF Ends
<1>5. Break + 2 \notin Strays(stream)
  <2>1. Break + 2 - 1 = Break + 1 /\ Break + 1 \in 1..Len(stream)
    BY <1>1, Facts, SMT
  <2> QED
    BY <1>1, <2>1 DEF Strays
<1>6. start_line # 0 => start_line \in Ends(stream) /\ ~(Break + 2 <= start_line)
  <2>1. ~(Break + 2 <= start_line)
    BY <1>2, SMT
  <2> QED
    BY <2>1 DEF HttpInv, Started
<1>7. start_line = 0 => \A k \in Ends(stream) : Break + 2 <= k
  BY <1>2, <1>3, <1>4, SMT
<1>8. FirstEnd(stream, Break + 2) <=> start_line = 0
  BY <1>3, <1>6, <1>7 DEF FirstEnd
<1>9. Break + 2 - 2 = Break
  BY <1>2, SMT
<1>10. Break \in Ends(stream) => Break = start_line /\ start_line # 0
  <2> SUFFICES ASSUME Break \in Ends(stream) PROVE Break = start_line /\ start_line # 0
    OBVIOUS
  <2>1. Break < Break + 2 /\ Break >= 2
    BY <1>2, <1>4, SMT
  <2>2. Break <= start_line
    BY <1>3, <2>1
  <2> QED
    BY <1>2, <2>1, <2>2, SMT
<1>11. Break \in Ends(stream) <=> start_line # 0 /\ Break = start_line
  BY <1>6, <1>10
<1>12. Line = <<>> <=> Break = start_line
  BY LineIs
<1>13. EmptyAt(stream, Break + 2) <=> Break \in Ends(stream)
  <2> DEFINE k == Break + 2
  <2>1. k \in Ends(stream) /\ k - 2 = Break
    BY <1>2, <1>3, SMT
  <2> HIDE DEF k
  <2>2. EmptyAt(stream, k) <=> Break \in Ends(stream)
    BY <2>1 DEF EmptyAt
  <2> QED
    BY <2>2 DEF k
<1> QED
  BY <1>3, <1>5, <1>8, <1>11, <1>12, <1>13

(* The first line decides by its form.                                     *)
LEMMA FirstLine ==
  ASSUME HttpInv, reply = "none", LineOk, start_line = 0
  PROVE  IllAt(stream, Break + 2) <=> ~GoodRequestLine(Line)
<1>1. Break + 2 \notin Strays(stream) /\ FirstEnd(stream, Break + 2)
  BY EndOfLine
<1>2. Line = SubSeq(stream, start_line + 1, Break) /\ Line \in Seq(Symbol)
  BY LineIs
<1>3. Break \in Nat
  BY Completed, Facts, SMT
<1>4. GoodRequestLine(Line) <=> WellFormed(Line)
  BY <1>2, RequestLineIs
<1> DEFINE k == Break + 2
<1>5. start_line + 1 = 1 /\ k - 2 = Break
  BY <1>3, SMT
<1>6. k \notin Strays(stream) /\ FirstEnd(stream, k)
  BY <1>1
<1> HIDE DEF k
<1>7. Line = SubSeq(stream, 1, k - 2)
  BY <1>2, <1>5, Zenon
<1>8. IllAt(stream, k) <=> ~GoodRequestLine(Line)
  BY <1>4, <1>6, <1>7 DEF IllAt
<1> QED
  BY <1>8 DEF k

LEMMA RequestLineStep == HttpInv /\ RequestLine => HttpInv'
<1> SUFFICES ASSUME HttpInv, RequestLine PROVE HttpInv'
  OBVIOUS
<1>1. /\ checkstate = "REQUESTLINE" /\ TakeLine /\ GoodRequestLine(Line)
      /\ checkstate' = "HEADER" /\ UNCHANGED <<parsing, reply>>
  BY DEF RequestLine
<1>2. reply = "none" /\ parsing /\ parsing \in BOOLEAN
  BY <1>1 DEF TakeLine, HttpInv, TypeOK
<1>3. /\ TypeOK' /\ IndicesOrdered' /\ Kept' /\ NonePassed' /\ Started' /\ Resting'
      /\ LineOk /\ UNCHANGED <<stream, closed, read_index>> /\ checked_index' = Break + 2
  BY <1>1, <1>2, TakeStep
<1>4. start_line = 0
  BY <1>1, <1>2 DEF HttpInv, Started
<1>5. ~IllAt(stream, Break + 2) /\ ~EmptyAt(stream, Break + 2)
  BY <1>1, <1>2, <1>3, <1>4, EndOfLine, FirstLine
<1>6. StillOpen'
  BY <1>2, <1>3, <1>5, StillOpenStep
<1> QED
  BY <1>1, <1>2, <1>3, <1>6 DEF HttpInv

LEMMA HeaderStep == HttpInv /\ Header => HttpInv'
<1> SUFFICES ASSUME HttpInv, Header PROVE HttpInv'
  OBVIOUS
<1>1. /\ checkstate = "HEADER" /\ TakeLine /\ Line # <<>>
      /\ UNCHANGED <<checkstate, parsing, reply>>
  BY DEF Header
<1>2. reply = "none" /\ parsing /\ parsing \in BOOLEAN
  BY <1>1 DEF TakeLine, HttpInv, TypeOK
<1>3. /\ TypeOK' /\ IndicesOrdered' /\ Kept' /\ NonePassed' /\ Started' /\ Resting'
      /\ LineOk /\ UNCHANGED <<stream, closed, read_index>> /\ checked_index' = Break + 2
  BY <1>1, <1>2, TakeStep
<1>4. start_line # 0
  BY <1>1, <1>2 DEF HttpInv, Started
<1>5. ~IllAt(stream, Break + 2) /\ ~EmptyAt(stream, Break + 2)
  BY <1>1, <1>2, <1>3, <1>4, EndOfLine DEF IllAt
<1>6. StillOpen'
  BY <1>2, <1>3, <1>5, StillOpenStep
<1> QED
  BY <1>1, <1>2, <1>3, <1>6 DEF HttpInv

LEMMA AnswerAt ==
  ASSUME HttpInv, reply = "none", LineOk
  PROVE  /\ IllAt(stream, Break + 2) /\ ~EmptyAt(stream, Break + 2)
              => Verdict(SubSeq(stream, 1, read_index)) = "wrong"
         /\ EmptyAt(stream, Break + 2) => Verdict(SubSeq(stream, 1, read_index)) = "correct"
<1> DEFINE k == Break + 2
<1>1. /\ \A j \in 1..Break + 1 : ~IllAt(stream, j) /\ ~EmptyAt(stream, j)
      /\ k \in Ends(stream) /\ k \in 1..read_index
  BY UpToEnd
<1>2. Break \in Nat
  BY Completed, Facts, SMT
<1>3. k - 1 = Break + 1
  BY <1>2, SMT
<1>4. stream \in Seq(Symbol) /\ read_index \in 0..Len(stream)
  BY Facts, SMT
<1>5. ~(k = read_index /\ stream[k] = "CR")
  BY <1>1 DEF Ends
<1>6. \A j \in 1..k - 1 : ~IllAt(stream, j) /\ ~EmptyAt(stream, j)
  BY <1>1, <1>3
<1> HIDE DEF k
<1>7. /\ IllAt(stream, k) /\ ~EmptyAt(stream, k) => Verdict(SubSeq(stream, 1, read_index)) = "wrong"
      /\ EmptyAt(stream, k) => Verdict(SubSeq(stream, 1, read_index)) = "correct"
  BY <1>1, <1>4, <1>5, <1>6, PrefixDecided
<1> QED
  BY <1>7 DEF k

LEMMA BadRequestLineStep == HttpInv /\ BadRequestLine => HttpInv'
<1> SUFFICES ASSUME HttpInv, BadRequestLine PROVE HttpInv'
  OBVIOUS
<1>1. /\ checkstate = "REQUESTLINE" /\ TakeLine /\ ~GoodRequestLine(Line)
      /\ reply' = "wrong" /\ parsing' = FALSE /\ UNCHANGED checkstate
  BY DEF BadRequestLine
<1>2. /\ TypeOK' /\ IndicesOrdered' /\ Kept' /\ NonePassed' /\ Started' /\ Resting'
      /\ reply = "none" /\ LineOk /\ UNCHANGED <<stream, closed, read_index>>
  BY <1>1, TakeStep
<1>3. start_line = 0
  BY <1>1, <1>2 DEF HttpInv, Started
<1>4. Verdict(SubSeq(stream, 1, read_index)) = "wrong"
  BY <1>1, <1>2, <1>3, EndOfLine, FirstLine, AnswerAt
<1>5. SameVerdict' /\ StillOpen'
  BY <1>1, <1>2, <1>4 DEF SameVerdict, StillOpen
<1> QED
  BY <1>1, <1>2, <1>5 DEF HttpInv

LEMMA EndOfHeadersStep == HttpInv /\ EndOfHeaders => HttpInv'
<1> SUFFICES ASSUME HttpInv, EndOfHeaders PROVE HttpInv'
  OBVIOUS
<1>1. /\ checkstate = "HEADER" /\ TakeLine /\ Line = <<>>
      /\ reply' = "correct" /\ parsing' = FALSE /\ UNCHANGED checkstate
  BY DEF EndOfHeaders
<1>2. /\ TypeOK' /\ IndicesOrdered' /\ Kept' /\ NonePassed' /\ Started' /\ Resting'
      /\ reply = "none" /\ LineOk /\ UNCHANGED <<stream, closed, read_index>>
  BY <1>1, TakeStep
<1>3. start_line # 0
  BY <1>1, <1>2 DEF HttpInv, Started
<1>4. Verdict(SubSeq(stream, 1, read_index)) = "correct"
  BY <1>1, <1>2, <1>3, EndOfLine, AnswerAt
<1>5. SameVerdict' /\ StillOpen'
  BY <1>1, <1>2, <1>4 DEF SameVerdict, StillOpen
<1> QED
  BY <1>1, <1>2, <1>5 DEF HttpInv

(* The indices, what the buffer holds and what is known of the checked     *)
(* part are kept by every step of the parser (lines 25-53, 113-138,        *)
(* 196-240 of 8-3_finite_stage_machine.cpp).                               *)
THEOREM HttpInductive == Spec => []HttpInv
<1>1. HttpInv /\ [Next]_vars => HttpInv'
  <2> SUFFICES ASSUME HttpInv, [Next]_vars PROVE HttpInv'
    OBVIOUS
  <2>1. CASE UNCHANGED vars
    BY <2>1 DEF vars, HttpInv, TypeOK, IndicesOrdered, Kept, NonePassed, Started, Resting, StillOpen,
                SameVerdict
  <2> QED
    BY <2>1, RecvStep, StopStep, NeedMoreStep, BadLineStep, RequestLineStep, BadRequestLineStep,
       HeaderStep, EndOfHeadersStep DEF Next
<1> QED
  BY <1>1, HttpStarts, PTL DEF Spec

(* Every index stays within the buffer and every field in its range.       *)
THEOREM HttpTypes == Spec => []TypeOK
<1>1. HttpInv => TypeOK
  BY DEF HttpInv
<1> QED
  BY <1>1, HttpInductive, PTL

(* The line starts before the position where parse_line resumes, which is  *)
(* within what was read (lines 196-240).                                   *)
THEOREM IndicesCorrect == Spec => []IndicesOrdered
<1>1. HttpInv => IndicesOrdered
  BY DEF HttpInv
<1> QED
  BY <1>1, HttpInductive, PTL

(* For every stream and every cut of it into pieces, after each piece the  *)
(* answer is the one the pieces together deserve (lines 25-138).           *)
THEOREM VerdictCorrect == Spec => []SameVerdict
<1>1. HttpInv => SameVerdict
  <2> SUFFICES ASSUME HttpInv, ~parsing, reply = "none" PROVE SameVerdict
    BY DEF HttpInv, SameVerdict
  <2>1. Verdict(SubSeq(stream, 1, read_index)) = "none"
    BY OpenAtRest DEF Receiving
  <2> QED
    BY <2>1 DEF SameVerdict
<1> QED
  BY <1>1, HttpInductive, PTL
=============================================================================
