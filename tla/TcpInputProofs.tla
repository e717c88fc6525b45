---------------------------- MODULE TcpInputProofs ----------------------------
(***************************************************************************)
(* Proofs about what an APS or an APC makes of the octets that come in,    *)
(* for any octets and any length of the heads and of the stream.           *)
(***************************************************************************)
EXTENDS TcpInput, SequenceTheorems, TLAPS

-----------------------------------------------------------------------------
(* Sequences that grow at the end.                                          *)

LEMMA Grows ==
    ASSUME NEW S, NEW s \in Seq(S), NEW x \in S
    PROVE  /\ Append(s, x) \in Seq(S)
           /\ Len(s) \in Nat
           /\ Len(Append(s, x)) = Len(s) + 1
           /\ \A i \in 1 .. Len(s) : Append(s, x)[i] = s[i]
           /\ Append(s, x)[Len(s) + 1] = x
BY AppendProperties, LenProperties

\* A stretch of the sequence is what it was.
LEMMA GrowsBehind ==
    ASSUME NEW S, NEW s \in Seq(S), NEW x \in S, NEW a \in Nat \ {0}, NEW b \in 0 .. Len(s)
    PROVE  SubSeq(Append(s, x), a, b) = SubSeq(s, a, b)
BY Grows

\* The stretch up to the end grows.
LEMMA GrowsWith ==
    ASSUME NEW S, NEW s \in Seq(S), NEW x \in S, NEW a \in 1 .. Len(s) + 1
    PROVE  SubSeq(Append(s, x), a, Len(s) + 1) = Append(SubSeq(s, a, Len(s)), x)
BY Grows

-----------------------------------------------------------------------------
(* HTTP heads.                                                              *)

\* The five octets of a request for the path, one by one.
LEMMA StartOfRequest ==
    ASSUME NEW S, NEW s \in Seq(S)
    PROVE  IsPrefix(<<"W", "SP", "W", "SP", "W">>, s)
             <=> /\ Len(s) >= 5
                 /\ s[1] = "W" /\ s[2] = "SP" /\ s[3] = "W" /\ s[4] = "SP" /\ s[5] = "W"
BY LenProperties DEF IsPrefix

Pieces == {"W", "P"}
ParserStates == {"Method", "Path", "Version", "HeaderLine", "ContentUntilClose", "StatusCode",
                 "ReasonPhrase"}
Grown == {"NONE", "W", "P", "SP", "OTHER"}

HttpType(p) ==
    p \in [state : ParserStates, method : Grown, path : Grown, version : Grown, line : BOOLEAN,
           verdict : {"taken", "refused", "accepted"}]

NoLineEnd(s) == \A i \in 1 .. Len(s) : s[i] # "LF"

NoBlankLine(s) == \A i \in 1 .. Len(s) - 1 : ~(s[i] = "LF" /\ s[i + 1] = "LF")

\* A header line may go on where line says so, and no blank line was taken.
LinesTaken(p, s) ==
    /\ NoBlankLine(s)
    /\ Len(s) >= 1
    /\ p.line <=> s[Len(s)] # "LF"

\* What the octets behind a say of the word that grew from them; other words
\* than "W" are told from it one octet later at the latest.
WordFrom(word, s, a) ==
    /\ word = "NONE" <=> Len(s) = a
    /\ word = "W" => Len(s) = a + 1 /\ s[a + 1] = "W"
    /\ word \notin {"NONE", "W"} => s[a + 1] # "W" \/ (Len(s) >= a + 2 /\ s[a + 2] # "SP")
    /\ \A i \in a + 1 .. Len(s) : s[i] \in Pieces

\* Whatever follows, this is no request for the path.
Other(s) ==
    \/ Len(s) >= 1 /\ s[1] # "W"
    \/ Len(s) >= 2 /\ s[2] # "SP"
    \/ Len(s) >= 3 /\ s[3] # "W"
    \/ Len(s) >= 4 /\ s[4] # "SP"
    \/ Len(s) >= 5 /\ s[5] # "W"

Method(p, s) ==
    /\ p.path = "NONE" /\ p.version = "NONE" /\ ~p.line
    /\ WordFrom(p.method, s, 0)

Path(p, s) ==
    /\ p.version = "NONE" /\ ~p.line
    /\ NoLineEnd(s)
    /\ IF p.method = "W"
       THEN Len(s) >= 2 /\ s[1] = "W" /\ s[2] = "SP" /\ WordFrom(p.path, s, 2)
       ELSE Other(s)

Version(p, s) ==
    /\ ~p.line
    /\ NoLineEnd(s)
    /\ IF p.method = "W" /\ p.path = "W"
       THEN /\ Len(s) >= 4 /\ s[1] = "W" /\ s[2] = "SP" /\ s[3] = "W" /\ s[4] = "SP"
            /\ IF p.version = "NONE" THEN Len(s) = 4 ELSE Len(s) >= 5 /\ s[5] = p.version
       ELSE Other(s)

RequestLines(p, s) ==
    /\ LinesTaken(p, s)
    /\ IF ConnectRequest(p)
       THEN Len(s) >= 5 /\ s[1] = "W" /\ s[2] = "SP" /\ s[3] = "W" /\ s[4] = "SP" /\ s[5] = "W"
       ELSE Other(s)

\* What the parser of an APS knows of the octets it took.
ServerKnows(p, s) ==
    /\ p.state = "Method" => Method(p, s)
    /\ p.state = "Path" => Path(p, s)
    /\ p.state = "Version" => Version(p, s)
    /\ p.state = "HeaderLine" => RequestLines(p, s)
    /\ p.state = "ContentUntilClose" => Other(s)
    /\ p.state \notin {"StatusCode", "ReasonPhrase"}

FirstSpace(s, k) == k \in 1 .. Len(s) /\ s[k] = "SP" /\ \A i \in 1 .. k - 1 : s[i] # "SP"

\* The status code ended, and it is 200 if and only if the parser says so.
CodeTaken(p, s) ==
    \E k \in 1 .. Len(s) :
        /\ FirstSpace(s, k)
        /\ Len(s) > k
        /\ IF p.method = "W"
           THEN Len(s) >= k + 2 /\ s[k + 1] = "W" /\ s[k + 2] = "SP"
           ELSE s[k + 1] # "W" \/ (Len(s) >= k + 2 /\ s[k + 2] # "SP")

StatusCode(p, s) ==
    /\ ~p.line
    /\ NoLineEnd(s)
    /\ \E k \in 1 .. Len(s) : FirstSpace(s, k) /\ WordFrom(p.method, s, k)

\* What the parser of an APC knows of the octets it took.
ClientKnows(p, s) ==
    /\ p.state = "Version" =>
           p.method = "NONE" /\ ~p.line /\ NoLineEnd(s) /\ \A i \in 1 .. Len(s) : s[i] # "SP"
    /\ p.state = "StatusCode" => StatusCode(p, s)
    /\ p.state = "ReasonPhrase" => ~p.line /\ NoLineEnd(s) /\ CodeTaken(p, s)
    /\ p.state = "HeaderLine" => LinesTaken(p, s) /\ CodeTaken(p, s)
    /\ p.state \in {"Version", "StatusCode", "ReasonPhrase", "HeaderLine"}

LEMMA NotBlank ==
    ASSUME NEW S, NEW s \in Seq(S), NoBlankLine(s)
    PROVE  ~EndsBlank(s)
<1>1. ASSUME Len(s) > 1 PROVE Len(s) - 1 \in 1 .. Len(s) - 1
    BY <1>1, LenProperties
<1>2. QED
    BY <1>1 DEF NoBlankLine, EndsBlank

LEMMA BlankLineComes ==
    ASSUME NEW S, NEW s \in Seq(S), NEW octet \in S, NoBlankLine(s)
    PROVE  /\ EndsBlank(Append(s, octet)) <=> octet = "LF" /\ Len(s) >= 1 /\ s[Len(s)] = "LF"
           /\ octet # "LF" \/ s[Len(s)] # "LF" => NoBlankLine(Append(s, octet))
<1> DEFINE t == Append(s, octet)
           n == Len(s)
<1>1. /\ n \in Nat /\ Len(t) = n + 1 /\ t[n + 1] = octet
      /\ \A i \in 1 .. n : t[i] = s[i]
    BY Grows
<1> HIDE DEF t, n
<1>3. ASSUME NEW i \in 1 .. n, t[i] = "LF", t[i + 1] = "LF" PROVE i = n
    BY <1>1, <1>3 DEF NoBlankLine, n
<1>4. EndsBlank(t) => octet = "LF" /\ n >= 1 /\ s[n] = "LF"
  <2>1. EndsBlank(t) => n >= 1 /\ n \in 1 .. n /\ t[n] = "LF" /\ t[n + 1] = "LF"
      BY <1>1 DEF EndsBlank
  <2>2. QED
      BY <1>1, <2>1
<1>5. octet = "LF" /\ n >= 1 /\ s[n] = "LF" => EndsBlank(t)
    BY <1>1, <1>3 DEF EndsBlank
<1>6. octet # "LF" \/ s[n] # "LF" => NoBlankLine(t)
    BY <1>1, <1>3 DEF NoBlankLine
<1>7. QED
    BY <1>4, <1>5, <1>6 DEF t, n

LEMMA LineGoesOn ==
    ASSUME NEW S, NEW s \in Seq(S), NEW octet \in S, NoLineEnd(s)
    PROVE  /\ NoBlankLine(s)
           /\ ~EndsBlank(Append(s, octet))
           /\ octet # "LF" => NoLineEnd(Append(s, octet))
           /\ NoBlankLine(Append(s, octet))
BY Grows DEF NoBlankLine, NoLineEnd, EndsBlank

LEMMA OtherStays ==
    ASSUME NEW S, NEW s \in Seq(S), NEW octet \in S, Other(s)
    PROVE  Other(Append(s, octet)) /\ ~IsRequest(s) /\ ~IsRequest(Append(s, octet))
<1>1. Other(Append(s, octet))
    BY Grows DEF Other
<1>2. \A t \in Seq(S) : Other(t) => ~IsRequest(t)
    BY StartOfRequest DEF Other, IsRequest
<1>3. QED
    BY <1>1, <1>2, Grows

\* A word goes on with a piece, or a space ends it.
LEMMA WordGoesOn ==
    ASSUME NEW S, NEW s \in Seq(S), NEW octet \in S, NEW a \in 0 .. Len(s), NEW word \in Grown,
           WordFrom(word, s, a), octet \in Pieces
    PROVE  WordFrom(Grow(word, octet), Append(s, octet), a) /\ Grow(word, octet) \in Grown
<1> DEFINE t == Append(s, octet)
           n == Len(s)
<1>1. /\ n \in Nat /\ Len(t) = n + 1 /\ t[n + 1] = octet
      /\ \A i \in 1 .. n : t[i] = s[i]
    BY Grows
<1> HIDE DEF t
<1>2. CASE word = "NONE"
    BY <1>1, <1>2 DEF WordFrom, Grow, Grown, Pieces
<1>3. CASE word # "NONE"
  <2>1. Grow(word, octet) = "OTHER" /\ n > a
      BY <1>1, <1>3 DEF WordFrom, Grow
  <2>2. t[a + 1] # "W" \/ (Len(t) >= a + 2 /\ t[a + 2] # "SP")
      BY <1>1, <1>3, <2>1 DEF WordFrom, Pieces
  <2>3. \A i \in a + 1 .. Len(t) : t[i] \in Pieces
      BY <1>1 DEF WordFrom
  <2>4. QED
      BY <1>1, <2>1, <2>2, <2>3 DEF WordFrom, Grown, t
<1>4. QED
    BY <1>2, <1>3 DEF t

LEMMA WordEnds ==
    ASSUME NEW S, NEW s \in Seq(S), "SP" \in S, NEW a \in 0 .. Len(s), NEW word \in Grown,
           WordFrom(word, s, a), NEW t, t = Append(s, "SP")
    PROVE  /\ Len(t) > a
           /\ word = "W" => Len(t) = a + 2 /\ t[a + 1] = "W" /\ t[a + 2] = "SP"
           /\ word # "W" => t[a + 1] # "W" \/ (Len(t) >= a + 2 /\ t[a + 2] # "SP")
<1> DEFINE n == Len(s)
<1>1. /\ n \in Nat /\ Len(t) = n + 1 /\ t[n + 1] = "SP"
      /\ \A i \in 1 .. n : t[i] = s[i]
    BY Grows
<1>2. CASE word = "NONE"
    BY <1>1, <1>2 DEF WordFrom
<1>3. CASE word = "W"
    BY <1>1, <1>3 DEF WordFrom
<1>4. CASE word \notin {"NONE", "W"}
    BY <1>1, <1>4 DEF WordFrom
<1>5. QED
    BY <1>2, <1>3, <1>4

\* A request for the path, octet by octet.
LEMMA RequestIs ==
    ASSUME NEW S, NEW s \in Seq(S)
    PROVE  IsRequest(s) <=>
             /\ EndsBlank(s)
             /\ Len(s) >= 5
             /\ s[1] = "W" /\ s[2] = "SP" /\ s[3] = "W" /\ s[4] = "SP" /\ s[5] = "W"
BY StartOfRequest DEF IsRequest

\* Octet comes behind head s, which makes it t, and the parser q.
ServerMoves(s, octet, t, q) ==
    /\ HttpType(q)
    /\ q.verdict = "accepted" <=> IsRequest(t)
    /\ q.verdict = "taken" /\ octet # "CR" => ServerKnows(q, t)
    /\ q.verdict = "taken" /\ octet = "CR" => ServerKnows(q, s)
    /\ q.verdict = "refused" => ServerKnows(q, s)

\* The verdict is no part of what the parsers know.
LEMMA VerdictOnly ==
    ASSUME NEW p, HttpType(p), NEW v \in {"taken", "refused"}, NEW q, q = [p EXCEPT !.verdict = v],
           NEW s
    PROVE  /\ HttpType(q) /\ q.verdict = v
           /\ ServerKnows(p, s) => ServerKnows(q, s)
           /\ ClientKnows(p, s) => ClientKnows(q, s)
<1>1. HttpType(q) /\ q.verdict = v
    BY DEF HttpType
<1>2. /\ q.state = p.state /\ q.method = p.method /\ q.path = p.path
      /\ q.version = p.version /\ q.line = p.line
    BY DEF HttpType
<1>3. ServerKnows(p, s) => ServerKnows(q, s)
    BY <1>2 DEF ServerKnows, Method, Path, Version, RequestLines, LinesTaken, ConnectRequest
<1>4. ClientKnows(p, s) => ClientKnows(q, s)
    BY <1>2 DEF ClientKnows, StatusCode, CodeTaken, LinesTaken
<1>5. QED
    BY <1>1, <1>3, <1>4

LEMMA MethodMoves ==
    ASSUME NEW S, NEW s \in Seq(S), NEW octet \in S, NEW p, HttpType(p), ServerKnows(p, s),
           NEW t, t = Append(s, octet), NEW q, q = ServerParse(p, octet), p.state = "Method"
    PROVE  ServerMoves(s, octet, t, q)
<1>0. /\ Method(p, s) /\ p.method \in Grown /\ t \in Seq(S) /\ Len(s) \in Nat
      /\ Len(t) = Len(s) + 1 /\ t[Len(s) + 1] = octet
    BY Grows DEF ServerKnows, HttpType
<1>1. NoLineEnd(s) /\ ~IsRequest(t)
  <2>1. NoLineEnd(s)
      BY <1>0 DEF Method, WordFrom, NoLineEnd, Pieces
  <2>2. QED
      BY <1>0, <2>1, LineGoesOn, RequestIs
<1>2. CASE octet = "SP"
  <2>1. q = [p EXCEPT !.verdict = "taken", !.state = "Path"]
      BY <1>2 DEF ServerParse
  <2>2. HttpType(q) /\ q.verdict = "taken" /\ q.state = "Path"
      BY <2>1 DEF HttpType, ParserStates
  <2>3. q.method = p.method /\ q.path = "NONE" /\ q.version = "NONE" /\ ~q.line
      BY <1>0, <2>1 DEF HttpType, Method
  <2>4. NoLineEnd(t)
      BY <1>1, <1>2, LineGoesOn
  <2>5. WordFrom(p.method, s, 0)
      BY <1>0 DEF Method
  <2>6. /\ p.method = "W" => Len(t) = 0 + 2 /\ t[0 + 1] = "W" /\ t[0 + 2] = "SP"
        /\ p.method # "W" => t[0 + 1] # "W" \/ (Len(t) >= 0 + 2 /\ t[0 + 2] # "SP")
      BY <1>0, <1>2, <2>5, WordEnds
  <2>7. Path(q, t)
    <3>1. CASE p.method = "W"
        BY <2>3, <2>4, <2>6, <3>1 DEF Path, WordFrom
    <3>2. CASE p.method # "W"
        BY <1>0, <2>3, <2>4, <2>6, <3>2 DEF Path, Other
    <3>3. QED
        BY <3>1, <3>2
  <2>8. QED
      BY <1>1, <1>2, <2>2, <2>7 DEF ServerMoves, ServerKnows
<1>3. CASE octet \in Pieces
  <2>1. q = [p EXCEPT !.verdict = "taken", !.method = Grow(@, octet)]
      BY <1>3 DEF ServerParse, Printable, Pieces
  <2>2. WordFrom(Grow(p.method, octet), t, 0) /\ Grow(p.method, octet) \in Grown
      BY <1>0, <1>3, WordGoesOn DEF Method
  <2>3. HttpType(q) /\ q.verdict = "taken" /\ q.state = "Method"
      BY <2>1, <2>2 DEF HttpType
  <2>4. q.method = Grow(p.method, octet) /\ q.path = "NONE" /\ q.version = "NONE" /\ ~q.line
      BY <1>0, <2>1 DEF HttpType, Method
  <2>5. ServerKnows(q, t)
      BY <2>2, <2>3, <2>4 DEF ServerKnows, Method
  <2>6. octet # "CR"
      BY <1>3 DEF Pieces
  <2>7. QED
      BY <1>1, <2>3, <2>5, <2>6 DEF ServerMoves
<1>4. CASE octet # "SP" /\ octet \notin Pieces
  <2>1. q = [p EXCEPT !.verdict = "refused"]
      BY <1>4 DEF ServerParse, Printable, Pieces, Refused, HttpType
  <2>2. QED
      BY <1>1, <2>1, VerdictOnly DEF ServerMoves
<1>5. QED
    BY <1>2, <1>3, <1>4

LEMMA PathMoves ==
    ASSUME NEW S, NEW s \in Seq(S), NEW octet \in S, NEW p, HttpType(p), ServerKnows(p, s),
           NEW t, t = Append(s, octet), NEW q, q = ServerParse(p, octet), p.state = "Path"
    PROVE  ServerMoves(s, octet, t, q)
<1>0. /\ Path(p, s) /\ p.method \in Grown /\ p.path \in Grown /\ t \in Seq(S) /\ Len(s) \in Nat
      /\ Len(t) = Len(s) + 1 /\ t[Len(s) + 1] = octet /\ \A i \in 1 .. Len(s) : t[i] = s[i]
    BY Grows DEF ServerKnows, HttpType
<1>1. NoLineEnd(s) /\ ~IsRequest(t) /\ (octet # "LF" => NoLineEnd(t))
    BY <1>0, LineGoesOn, RequestIs DEF Path
<1>2. p.method # "W" => Other(t)
    BY <1>0, OtherStays DEF Path
<1>3. CASE octet = "SP"
  <2>1. q = [p EXCEPT !.verdict = "taken", !.state = "Version"]
      BY <1>3 DEF ServerParse
  <2>2. HttpType(q) /\ q.verdict = "taken" /\ q.state = "Version"
      BY <2>1 DEF HttpType, ParserStates
  <2>3. q.method = p.method /\ q.path = p.path /\ q.version = "NONE" /\ ~q.line
      BY <1>0, <2>1 DEF HttpType, Path
  <2>4. Version(q, t)
    <3>1. CASE p.method = "W"
      <4>1. Len(s) >= 2 /\ s[1] = "W" /\ s[2] = "SP" /\ WordFrom(p.path, s, 2)
          BY <1>0, <3>1 DEF Path
      <4>2. /\ Len(t) > 2
            /\ p.path = "W" => Len(t) = 2 + 2 /\ t[2 + 1] = "W" /\ t[2 + 2] = "SP"
            /\ p.path # "W" => t[2 + 1] # "W" \/ (Len(t) >= 2 + 2 /\ t[2 + 2] # "SP")
          BY <1>0, <1>3, <4>1, WordEnds
      <4>3. QED
          BY <1>0, <1>1, <1>3, <2>3, <3>1, <4>1, <4>2 DEF Version, Other
    <3>2. CASE p.method # "W"
        BY <1>1, <1>2, <1>3, <2>3, <3>2 DEF Version
    <3>3. QED
        BY <3>1, <3>2
  <2>5. QED
      BY <1>1, <1>3, <2>2, <2>4 DEF ServerMoves, ServerKnows
<1>4. CASE octet \in Pieces
  <2>1. q = [p EXCEPT !.verdict = "taken", !.path = Grow(@, octet)]
      BY <1>4 DEF ServerParse, Printable, Pieces
  <2>2. Grow(p.path, octet) \in Grown
      BY <1>4 DEF Grow, Grown, Pieces
  <2>3. HttpType(q) /\ q.verdict = "taken" /\ q.state = "Path"
      BY <2>1, <2>2 DEF HttpType
  <2>4. /\ q.method = p.method /\ q.path = Grow(p.path, octet) /\ q.version = "NONE" /\ ~q.line
      BY <1>0, <2>1 DEF HttpType, Path
  <2>5. octet \notin {"CR", "LF"}
      BY <1>4 DEF Pieces
  <2>6. Path(q, t)
    <3>1. CASE p.method = "W"
      <4>1. Len(s) >= 2 /\ s[1] = "W" /\ s[2] = "SP" /\ WordFrom(p.path, s, 2)
          BY <1>0, <3>1 DEF Path
      <4>2. WordFrom(Grow(p.path, octet), t, 2)
          BY <1>0, <1>4, <4>1, WordGoesOn
      <4>3. QED
          BY <1>0, <1>1, <2>4, <2>5, <3>1, <4>1, <4>2 DEF Path
    <3>2. CASE p.method # "W"
        BY <1>1, <1>2, <2>4, <2>5, <3>2 DEF Path
    <3>3. QED
        BY <3>1, <3>2
  <2>7. QED
      BY <1>1, <2>3, <2>5, <2>6 DEF ServerMoves, ServerKnows
<1>5. CASE octet # "SP" /\ octet \notin Pieces
  <2>1. q = [p EXCEPT !.verdict = "refused"]
      BY <1>5 DEF ServerParse, Printable, Pieces, Refused, HttpType
  <2>2. QED
      BY <1>1, <2>1, VerdictOnly DEF ServerMoves
<1>6. QED
    BY <1>3, <1>4, <1>5

LEMMA VersionMoves ==
    ASSUME NEW S, NEW s \in Seq(S), NEW octet \in S, NEW p, HttpType(p), ServerKnows(p, s),
           NEW t, t = Append(s, octet), NEW q, q = ServerParse(p, octet), p.state = "Version"
    PROVE  ServerMoves(s, octet, t, q)
<1>0. /\ Version(p, s) /\ p.version \in Grown /\ t \in Seq(S) /\ Len(s) \in Nat
      /\ Len(t) = Len(s) + 1 /\ t[Len(s) + 1] = octet /\ \A i \in 1 .. Len(s) : t[i] = s[i]
    BY Grows DEF ServerKnows, HttpType
<1>1. NoBlankLine(t) /\ ~IsRequest(t) /\ (octet # "LF" => NoLineEnd(t))
    BY <1>0, LineGoesOn, RequestIs DEF Version
<1>2. ~(p.method = "W" /\ p.path = "W") => Other(t)
    BY <1>0, OtherStays DEF Version
<1>3. CASE octet = "LF"
  <2>1. q = [p EXCEPT !.verdict = "taken", !.state = "HeaderLine"]
      BY <1>3 DEF ServerParse
  <2>2. HttpType(q) /\ q.verdict = "taken" /\ q.state = "HeaderLine"
      BY <2>1 DEF HttpType, ParserStates
  <2>3. q.method = p.method /\ q.path = p.path /\ q.version = p.version /\ ~q.line
      BY <1>0, <2>1 DEF HttpType, Version
  <2>4. LinesTaken(q, t)
      BY <1>0, <1>1, <1>3, <2>3 DEF LinesTaken
  <2>5. IF ConnectRequest(q)
        THEN Len(t) >= 5 /\ t[1] = "W" /\ t[2] = "SP" /\ t[3] = "W" /\ t[4] = "SP" /\ t[5] = "W"
        ELSE Other(t)
    <3>1. CASE p.method = "W" /\ p.path = "W" /\ p.version = "NONE"
      <4>1. Len(s) = 4
          BY <1>0, <3>1 DEF Version
      <4>2. Len(t) = 5 /\ t[5] = "LF"
          BY <1>0, <1>3, <4>1
      <4>3. QED
          BY <2>3, <3>1, <4>2 DEF ConnectRequest, Other
    <3>2. CASE p.method = "W" /\ p.path = "W" /\ p.version # "NONE"
        BY <1>0, <2>3, <3>2 DEF Version, ConnectRequest, Other
    <3>3. CASE ~(p.method = "W" /\ p.path = "W")
        BY <1>2, <2>3, <3>3 DEF ConnectRequest
    <3>4. QED
        BY <3>1, <3>2, <3>3
  <2>6. RequestLines(q, t)
      BY <2>4, <2>5 DEF RequestLines
  <2>7. QED
      BY <1>1, <1>3, <2>2, <2>6 DEF ServerMoves, ServerKnows
<1>4. CASE Printable(octet)
  <2>1. q = [p EXCEPT !.verdict = "taken", !.version = GrowPrefix(@, octet)]
      BY <1>4 DEF ServerParse, Printable
  <2>2. GrowPrefix(p.version, octet) \in Grown
      BY <1>0, <1>4 DEF GrowPrefix, Grown, Printable
  <2>3. HttpType(q) /\ q.verdict = "taken" /\ q.state = "Version"
      BY <2>1, <2>2 DEF HttpType
  <2>4. /\ q.method = p.method /\ q.path = p.path
        /\ q.version = IF p.version = "NONE" THEN octet ELSE p.version
        /\ ~q.line
      BY <1>0, <2>1 DEF HttpType, Version, GrowPrefix
  <2>5. octet \notin {"CR", "LF", "NONE"}
      BY <1>4 DEF Printable
  <2>6. Version(q, t)
    <3>1. CASE p.method = "W" /\ p.path = "W"
      <4>1. /\ Len(s) >= 4 /\ s[1] = "W" /\ s[2] = "SP" /\ s[3] = "W" /\ s[4] = "SP"
            /\ IF p.version = "NONE" THEN Len(s) = 4 ELSE Len(s) >= 5 /\ s[5] = p.version
          BY <1>0, <3>1 DEF Version
      <4>2. t[1] = "W" /\ t[2] = "SP" /\ t[3] = "W" /\ t[4] = "SP"
          BY <1>0, <4>1
      <4>3. Len(t) >= 5 /\ t[5] = q.version /\ q.version # "NONE"
          BY <1>0, <2>4, <2>5, <4>1
      <4>4. QED
          BY <1>1, <2>4, <2>5, <3>1, <4>2, <4>3 DEF Version
    <3>2. CASE ~(p.method = "W" /\ p.path = "W")
        BY <1>1, <1>2, <2>4, <2>5, <3>2 DEF Version
    <3>3. QED
        BY <3>1, <3>2
  <2>7. QED
      BY <1>1, <2>3, <2>5, <2>6 DEF ServerMoves, ServerKnows
<1>5. CASE octet = "CR"
  <2>1. q = [p EXCEPT !.verdict = "taken"]
      BY <1>5 DEF ServerParse, Printable
  <2>2. QED
      BY <1>1, <1>5, <2>1, VerdictOnly DEF ServerMoves
<1>6. CASE octet \notin {"LF", "CR"} /\ ~Printable(octet)
  <2>1. q = [p EXCEPT !.verdict = "refused"]
      BY <1>6 DEF ServerParse, Refused, HttpType
  <2>2. QED
      BY <1>1, <2>1, VerdictOnly DEF ServerMoves
<1>7. QED
    BY <1>3, <1>4, <1>5, <1>6
\* Octet comes behind head s, which makes it t and takes the parser from p to
\* q, between header lines or in one.
LinesMove(p, s, octet, t, q) ==
    /\ HttpType(q)
    /\ q.state = p.state /\ q.method = p.method /\ q.path = p.path /\ q.version = p.version
    /\ q.verdict \in {"taken", "refused"}
    /\ q.verdict = "taken" /\ octet # "CR" => LinesTaken(q, t)
    /\ q.verdict = "refused" \/ octet = "CR" => LinesTaken(q, s)
    /\ ~EndsBlank(t)

\* So it is for both parsers, unless octet completes the blank line.
LEMMA LinesGoOn ==
    ASSUME NEW S, NEW s \in Seq(S), NEW octet \in S, NEW p, HttpType(p), LinesTaken(p, s),
           NEW t, t = Append(s, octet), octet # "LF" \/ p.line,
           NEW r, r = [p EXCEPT !.verdict = "taken"],
           NEW done, NEW q, q = HeaderLine(r, octet, done)
    PROVE  LinesMove(p, s, octet, t, q)
<1> USE DEF LinesMove
<1> DEFINE Others(u) == /\ u.state = p.state /\ u.method = p.method /\ u.path = p.path
                        /\ u.version = p.version
<1>0. /\ Len(s) \in Nat /\ Len(t) = Len(s) + 1 /\ t[Len(t)] = octet /\ p.line \in BOOLEAN
      /\ Len(s) >= 1 /\ (p.line <=> s[Len(s)] # "LF") /\ NoBlankLine(s)
    BY Grows DEF LinesTaken, HttpType
<1>. /\ HttpType(r) /\ r.verdict = "taken" /\ r.state = p.state /\ r.method = p.method
     /\ r.path = p.path /\ r.version = p.version /\ r.line = p.line
    BY DEF HttpType
<1>1. NoBlankLine(t) /\ ~EndsBlank(t)
    BY <1>0, BlankLineComes
<1>2. CASE octet = "LF"
  <2>1. q = [r EXCEPT !.line = FALSE]
      BY <1>2 DEF HeaderLine
  <2>2. HttpType(q) /\ Others(q) /\ q.verdict = "taken" /\ ~q.line
      BY <2>1 DEF HttpType
  <2>3. LinesTaken(q, t)
      BY <1>0, <1>1, <1>2, <2>2 DEF LinesTaken
  <2>4. QED
      BY <1>1, <1>2, <2>2, <2>3
<1>3. CASE Printable(octet)
  <2>1. q = [r EXCEPT !.line = TRUE] /\ octet \notin {"LF", "CR"}
      BY <1>3 DEF HeaderLine, Printable
  <2>2. HttpType(q) /\ Others(q) /\ q.verdict = "taken" /\ q.line
      BY <2>1 DEF HttpType
  <2>3. LinesTaken(q, t)
      BY <1>0, <1>1, <2>1, <2>2 DEF LinesTaken
  <2>4. QED
      BY <1>1, <2>1, <2>2, <2>3
<1>4. CASE octet = "CR"
  <2>1. q = r
      BY <1>4 DEF HeaderLine, Printable
  <2>2. QED
      BY <1>0, <1>1, <1>4, <2>1 DEF HttpType, LinesTaken
<1>5. CASE octet \notin {"LF", "CR"} /\ ~Printable(octet)
  <2>1. q = [r EXCEPT !.verdict = "refused"]
      BY <1>5 DEF HeaderLine, Refused
  <2>2. QED
      BY <1>0, <1>1, <2>1 DEF HttpType, LinesTaken
<1>6. QED
    BY <1>2, <1>3, <1>4, <1>5

LEMMA RequestLinesMove ==
    ASSUME NEW S, NEW s \in Seq(S), NEW octet \in S, NEW p, HttpType(p), ServerKnows(p, s),
           NEW t, t = Append(s, octet), NEW q, q = ServerParse(p, octet), p.state = "HeaderLine"
    PROVE  ServerMoves(s, octet, t, q)
<1> DEFINE IsConnect(u) == Len(u) >= 5 /\ u[1] = "W" /\ u[2] = "SP" /\ u[3] = "W" /\ u[4] = "SP"
                                       /\ u[5] = "W"
<1>. PICK r : r = [p EXCEPT !.verdict = "taken"]
    OBVIOUS
<1>. /\ HttpType(r) /\ r.verdict = "taken" /\ r.state = p.state /\ r.method = p.method
     /\ r.path = p.path /\ r.version = p.version /\ r.line = p.line
    BY DEF HttpType
<1>0. /\ RequestLines(p, s) /\ t \in Seq(S) /\ Len(s) \in Nat
      /\ Len(t) = Len(s) + 1 /\ t[Len(s) + 1] = octet /\ \A i \in 1 .. Len(s) : t[i] = s[i]
    BY Grows DEF ServerKnows
<1>1. IF ConnectRequest(p) THEN IsConnect(t) ELSE Other(t)
    BY <1>0, OtherStays DEF RequestLines
<1>2. Other(t) => ~IsRequest(t)
    BY <1>0, RequestIs DEF Other
<1>3. CASE octet # "LF" \/ p.line
  <2>1. q = HeaderLine(r, octet, RequestEnds(r))
      BY DEF ServerParse
  <2>. LinesTaken(p, s)
      BY <1>0 DEF RequestLines
  <2>2. LinesMove(p, s, octet, t, q)
      BY <1>3, <2>1, LinesGoOn
  <2> USE DEF LinesMove
  <2>3. ConnectRequest(q) <=> ConnectRequest(p)
      BY <2>2 DEF ConnectRequest
  <2>4. /\ q.verdict = "taken" /\ octet # "CR" => RequestLines(q, t)
        /\ q.verdict = "refused" \/ octet = "CR" => RequestLines(q, s)
      BY <1>0, <1>1, <2>2, <2>3 DEF RequestLines
  <2>5. ~IsRequest(t)
      BY <2>2 DEF IsRequest
  <2>6. QED
      BY <2>2, <2>4, <2>5 DEF ServerMoves, ServerKnows
<1>4. CASE octet = "LF" /\ ~p.line
  <2>1. q = RequestEnds(r)
      BY <1>4 DEF ServerParse, HeaderLine
  <2>2. EndsBlank(t)
      BY <1>0, <1>4, BlankLineComes DEF RequestLines, LinesTaken
  <2>3. CASE p.method = "P"
    <3>1. q = [r EXCEPT !.state = "ContentUntilClose"]
        BY <2>1, <2>3 DEF RequestEnds
    <3>2. HttpType(q) /\ q.verdict = "taken" /\ q.state = "ContentUntilClose"
        BY <3>1 DEF HttpType, ParserStates
    <3>3. Other(t)
        BY <1>1, <2>3 DEF ConnectRequest
    <3>4. QED
        BY <1>2, <1>4, <3>2, <3>3 DEF ServerMoves, ServerKnows
  <2>4. CASE ConnectRequest(p)
    <3>1. q = [r EXCEPT !.verdict = "accepted"]
        BY <2>1, <2>4 DEF RequestEnds, ConnectRequest
    <3>2. HttpType(q) /\ q.verdict = "accepted"
        BY <3>1 DEF HttpType
    <3>3. IsRequest(t)
        BY <1>0, <1>1, <2>2, <2>4, RequestIs
    <3>4. QED
        BY <3>2, <3>3 DEF ServerMoves
  <2>5. CASE p.method # "P" /\ ~ConnectRequest(p)
    <3>1. q = [r EXCEPT !.verdict = "refused"]
        BY <2>1, <2>5 DEF RequestEnds, ConnectRequest, Refused
    <3>2. q = [p EXCEPT !.verdict = "refused"]
        BY <3>1 DEF HttpType
    <3>3. QED
        BY <1>1, <1>2, <2>5, <3>2, VerdictOnly DEF ServerMoves
  <2>6. QED
      BY <2>3, <2>4, <2>5 DEF ConnectRequest
<1>5. QED
    BY <1>3, <1>4

\* The octets of an APS's head.
LEMMA ServerReads ==
    ASSUME NEW S, NEW s \in Seq(S), NEW octet \in S, NEW p, HttpType(p), ServerKnows(p, s)
    PROVE  ServerMoves(s, octet, Append(s, octet), ServerParse(p, octet))
<1>1. CASE p.state = "ContentUntilClose"
  <2>1. ServerParse(p, octet) = [p EXCEPT !.verdict = "taken"]
      BY <1>1 DEF ServerParse, HttpType
  <2>2. Other(s) /\ Other(Append(s, octet)) /\ ~IsRequest(Append(s, octet))
      BY <1>1, OtherStays DEF ServerKnows
  <2>3. QED
      BY <1>1, <2>1, <2>2, VerdictOnly DEF ServerMoves, ServerKnows, HttpType
<1>2. QED
    BY <1>1, MethodMoves, PathMoves, VersionMoves, RequestLinesMove
       DEF ServerKnows, HttpType, ParserStates

\* The first space alone decides where the status code is.
LEMMA ResponseIs ==
    ASSUME NEW S, NEW s \in Seq(S), NEW k \in 1 .. Len(s), FirstSpace(s, k)
    PROVE  IsResponse(s) <=>
             EndsBlank(s) /\ Len(s) >= k + 2 /\ s[k + 1] = "W" /\ s[k + 2] = "SP"
<1>1. Len(s) \in Nat
    BY LenProperties
<1>2. ASSUME NEW i \in 1 .. Len(s) - 2
      PROVE  SubSeq(s, i, i + 2) = <<"SP", "W", "SP">>
               <=> s[i] = "SP" /\ s[i + 1] = "W" /\ s[i + 2] = "SP"
  <2> DEFINE u == SubSeq(s, i, i + 2)
  <2>0. i \in Int /\ i + 2 \in Int /\ \A j \in i .. i + 2 : s[j] \in S
      BY <1>1, ElementOfSeq
  <2>1. u \in Seq(S) /\ Len(u) = 3 /\ u[1] = s[i] /\ u[2] = s[i + 1] /\ u[3] = s[i + 2]
    <3>1. /\ u \in Seq(S) /\ Len(u) = (i + 2) - i + 1
          /\ \A j \in 1 .. (i + 2) - i + 1 : u[j] = s[i + j - 1]
        BY <2>0, SubSeqProperties
    <3>2. QED
        BY <2>0, <3>1
  <2> HIDE DEF u
  <2>2. u = <<u[1], u[2], u[3]>>
      BY <2>1
  <2>3. QED
      BY <2>1, <2>2 DEF u
<1>3. ASSUME NEW i \in 1 .. Len(s) - 2, s[i] = "SP", \A j \in 1 .. i - 1 : s[j] # "SP"
      PROVE  i = k
    BY <1>1, <1>3 DEF FirstSpace
<1>4. ASSUME IsResponse(s)
      PROVE  EndsBlank(s) /\ Len(s) >= k + 2 /\ s[k + 1] = "W" /\ s[k + 2] = "SP"
  <2>1. PICK i \in 1 .. Len(s) - 2 : /\ SubSeq(s, i, i + 2) = <<"SP", "W", "SP">>
                                     /\ \A j \in 1 .. i - 1 : s[j] # "SP"
      BY <1>4 DEF IsResponse
  <2>2. s[i] = "SP" /\ s[i + 1] = "W" /\ s[i + 2] = "SP"
      BY <1>2, <2>1
  <2>3. i = k
      BY <1>3, <2>1, <2>2
  <2>4. QED
      BY <1>1, <1>4, <2>2, <2>3 DEF IsResponse
<1>5. ASSUME EndsBlank(s), Len(s) >= k + 2, s[k + 1] = "W", s[k + 2] = "SP"
      PROVE  IsResponse(s)
  <2>1. k \in 1 .. Len(s) - 2 /\ s[k] = "SP" /\ \A j \in 1 .. k - 1 : s[j] # "SP"
      BY <1>1, <1>5 DEF FirstSpace
  <2>2. SubSeq(s, k, k + 2) = <<"SP", "W", "SP">>
      BY <1>2, <1>5, <2>1
  <2>3. QED
      BY <1>5, <2>1, <2>2 DEF IsResponse
<1>6. QED
    BY <1>4, <1>5

LEMMA CodeStays ==
    ASSUME NEW S, NEW s \in Seq(S), NEW octet \in S, NEW t, t = Append(s, octet),
           NEW p, NEW q, q.method = p.method, CodeTaken(p, s)
    PROVE  /\ CodeTaken(q, t) /\ CodeTaken(q, s)
           /\ IsResponse(t) <=> EndsBlank(t) /\ p.method = "W"
<1>0. /\ t \in Seq(S) /\ Len(s) \in Nat /\ Len(t) = Len(s) + 1
      /\ \A i \in 1 .. Len(s) : t[i] = s[i]
    BY Grows
<1>1. PICK k \in 1 .. Len(s) :
          /\ FirstSpace(s, k)
          /\ Len(s) > k
          /\ IF p.method = "W"
             THEN Len(s) >= k + 2 /\ s[k + 1] = "W" /\ s[k + 2] = "SP"
             ELSE s[k + 1] # "W" \/ (Len(s) >= k + 2 /\ s[k + 2] # "SP")
    BY DEF CodeTaken
<1>2. k \in 1 .. Len(t) /\ FirstSpace(t, k) /\ Len(t) > k
  <2>1. Len(t) > k /\ k \in 1 .. Len(t)
      BY <1>0, <1>1
  <2>2. t[k] = "SP" /\ \A i \in 1 .. k - 1 : t[i] # "SP"
      BY <1>0, <1>1 DEF FirstSpace
  <2>3. QED
      BY <2>1, <2>2 DEF FirstSpace
<1>3. IF p.method = "W"
      THEN Len(t) >= k + 2 /\ t[k + 1] = "W" /\ t[k + 2] = "SP"
      ELSE t[k + 1] # "W" \/ (Len(t) >= k + 2 /\ t[k + 2] # "SP")
    BY <1>0, <1>1
<1>4. CodeTaken(q, t)
    BY <1>2, <1>3 DEF CodeTaken
<1>5. CodeTaken(q, s)
    BY <1>1 DEF CodeTaken
<1>6. IsResponse(t) <=> EndsBlank(t) /\ p.method = "W"
  <2>1. IsResponse(t) <=> EndsBlank(t) /\ Len(t) >= k + 2 /\ t[k + 1] = "W" /\ t[k + 2] = "SP"
      BY <1>0, <1>2, ResponseIs
  <2>2. CASE p.method = "W"
      BY <1>3, <2>1, <2>2
  <2>3. CASE p.method # "W"
      BY <1>3, <2>1, <2>3
  <2>4. QED
      BY <2>2, <2>3
<1>7. QED
    BY <1>4, <1>5, <1>6
\* The same as ServerMoves.
ClientMoves(s, octet, t, q) ==
    /\ HttpType(q)
    /\ q.verdict = "accepted" <=> IsResponse(t)
    /\ q.verdict = "taken" /\ octet # "CR" => ClientKnows(q, t)
    /\ q.verdict = "taken" /\ octet = "CR" => ClientKnows(q, s)
    /\ q.verdict = "refused" => ClientKnows(q, s)

LEMMA ClientVersionMoves ==
    ASSUME NEW S, NEW s \in Seq(S), NEW octet \in S, NEW p, HttpType(p), ClientKnows(p, s),
           NEW t, t = Append(s, octet), NEW q, q = ClientParse(p, octet), p.state = "Version"
    PROVE  ClientMoves(s, octet, t, q)
<1>0. /\ t \in Seq(S) /\ Len(s) \in Nat /\ Len(t) = Len(s) + 1
      /\ t[Len(s) + 1] = octet /\ \A i \in 1 .. Len(s) : t[i] = s[i]
    BY Grows
<1>1. p.method = "NONE" /\ ~p.line /\ NoLineEnd(s) /\ \A i \in 1 .. Len(s) : s[i] # "SP"
    BY DEF ClientKnows
<1>2. ~IsResponse(t) /\ (octet # "LF" => NoLineEnd(t))
    BY <1>1, LineGoesOn DEF IsResponse
<1>3. CASE octet = "SP"
  <2>1. q = [p EXCEPT !.verdict = "taken", !.state = "StatusCode"]
      BY <1>3 DEF ClientParse
  <2>2. HttpType(q) /\ q.verdict = "taken" /\ q.state = "StatusCode"
      BY <2>1 DEF HttpType, ParserStates
  <2>3. q.method = "NONE" /\ ~q.line
      BY <1>1, <2>1 DEF HttpType
  <2>4. FirstSpace(t, Len(t)) /\ Len(t) \in 1 .. Len(t)
      BY <1>0, <1>1, <1>3 DEF FirstSpace
  <2>5. WordFrom("NONE", t, Len(t))
      BY <1>0 DEF WordFrom
  <2>6. StatusCode(q, t)
      BY <1>2, <1>3, <2>3, <2>4, <2>5 DEF StatusCode
  <2>7. QED
      BY <1>2, <1>3, <2>2, <2>6 DEF ClientMoves, ClientKnows
<1>4. CASE octet \in Pieces
  <2>1. q = [p EXCEPT !.verdict = "taken"]
      BY <1>4 DEF ClientParse, Printable, Pieces
  <2>2. HttpType(q) /\ q.verdict = "taken" /\ q.state = "Version" /\ q.method = "NONE" /\ ~q.line
      BY <1>1, <2>1 DEF HttpType
  <2>3. NoLineEnd(t) /\ \A i \in 1 .. Len(t) : t[i] # "SP"
      BY <1>0, <1>1, <1>2, <1>4 DEF Pieces
  <2>4. octet # "CR"
      BY <1>4 DEF Pieces
  <2>5. QED
      BY <1>2, <2>2, <2>3, <2>4 DEF ClientMoves, ClientKnows
<1>5. CASE octet = "CR"
  <2>1. q = [p EXCEPT !.verdict = "taken"]
      BY <1>5 DEF ClientParse
  <2>2. QED
      BY <1>2, <1>5, <2>1, VerdictOnly DEF ClientMoves
<1>6. CASE octet \notin {"SP", "CR"} /\ octet \notin Pieces
  <2>1. q = [p EXCEPT !.verdict = "refused"]
      BY <1>6 DEF ClientParse, Printable, Pieces, Refused, HttpType
  <2>2. QED
      BY <1>2, <2>1, VerdictOnly DEF ClientMoves
<1>7. QED
    BY <1>3, <1>4, <1>5, <1>6

LEMMA StatusCodeMoves ==
    ASSUME NEW S, NEW s \in Seq(S), NEW octet \in S, NEW p, HttpType(p), ClientKnows(p, s),
           NEW t, t = Append(s, octet), NEW q, q = ClientParse(p, octet), p.state = "StatusCode"
    PROVE  ClientMoves(s, octet, t, q)
<1>0. /\ t \in Seq(S) /\ Len(s) \in Nat /\ Len(t) = Len(s) + 1 /\ p.method \in Grown
      /\ t[Len(s) + 1] = octet /\ \A i \in 1 .. Len(s) : t[i] = s[i]
    BY Grows DEF HttpType
<1>1. ~p.line /\ NoLineEnd(s)
    BY DEF ClientKnows, StatusCode
<1>2. ~IsResponse(t) /\ (octet # "LF" => NoLineEnd(t))
    BY <1>1, LineGoesOn DEF IsResponse
<1>3. PICK k \in 1 .. Len(s) : FirstSpace(s, k) /\ WordFrom(p.method, s, k)
    BY DEF ClientKnows, StatusCode
<1>4. k \in 1 .. Len(t) /\ FirstSpace(t, k)
    BY <1>0, <1>3 DEF FirstSpace
<1>5. CASE octet = "SP"
  <2>1. q = [p EXCEPT !.verdict = "taken", !.state = "ReasonPhrase"]
      BY <1>5 DEF ClientParse
  <2>2. HttpType(q) /\ q.verdict = "taken" /\ q.state = "ReasonPhrase"
      BY <2>1 DEF HttpType, ParserStates
  <2>3. q.method = p.method /\ ~q.line
      BY <1>1, <2>1 DEF HttpType
  <2>4. /\ Len(t) > k
        /\ p.method = "W" => Len(t) = k + 2 /\ t[k + 1] = "W" /\ t[k + 2] = "SP"
        /\ p.method # "W" => t[k + 1] # "W" \/ (Len(t) >= k + 2 /\ t[k + 2] # "SP")
    <3>1. k \in 0 .. Len(s) /\ "SP" \in S /\ t = Append(s, "SP")
        BY <1>0, <1>5
    <3>2. QED
        BY <1>0, <1>3, <3>1, WordEnds
  <2>5. CodeTaken(q, t)
      BY <1>4, <2>3, <2>4 DEF CodeTaken
  <2>6. QED
      BY <1>2, <1>5, <2>2, <2>3, <2>5 DEF ClientMoves, ClientKnows
<1>6. CASE octet \in Pieces
  <2>1. q = [p EXCEPT !.verdict = "taken", !.method = Grow(@, octet)]
      BY <1>6 DEF ClientParse, Printable, Pieces
  <2>2. WordFrom(Grow(p.method, octet), t, k) /\ Grow(p.method, octet) \in Grown
      BY <1>0, <1>3, <1>6, WordGoesOn
  <2>3. HttpType(q) /\ q.verdict = "taken" /\ q.state = "StatusCode"
      BY <2>1, <2>2 DEF HttpType
  <2>4. q.method = Grow(p.method, octet) /\ ~q.line
      BY <1>1, <2>1 DEF HttpType
  <2>5. octet \notin {"CR", "LF"}
      BY <1>6 DEF Pieces
  <2>6. StatusCode(q, t)
      BY <1>2, <1>4, <2>2, <2>4, <2>5 DEF StatusCode
  <2>7. QED
      BY <1>2, <2>3, <2>5, <2>6 DEF ClientMoves, ClientKnows
<1>7. CASE octet # "SP" /\ octet \notin Pieces
  <2>1. q = [p EXCEPT !.verdict = "refused"]
      BY <1>7 DEF ClientParse, Printable, Pieces, Refused, HttpType
  <2>2. QED
      BY <1>2, <2>1, VerdictOnly DEF ClientMoves
<1>8. QED
    BY <1>5, <1>6, <1>7

LEMMA ReasonPhraseMoves ==
    ASSUME NEW S, NEW s \in Seq(S), NEW octet \in S, NEW p, HttpType(p), ClientKnows(p, s),
           NEW t, t = Append(s, octet), NEW q, q = ClientParse(p, octet), p.state = "ReasonPhrase"
    PROVE  ClientMoves(s, octet, t, q)
<1>0. /\ t \in Seq(S) /\ Len(s) \in Nat /\ Len(t) = Len(s) + 1 /\ t[Len(s) + 1] = octet
    BY Grows
<1>1. ~p.line /\ NoLineEnd(s) /\ CodeTaken(p, s)
    BY DEF ClientKnows
<1>2. NoBlankLine(t) /\ ~IsResponse(t) /\ (octet # "LF" => NoLineEnd(t))
    BY <1>1, LineGoesOn DEF IsResponse
<1>3. CASE octet = "LF"
  <2>1. q = [p EXCEPT !.verdict = "taken", !.state = "HeaderLine"]
      BY <1>3 DEF ClientParse
  <2>2. HttpType(q) /\ q.verdict = "taken" /\ q.state = "HeaderLine"
      BY <2>1 DEF HttpType, ParserStates
  <2>3. q.method = p.method /\ ~q.line
      BY <1>1, <2>1 DEF HttpType
  <2>4. CodeTaken(q, t)
      BY <1>1, <2>3, CodeStays
  <2>5. LinesTaken(q, t)
      BY <1>0, <1>2, <1>3, <2>3 DEF LinesTaken
  <2>6. QED
      BY <1>2, <1>3, <2>2, <2>4, <2>5 DEF ClientMoves, ClientKnows
<1>4. CASE Printable(octet)
  <2>1. q = [p EXCEPT !.verdict = "taken"] /\ octet \notin {"CR", "LF"}
      BY <1>4 DEF ClientParse, Printable
  <2>2. HttpType(q) /\ q.verdict = "taken" /\ q.state = "ReasonPhrase" /\ ~q.line
        /\ q.method = p.method
      BY <1>1, <2>1 DEF HttpType
  <2>3. CodeTaken(q, t)
      BY <1>1, <2>2, CodeStays
  <2>4. QED
      BY <1>2, <2>1, <2>2, <2>3 DEF ClientMoves, ClientKnows
<1>5. CASE octet = "CR"
  <2>1. q = [p EXCEPT !.verdict = "taken"]
      BY <1>5 DEF ClientParse
  <2>2. QED
      BY <1>2, <1>5, <2>1, VerdictOnly DEF ClientMoves
<1>6. CASE octet \notin {"LF", "CR"} /\ ~Printable(octet)
  <2>1. q = [p EXCEPT !.verdict = "refused"]
      BY <1>6 DEF ClientParse, Refused, HttpType
  <2>2. QED
      BY <1>2, <2>1, VerdictOnly DEF ClientMoves
<1>7. QED
    BY <1>3, <1>4, <1>5, <1>6

LEMMA ResponseLinesMove ==
    ASSUME NEW S, NEW s \in Seq(S), NEW octet \in S, NEW p, HttpType(p), ClientKnows(p, s),
           NEW t, t = Append(s, octet), NEW q, q = ClientParse(p, octet), p.state = "HeaderLine"
    PROVE  ClientMoves(s, octet, t, q)
<1>. PICK r : r = [p EXCEPT !.verdict = "taken"]
    OBVIOUS
<1>. /\ HttpType(r) /\ r.verdict = "taken" /\ r.state = p.state /\ r.method = p.method
     /\ r.line = p.line
    BY DEF HttpType
<1>0. LinesTaken(p, s) /\ CodeTaken(p, s)
    BY DEF ClientKnows
<1>1. IsResponse(t) <=> EndsBlank(t) /\ p.method = "W"
    BY <1>0, CodeStays
<1>2. CASE octet # "LF" \/ p.line
  <2>1. q = HeaderLine(r, octet, ResponseEnds(r))
      BY DEF ClientParse
  <2>2. LinesMove(p, s, octet, t, q)
      BY <1>0, <1>2, <2>1, LinesGoOn
  <2>. q.method = p.method /\ q.state = "HeaderLine"
      BY <2>2 DEF LinesMove
  <2>3. CodeTaken(q, t) /\ CodeTaken(q, s)
      BY <1>0, CodeStays
  <2>4. QED
      BY <1>1, <2>2, <2>3 DEF ClientMoves, ClientKnows, LinesMove
<1>3. CASE octet = "LF" /\ ~p.line
  <2>1. q = ResponseEnds(r)
      BY <1>3 DEF ClientParse, HeaderLine
  <2>2. EndsBlank(t)
      BY <1>0, <1>3, BlankLineComes DEF LinesTaken
  <2>3. CASE p.method = "W"
    <3>1. q = [r EXCEPT !.verdict = "accepted"]
        BY <2>1, <2>3 DEF ResponseEnds
    <3>2. HttpType(q) /\ q.verdict = "accepted"
        BY <3>1 DEF HttpType
    <3>3. QED
        BY <1>1, <2>2, <2>3, <3>2 DEF ClientMoves
  <2>4. CASE p.method # "W"
    <3>1. q = [r EXCEPT !.verdict = "refused"]
        BY <2>1, <2>4 DEF ResponseEnds, Refused
    <3>2. q = [p EXCEPT !.verdict = "refused"]
        BY <3>1 DEF HttpType
    <3>3. QED
        BY <1>1, <2>4, <3>2, VerdictOnly DEF ClientMoves
  <2>5. QED
      BY <2>3, <2>4
<1>4. QED
    BY <1>2, <1>3

\* The octets of an APC's head.
LEMMA ClientReads ==
    ASSUME NEW S, NEW s \in Seq(S), NEW octet \in S, NEW p, HttpType(p), ClientKnows(p, s)
    PROVE  ClientMoves(s, octet, Append(s, octet), ClientParse(p, octet))
BY ClientVersionMoves, StatusCodeMoves, ReasonPhraseMoves, ResponseLinesMove DEF ClientKnows
-----------------------------------------------------------------------------
(* The head of a connection: the parser knows what it took, and it accepts  *)
(* the octet that completes a request or a response and no other one.       *)

HeadType == head \in Seq(HttpOctets) /\ HttpType(http) /\ inHttp \in BOOLEAN

Knows == IF role = "APS" THEN ServerKnows(http, head) ELSE ClientKnows(http, head)

HeadInv ==
    /\ role \in {"APS", "APC"} /\ HeadType
    /\ IF inHttp THEN Knows ELSE IsHead(head)

\* What the parsers know excludes that the head is complete.
LEMMA HeadGoesOn ==
    ASSUME HeadInv, inHttp
    PROVE  ~IsHead(head)
<1>1. head \in Seq(HttpOctets)
    BY DEF HeadInv, HeadType
<1>2. CASE role = "APS"
  <2>1. ServerKnows(http, head) /\ HttpType(http)
      BY <1>2 DEF HeadInv, Knows, HeadType
  <2>2. NoLineEnd(head) \/ NoBlankLine(head) \/ Other(head)
      BY <2>1 DEF ServerKnows, HttpType, ParserStates, Method, WordFrom, Pieces, Path, Version,
         RequestLines, LinesTaken, NoLineEnd
  <2>3. Other(head) => ~IsRequest(head)
      BY <1>1, RequestIs DEF Other
  <2>4. NoBlankLine(head) => ~EndsBlank(head)
      BY <1>1, NotBlank
  <2>5. QED
      BY <1>1, <1>2, <2>2, <2>3, <2>4 DEF IsHead, IsRequest, NoLineEnd, NoBlankLine
<1>3. CASE role = "APC"
  <2>1. ClientKnows(http, head)
      BY <1>3 DEF HeadInv, Knows
  <2>2. NoBlankLine(head)
      BY <2>1 DEF ClientKnows, StatusCode, LinesTaken, NoLineEnd, NoBlankLine
  <2>3. QED
      BY <1>1, <1>3, <2>2, NotBlank DEF IsHead, IsResponse
<1>4. QED
    BY <1>2, <1>3 DEF HeadInv
LEMMA HeadStarts ==
    ASSUME NEW r \in {"APS", "APC"}, NEW p, p = NewHttp(r)
    PROVE  HttpType(p) /\ IF r = "APS" THEN ServerKnows(p, <<>>) ELSE ClientKnows(p, <<>>)
<1>1. HttpType(p)
    BY DEF HttpType, NewHttp, NewServer, NewClient, ParserStates, Grown
<1>2. CASE r = "APS"
  <2>1. p.state = "Method" /\ p.method = "NONE" /\ p.path = "NONE" /\ p.version = "NONE"
        /\ ~p.line
      BY <1>2 DEF NewHttp, NewServer
  <2>2. ServerKnows(p, <<>>)
      BY <2>1 DEF ServerKnows, Method, WordFrom
  <2>3. QED
      BY <1>1, <1>2, <2>2
<1>3. CASE r = "APC"
  <2>1. p.state = "Version" /\ p.method = "NONE" /\ ~p.line
      BY <1>3 DEF NewHttp, NewServer, NewClient
  <2>2. ClientKnows(p, <<>>)
      BY <2>1 DEF ClientKnows, NoLineEnd
  <2>3. QED
      BY <1>1, <1>3, <2>2
<1>4. QED
    BY <1>2, <1>3

LEMMA OnlyLineEnd ==
    ASSUME NEW s \in Seq(HttpOctets), NEW octet \in HttpOctets, IsHead(Append(s, octet))
    PROVE  octet = "LF"
<1> DEFINE t == Append(s, octet)
<1>1. Len(t) = Len(s) + 1 /\ t[Len(s) + 1] = octet /\ Len(s) \in Nat
    BY Grows
<1>2. EndsBlank(t)
    BY DEF IsHead, IsRequest, IsResponse
<1>3. Len(s) \in 1 .. Len(t) - 1 /\ Len(s) = Len(t) - 1
    BY <1>1, <1>2 DEF EndsBlank
<1>4. t[Len(s)] = "LF" /\ t[Len(s) + 1] = "LF"
    BY <1>2, <1>3 DEF EndsBlank
<1>5. QED
    BY <1>1, <1>4

\* One octet for either parser.
LEMMA HeadMoves ==
    ASSUME HeadInv, inHttp, NEW octet \in HttpOctets, NEW q, q = HttpParse(octet),
           NEW t, t = Append(head, octet)
    PROVE  /\ HttpType(q)
           /\ q.verdict = "accepted" <=> IsHead(t)
           /\ q.verdict = "taken" /\ octet # "CR" =>
                IF role = "APS" THEN ServerKnows(q, t) ELSE ClientKnows(q, t)
           /\ q.verdict = "refused" \/ (q.verdict = "taken" /\ octet = "CR") =>
                IF role = "APS" THEN ServerKnows(q, head) ELSE ClientKnows(q, head)
<1>1. CASE role = "APS"
  <2>1. ServerMoves(head, octet, t, q)
      BY <1>1, ServerReads DEF HeadInv, HeadType, Knows, HttpParse
  <2>2. QED
      BY <1>1, <2>1 DEF ServerMoves, IsHead
<1>2. CASE role = "APC"
  <2>1. ClientMoves(head, octet, t, q)
      BY <1>2, ClientReads DEF HeadInv, HeadType, Knows, HttpParse
  <2>2. QED
      BY <1>2, <2>1 DEF ClientMoves, IsHead
<1>3. QED
    BY <1>1, <1>2 DEF HeadInv

\* The handshake is over exactly when the octets taken form a head, and the
\* octet that completes one is accepted.
THEOREM HeadIsRecognisedHolds == Spec => []HeadIsRecognised
<1>1. Init => HeadInv
    BY HeadStarts DEF Init, HeadInv, HeadType, Knows
<1>2. HeadInv /\ [Next]_vars => HeadInv'
  <2> SUFFICES ASSUME HeadInv, [Next]_vars PROVE HeadInv'
      OBVIOUS
  <2>1. ASSUME NEW octet \in HttpOctets, IncomingHttpOctet(octet) PROVE HeadInv'
    <3>1. /\ inHttp /\ http' = HttpParse(octet) /\ role' = role
          /\ inHttp' = (http'.verdict # "accepted")
          /\ head' = IF http'.verdict = "refused" \/ octet = "CR" THEN head
                                                                ELSE Append(head, octet)
        BY <2>1 DEF IncomingHttpOctet
    <3>2. /\ HttpType(http')
          /\ http'.verdict = "accepted" <=> IsHead(Append(head, octet))
          /\ http'.verdict = "taken" /\ octet # "CR" =>
               IF role = "APS" THEN ServerKnows(http', Append(head, octet))
                               ELSE ClientKnows(http', Append(head, octet))
          /\ http'.verdict = "refused" \/ (http'.verdict = "taken" /\ octet = "CR") =>
               IF role = "APS" THEN ServerKnows(http', head) ELSE ClientKnows(http', head)
        BY <3>1, HeadMoves
    <3>3. HeadType'
        BY <3>1, <3>2, Grows DEF HeadInv, HeadType, HttpType
    <3>4. CASE http'.verdict = "accepted"
      <4>1. octet = "LF"
          BY <3>2, <3>4, OnlyLineEnd DEF HeadInv, HeadType
      <4>2. head' = Append(head, octet) /\ ~inHttp'
          BY <3>1, <3>4, <4>1
      <4>3. IsHead(head)'
          BY <3>1, <3>2, <3>4, <4>2 DEF IsHead
      <4>4. QED
          BY <3>1, <3>3, <4>2, <4>3 DEF HeadInv
    <3>5. CASE http'.verdict # "accepted"
      <4>1. Knows'
          BY <3>1, <3>2, <3>5 DEF Knows, HttpType
      <4>2. QED
          BY <3>1, <3>3, <3>5, <4>1 DEF HeadInv
    <3>6. QED
        BY <3>4, <3>5
  <2>2. CASE NewConnection
    <3>1. role' \in {"APS", "APC"} /\ inHttp' /\ http' = NewHttp(role') /\ head' = <<>>
        BY <2>2 DEF NewConnection, ClearedHttp, NewHttp, HeadInv
    <3>2. QED
        BY <3>1, HeadStarts DEF HeadInv, HeadType, Knows
  <2>3. CASE UNCHANGED <<role, inHttp, http, head>>
      BY <2>3 DEF HeadInv, HeadType, Knows, IsHead
  <2>4. QED
      BY <2>1, <2>2, <2>3 DEF Next, IncomingAppOctet, SegmentEnds, vars, httpVars
<1>3. HeadInv => HeadIsRecognised
    BY HeadGoesOn, HeadMoves DEF HeadIsRecognised, HeadInv, HeadType
<1>4. QED
    BY <1>1, <1>2, <1>3, PTL DEF Spec

-----------------------------------------------------------------------------
(* APP messages: the parser knows what came behind the last message.        *)

Message == [type : AppOctets, payload : Seq(AppOctets)]

AppType(p) ==
    p \in [header : Seq(AppOctets), payload : Seq(AppOctets), left : Nat, error : BOOLEAN,
           out : Seq(Message)]

\* In a header, or before one.
Between(p, s) == Len(p.header) < HeaderLength /\ p.left = 0 /\ s = p.header

\* In the payload of a message.
Within(p, s) ==
    /\ Len(p.header) = HeaderLength /\ p.left > 0
    /\ LengthIsValid(p.header[1], p.header[2])
    /\ p.left = p.header[2] - Len(p.payload)
    /\ s = p.header \o p.payload

\* Behind a header that is refused, or that no payload follows: for ever.
Deaf(p, s) ==
    /\ Len(p.header) = HeaderLength /\ p.left = 0
    /\ Len(s) >= HeaderLength /\ s[1] = p.header[1] /\ s[2] = p.header[2]
    /\ LengthIsValid(s[1], s[2]) => s[1] = Avdecc /\ s[2] = 0

AppKnows(p, s) == Between(p, s) \/ Within(p, s) \/ Deaf(p, s)

\* The parser becomes q with an octet that makes the rest of the stream t: it
\* goes on, or t is a message and the rest is empty.
AppMoves(t, q) ==
    /\ AppType(q)
    /\ \/ q.out = <<>> /\ AppKnows(q, t)
       \/ \E m \in Message :
              q.out = <<m>> /\ Finishes(m) /\ t = Encode(m) /\ AppKnows(q, <<>>)

LEMMA NewParserKnows == AppType(NewParser) /\ NewParser.out = <<>> /\ AppKnows(NewParser, <<>>)
BY DEF NewParser, AppType, AppKnows, Between, HeaderLength

LEMMA EmptySeqs == \A S : <<>> \in Seq(S)
OBVIOUS

LEMMA AppendBehind ==
    \A t, u \in Seq(AppOctets), o \in AppOctets : Append(t \o u, o) = t \o Append(u, o)
OBVIOUS

\* Two octets are a header.
LEMMA TwoOctets ==
    ASSUME NEW t \in Seq(AppOctets), Len(t) = 2
    PROVE  t[1] \in AppOctets /\ t[2] \in AppOctets /\ t = <<t[1], t[2]>>
OBVIOUS

\* The parser p, member by member.
AppIs(p, h, u, n, o) ==
    AppType(p) /\ p.header = h /\ p.payload = u /\ p.left = n /\ p.out = o

\* A header and what is behind it.
LEMMA BehindHeader ==
    ASSUME NEW h \in Seq(AppOctets), Len(h) = 2, NEW u \in Seq(AppOctets), NEW t, t = h \o u
    PROVE  t[2] = h[2] /\ Len(t) = 2 + Len(u) /\ Len(u) \in Nat
<1>1. Len(u) \in Nat
    BY LenProperties
<1>2. /\ Len(h \o u) = Len(h) + Len(u)
      /\ \A i \in 1 .. Len(h) + Len(u) :
             (h \o u)[i] = IF i <= Len(h) THEN h[i] ELSE u[i - Len(h)]
    BY ConcatProperties, Zenon
<1>3. 2 \in 1 .. Len(h) + Len(u) /\ 2 <= Len(h)
    BY <1>1
<1>4. (h \o u)[2] = h[2]
    BY <1>2, <1>3, Zenon
<1>5. QED
    BY <1>1, <1>2, <1>4

\* Parsers that differ in a member.
LEMMA OutCleared ==
    ASSUME NEW p, AppType(p)
    PROVE  AppIs([p EXCEPT !.out = <<>>], p.header, p.payload, p.left, <<>>)
BY EmptySeqs DEF AppType, AppIs

LEMMA HeaderSet ==
    ASSUME NEW p, AppType(p), NEW t \in Seq(AppOctets)
    PROVE  AppIs([p EXCEPT !.header = t], t, p.payload, p.left, p.out)
BY DEF AppType, AppIs

WithPayload(p, n, t) == [p EXCEPT !.left = n, !.payload = t]

LEMMA PayloadSet ==
    ASSUME NEW p, AppType(p), NEW n \in Nat, NEW t \in Seq(AppOctets)
    PROVE  AppIs(WithPayload(p, n, t), p.header, t, n, p.out)
BY DEF AppType, AppIs, WithPayload

LEMMA ErrorSet ==
    ASSUME NEW p, AppType(p)
    PROVE  AppIs([p EXCEPT !.error = TRUE], p.header, p.payload, p.left, p.out)
BY DEF AppType, AppIs

LEMMA LengthIsNat ==
    ASSUME NEW type, NEW length, LengthIsValid(type, length)
    PROVE  length \in Nat
BY AppAssumption DEF LengthIsValid

LEMMA Dispatches ==
    ASSUME NEW m \in Message, Finishes(m), NEW q, q = [NewParser EXCEPT !.out = <<m>>]
    PROVE  AppMoves(Encode(m), q)
<1>1. AppType(q) /\ q.out = <<m>> /\ q.header = <<>> /\ q.left = 0
  <2>1. <<>> \in Seq(AppOctets) /\ <<m>> \in Seq(Message)
      OBVIOUS
  <2>2. QED
      BY <2>1 DEF NewParser, AppType
<1>2. AppKnows(q, <<>>)
    BY <1>1 DEF AppKnows, Between, HeaderLength
<1>3. QED
    BY <1>1, <1>2 DEF AppMoves

LEMMA BetweenMoves ==
    ASSUME NEW p, AppType(p), NEW s \in Seq(AppOctets), Between(p, s), p.out = <<>>,
           NEW octet \in AppOctets, NEW q, q = ParseHeader(p, octet),
           NEW t, t = Append(s, octet)
    PROVE  AppMoves(t, q)
<1>1. t \in Seq(AppOctets) /\ Len(t) = Len(s) + 1 /\ Len(s) \in Nat /\ Len(s) < 2
    BY Grows DEF Between, HeaderLength
<1>2. PICK r : r = [p EXCEPT !.header = t]
    OBVIOUS
<1>3. AppType(r) /\ r.header = t /\ r.left = 0 /\ r.out = <<>>
  <2>1. p.left = 0
      BY DEF Between
  <2>2. AppIs([p EXCEPT !.header = t], t, p.payload, p.left, p.out)
      BY <1>1, HeaderSet
  <2>3. QED
      BY <1>2, <2>1, <2>2 DEF AppIs
<1>4. q = IF Len(t) = 2 THEN ValidateHeader(r) ELSE r
  <2>1. p.header = s /\ r = [p EXCEPT !.header = Append(@, octet)]
      BY <1>2 DEF Between
  <2>2. QED
      BY <1>3, <2>1 DEF ParseHeader, HeaderLength
<1>5. CASE Len(t) # 2
  <2>1. q = r /\ Len(t) < 2
      BY <1>1, <1>4, <1>5
  <2>2. Between(q, t)
      BY <1>3, <2>1 DEF Between, HeaderLength
  <2>3. QED
      BY <1>3, <2>1, <2>2 DEF AppMoves, AppKnows
<1>6. CASE Len(t) = 2
  <2>1. q = ValidateHeader(r)
      BY <1>4, <1>6
  <2>2. t[1] \in AppOctets /\ t[2] \in AppOctets /\ t = <<t[1], t[2]>>
      BY <1>1, <1>6, TwoOctets
  <2>3. CASE ~LengthIsValid(t[1], t[2])
    <3>1. q = [r EXCEPT !.error = TRUE]
        BY <1>3, <2>1, <2>3 DEF ValidateHeader
    <3>2. AppType(q) /\ q.header = t /\ q.left = 0 /\ q.out = <<>>
      <4>1. AppIs([r EXCEPT !.error = TRUE], r.header, r.payload, r.left, r.out)
          BY <1>3, ErrorSet
      <4>2. QED
          BY <1>3, <3>1, <4>1 DEF AppIs
    <3>3. Deaf(q, t)
        BY <1>6, <2>3, <3>2 DEF Deaf, HeaderLength
    <3>4. QED
        BY <3>2, <3>3 DEF AppMoves, AppKnows
  <2>4. CASE LengthIsValid(t[1], t[2]) /\ t[1] = Nop
    <3>1. PICK m : m = [type |-> t[1], payload |-> <<>>]
        OBVIOUS
    <3>2. q = [NewParser EXCEPT !.out = <<m>>]
        BY <1>3, <2>1, <2>4, <3>1 DEF ValidateHeader
    <3>3. m \in Message /\ Finishes(m) /\ t[2] = 0
        BY <2>2, <2>4, <3>1 DEF Message, Finishes, LengthIsValid, Nop, EntityId, Avdecc
    <3>4. t = Encode(m)
      <4>1. Encode(m) = <<t[1], 0>>
          BY <2>2, <3>1 DEF Encode
      <4>2. QED
          BY <2>2, <3>3, <4>1
    <3>5. QED
        BY <3>2, <3>3, <3>4, Dispatches
  <2>5. CASE LengthIsValid(t[1], t[2]) /\ t[1] # Nop
    <3>1. PICK n \in Nat : n = t[2]
        BY <2>5, LengthIsNat
    <3>2. AppType(q) /\ q.header = t /\ q.left = n /\ q.payload = <<>> /\ q.out = <<>>
      <4>1. q = [r EXCEPT !.left = t[2], !.payload = <<>>]
          BY <1>3, <2>1, <2>5 DEF ValidateHeader
      <4>2. PICK u \in Seq(AppOctets) : u = <<>>
          BY EmptySeqs
      <4>3. q = WithPayload(r, n, u)
          BY <3>1, <4>1, <4>2 DEF WithPayload
      <4>4. AppIs(WithPayload(r, n, u), r.header, u, n, r.out)
          BY <1>3, PayloadSet
      <4>5. QED
          BY <1>3, <4>2, <4>3, <4>4 DEF AppIs
    <3>3. CASE n = 0
      <4>1. t[1] = Avdecc /\ t[2] = 0
          BY <2>5, <3>1, <3>3, AppAssumption DEF LengthIsValid
      <4>2. Deaf(q, t)
          BY <1>6, <3>2, <3>3, <4>1 DEF Deaf, HeaderLength
      <4>3. QED
          BY <3>2, <4>2 DEF AppMoves, AppKnows
    <3>4. CASE n # 0
      <4>1. t = t \o <<>> /\ Len(<<>>) = 0
          BY <1>1, ConcatEmptySeq
      <4>2. n > 0 /\ n = n - 0
          BY <3>4
      <4>3. Within(q, t)
          BY <1>6, <2>5, <3>1, <3>2, <4>1, <4>2 DEF Within, HeaderLength
      <4>4. QED
          BY <3>2, <4>3 DEF AppMoves, AppKnows
    <3>5. QED
        BY <3>3, <3>4
  <2>6. QED
      BY <2>3, <2>4, <2>5
<1>7. QED
    BY <1>5, <1>6

LEMMA WithinMoves ==
    ASSUME NEW p, AppType(p), NEW s \in Seq(AppOctets), Within(p, s), p.out = <<>>,
           NEW octet \in AppOctets, NEW q, q = ParsePayload(p, octet),
           NEW t, t = Append(s, octet)
    PROVE  AppMoves(t, q)
<1>1. /\ p.header \in Seq(AppOctets) /\ p.payload \in Seq(AppOctets) /\ p.left \in Nat
      /\ Len(p.header) = 2 /\ s = p.header \o p.payload
    BY DEF AppType, Within, HeaderLength
<1>2. PICK h \in Seq(AppOctets), payload \in Seq(AppOctets), n \in Nat :
          h = p.header /\ payload = Append(p.payload, octet) /\ n = Len(p.payload)
    BY <1>1, Grows
<1>3. Len(payload) = n + 1 /\ t = h \o payload
  <2>1. Len(payload) = n + 1
      BY <1>1, <1>2, Grows
  <2>2. t = h \o payload
    <3>1. PICK u \in Seq(AppOctets) : u = p.payload
        BY <1>1
    <3>2. Append(h \o u, octet) = h \o Append(u, octet)
        BY AppendBehind, Zenon
    <3>3. QED
        BY <1>1, <1>2, <3>1, <3>2
  <2>3. QED
      BY <2>1, <2>2
<1>4. h[1] \in AppOctets /\ h = <<h[1], h[2]>> /\ LengthIsValid(h[1], h[2])
    BY <1>1, <1>2, TwoOctets DEF Within
<1>5. PICK k \in Nat : k = h[2]
    BY <1>4, LengthIsNat
<1>6. p.left > 0 /\ p.left = k - n
    BY <1>2, <1>5 DEF Within
<1>7. CASE p.left = 1
  <2>1. PICK m : m = [type |-> h[1], payload |-> payload]
      OBVIOUS
  <2>2. q = [NewParser EXCEPT !.out = <<m>>]
      BY <1>2, <1>7, <2>1 DEF ParsePayload
  <2>3. Len(payload) = h[2] /\ payload # <<>>
    <3>1. k = n + 1
        BY <1>6, <1>7
    <3>2. payload # <<>>
        BY <1>2, <1>1, AppendProperties
    <3>3. QED
        BY <1>3, <1>5, <3>1, <3>2
  <2>4. m \in Message /\ Finishes(m)
      BY <1>4, <2>1, <2>3 DEF Message, Finishes
  <2>5. t = Encode(m)
      BY <1>3, <1>4, <2>1, <2>3 DEF Encode
  <2>6. QED
      BY <2>2, <2>4, <2>5, Dispatches
<1>8. CASE p.left # 1
  <2>1. PICK l \in Nat : l = p.left - 1 /\ l > 0 /\ l = k - (n + 1)
      BY <1>1, <1>6, <1>8
  <2>2. q = [p EXCEPT !.payload = payload, !.left = l]
      BY <1>2, <1>8, <2>1 DEF ParsePayload
  <2>3. q = [p EXCEPT !.left = l, !.payload = payload]
      BY <2>2 DEF AppType
  <2>4. /\ AppType(q) /\ q.header = h /\ q.payload = payload /\ q.left = l /\ q.out = <<>>
    <3>1. AppIs(WithPayload(p, l, payload), p.header, payload, l, p.out)
        BY PayloadSet
    <3>2. QED
        BY <1>2, <2>3, <3>1 DEF AppIs, WithPayload
  <2>5. Within(q, t)
      BY <1>1, <1>2, <1>3, <1>4, <1>5, <2>1, <2>4 DEF Within, HeaderLength
  <2>6. QED
      BY <2>4, <2>5 DEF AppMoves, AppKnows
<1>9. QED
    BY <1>7, <1>8

\* One octet.
LEMMA AppReads ==
    ASSUME NEW p, AppType(p), NEW s \in Seq(AppOctets), AppKnows(p, s), NEW octet \in AppOctets,
           NEW t, t = Append(s, octet), NEW q, q = Parse(p, octet)
    PROVE  AppMoves(t, q)
<1>1. PICK r : r = [p EXCEPT !.out = <<>>]
    OBVIOUS
<1>2. /\ AppType(r) /\ r.header = p.header /\ r.payload = p.payload /\ r.left = p.left
      /\ r.out = <<>>
    BY <1>1, OutCleared DEF AppIs
<1>3. q = IF Len(r.header) < 2 THEN ParseHeader(r, octet)
          ELSE IF r.left > 0 THEN ParsePayload(r, octet) ELSE r
    BY <1>1 DEF Parse, HeaderLength
<1>4. CASE Between(p, s)
  <2>1. Between(r, s) /\ q = ParseHeader(r, octet)
      BY <1>2, <1>3, <1>4 DEF Between, HeaderLength
  <2>2. QED
      BY <1>2, <2>1, BetweenMoves
<1>5. CASE Within(p, s)
  <2>1. Len(r.header) = 2 /\ r.left > 0
      BY <1>2, <1>5 DEF Within, HeaderLength
  <2>2. Within(r, s)
      BY <1>2, <1>5 DEF Within
  <2>3. q = ParsePayload(r, octet)
      BY <1>3, <2>1
  <2>4. QED
      BY <1>2, <2>2, <2>3, WithinMoves
<1>6. CASE Deaf(p, s)
  <2>1. Len(r.header) = 2 /\ r.left = 0
      BY <1>2, <1>6 DEF Deaf, HeaderLength
  <2>2. q = r
      BY <1>3, <2>1
  <2>3. Deaf(r, t)
      BY <1>2, <1>6, Grows DEF Deaf, HeaderLength
  <2>4. QED
      BY <1>2, <2>2, <2>3 DEF AppMoves, AppKnows
<1>7. QED
    BY <1>4, <1>5, <1>6 DEF AppKnows
-----------------------------------------------------------------------------
(* The stream f divided by the ends e into the messages d.                  *)

EndOf(e, i) == IF i = 1 THEN 0 ELSE e[i - 1]

RestOf(f, e) == SubSeq(f, EndOf(e, Len(e) + 1) + 1, Len(f))

Part(f, e, i) == SubSeq(f, EndOf(e, i) + 1, e[i])

DividedType(f, d, e) ==
    /\ f \in Seq(AppOctets) /\ d \in Seq(Message) /\ e \in Seq(Nat)
    /\ Len(e) = Len(d)
    /\ \A i \in 1 .. Len(e) : EndOf(e, i) \in 0 .. Len(f) /\ e[i] \in 0 .. Len(f)

Divided(f, d, e) ==
    /\ DividedType(f, d, e)
    /\ \A i \in 1 .. Len(e) : Finishes(d[i]) /\ Part(f, e, i) = Encode(d[i])

\* Where the rest begins.
LEMMA RestBegins ==
    ASSUME NEW f, NEW d, NEW e, DividedType(f, d, e)
    PROVE  EndOf(e, Len(e) + 1) \in 0 .. Len(f)
<1>1. Len(e) \in Nat /\ Len(f) \in Nat
    BY LenProperties DEF DividedType
<1>2. CASE Len(e) = 0
    BY <1>1, <1>2 DEF EndOf
<1>3. CASE Len(e) > 0
  <2>1. EndOf(e, Len(e) + 1) = e[Len(e)] /\ Len(e) \in 1 .. Len(e)
      BY <1>1, <1>3 DEF EndOf
  <2>2. QED
      BY <2>1 DEF DividedType
<1>4. QED
    BY <1>1, <1>2, <1>3

\* One octet more: it goes to the rest.
RestMoves(f, d, e, octet, g) ==
    /\ Divided(g, d, e)
    /\ RestOf(f, e) \in Seq(AppOctets)
    /\ RestOf(g, e) = Append(RestOf(f, e), octet)

LEMMA RestGrows ==
    ASSUME NEW f, NEW d, NEW e, Divided(f, d, e), NEW octet \in AppOctets,
           NEW g, g = Append(f, octet)
    PROVE  RestMoves(f, d, e, octet, g)
<1>1. /\ f \in Seq(AppOctets) /\ g \in Seq(AppOctets) /\ Len(f) \in Nat
      /\ Len(g) = Len(f) + 1 /\ Len(e) \in Nat
    BY Grows, LenProperties DEF Divided, DividedType
<1>2. DividedType(g, d, e)
  <2>1. \A i \in 1 .. Len(e) : EndOf(e, i) \in 0 .. Len(g) /\ e[i] \in 0 .. Len(g)
      BY <1>1 DEF Divided, DividedType
  <2>2. QED
      BY <1>1, <2>1 DEF Divided, DividedType
<1>3. ASSUME NEW i \in 1 .. Len(e) PROVE Part(g, e, i) = Part(f, e, i)
  <2>1. PICK a \in 0 .. Len(f), b \in 0 .. Len(f) : a = EndOf(e, i) /\ b = e[i]
      BY <1>3 DEF Divided, DividedType
  <2>2. PICK k \in Nat \ {0} : k = a + 1
      BY <1>1
  <2>3. SubSeq(g, k, b) = SubSeq(f, k, b)
      BY <1>1, GrowsBehind
  <2>4. QED
      BY <2>1, <2>2, <2>3 DEF Part
<1>4. PICK a \in 1 .. Len(f) + 1 : a = EndOf(e, Len(e) + 1) + 1
    BY <1>1, RestBegins DEF Divided
<1>5. RestOf(f, e) = SubSeq(f, a, Len(f)) /\ RestOf(g, e) = SubSeq(g, a, Len(f) + 1)
    BY <1>1, <1>4 DEF RestOf
<1>6. SubSeq(f, a, Len(f)) \in Seq(AppOctets)
    BY <1>1, SubSeqProperties
<1>7. SubSeq(g, a, Len(f) + 1) = Append(SubSeq(f, a, Len(f)), octet)
    BY <1>1, GrowsWith
<1>8. Divided(g, d, e)
    BY <1>2, <1>3 DEF Divided
<1>9. QED
    BY <1>5, <1>6, <1>7, <1>8 DEF RestMoves

\* The rest has become a message.
LEMMA RestDispatched ==
    ASSUME NEW f, NEW d, NEW e, Divided(f, d, e), NEW m \in Message, Finishes(m),
           RestOf(f, e) = Encode(m),
           NEW c, c = Append(d, m), NEW u, u = Append(e, Len(f))
    PROVE  Divided(f, c, u) /\ RestOf(f, u) = <<>>
<1>1. /\ f \in Seq(AppOctets) /\ d \in Seq(Message) /\ e \in Seq(Nat) /\ Len(e) = Len(d)
      /\ Len(f) \in Nat
    BY LenProperties DEF Divided, DividedType
<1>2. PICK n \in Nat : n = Len(e)
    BY <1>1, LenProperties
<1>3. /\ u \in Seq(Nat) /\ Len(u) = n + 1 /\ u[n + 1] = Len(f)
      /\ \A i \in 1 .. n : u[i] = e[i]
    BY <1>1, <1>2, Grows
<1>4. /\ c \in Seq(Message) /\ Len(c) = n + 1 /\ c[n + 1] = m
      /\ \A i \in 1 .. n : c[i] = d[i]
    BY <1>1, <1>2, Grows
<1>5. \A i \in 1 .. n + 1 : EndOf(u, i) = EndOf(e, i)
    BY <1>3 DEF EndOf
<1>6. EndOf(e, n + 1) \in 0 .. Len(f)
    BY <1>2, RestBegins DEF Divided
<1>7. \A i \in 1 .. n + 1 : i \in 1 .. n \/ i = n + 1
    OBVIOUS
<1>8. DividedType(f, c, u)
  <2>1. ASSUME NEW i \in 1 .. n + 1
        PROVE  EndOf(u, i) \in 0 .. Len(f) /\ u[i] \in 0 .. Len(f)
    <3>1. CASE i \in 1 .. n
        BY <1>2, <1>3, <1>5, <3>1 DEF Divided, DividedType
    <3>2. CASE i = n + 1
        BY <1>1, <1>3, <1>5, <1>6, <3>2
    <3>3. QED
        BY <1>7, <3>1, <3>2
  <2>2. QED
      BY <1>1, <1>3, <1>4, <2>1 DEF DividedType
<1>9. ASSUME NEW i \in 1 .. n + 1 PROVE Finishes(c[i]) /\ Part(f, u, i) = Encode(c[i])
  <2>1. CASE i \in 1 .. n
    <3>1. Part(f, u, i) = Part(f, e, i) /\ c[i] = d[i]
        BY <1>3, <1>4, <1>5, <2>1 DEF Part
    <3>2. Finishes(d[i]) /\ Part(f, e, i) = Encode(d[i])
        BY <1>2, <2>1 DEF Divided
    <3>3. QED
        BY <3>1, <3>2
  <2>2. CASE i = n + 1
    <3>1. Part(f, u, i) = RestOf(f, e) /\ c[i] = m
        BY <1>2, <1>3, <1>4, <1>5, <2>2 DEF Part, RestOf
    <3>2. QED
        BY <3>1
  <2>3. QED
      BY <1>7, <2>1, <2>2
<1>10. RestOf(f, u) = <<>>
  <2>1. EndOf(u, Len(u) + 1) = Len(f)
      BY <1>3 DEF EndOf
  <2>2. SubSeq(f, Len(f) + 1, Len(f)) = <<>>
      BY <1>1, SubSeqProperties
  <2>3. QED
      BY <2>1, <2>2 DEF RestOf
<1>11. QED
    BY <1>3, <1>8, <1>9, <1>10 DEF Divided

\* What the parser knows does not begin with a message.
NoMessage(s) ==
    \A n \in 2 .. Len(s) :
        ~(Finishes([type |-> s[1], payload |-> SubSeq(s, 3, n)]) /\ s[2] = n - 2)

LEMMA NoMessageBegins ==
    ASSUME NEW p, AppType(p), NEW s \in Seq(AppOctets), AppKnows(p, s)
    PROVE  NoMessage(s)
<1> SUFFICES ASSUME NEW n \in 2 .. Len(s), s[2] = n - 2,
                    NEW payload, payload = SubSeq(s, 3, n),
                    Finishes([type |-> s[1], payload |-> payload])
             PROVE  FALSE
    BY DEF NoMessage
<1>1. Len(s) \in Nat /\ n \in Nat /\ 2 <= n /\ n <= Len(s)
    BY LenProperties
<1>2. CASE Between(p, s)
    BY <1>1, <1>2 DEF Between, HeaderLength
<1>3. CASE Within(p, s)
  <2>1. PICK h \in Seq(AppOctets), u \in Seq(AppOctets) : h = p.header /\ u = p.payload
      BY DEF AppType
  <2>2. Len(h) = 2 /\ s = h \o u /\ p.left > 0 /\ p.left = h[2] - Len(u)
      BY <1>3, <2>1 DEF Within, HeaderLength
  <2>3. s[2] = h[2] /\ Len(s) = 2 + Len(u) /\ Len(u) \in Nat
      BY <2>2, BehindHeader
  <2>4. n - 2 > Len(u)
      BY <1>1, <2>2, <2>3
  <2>5. QED
      BY <1>1, <2>3, <2>4
<1>4. CASE Deaf(p, s)
  <2>1. Len(payload) = n - 2 /\ LengthIsValid(s[1], Len(payload))
        /\ (s[1] = Avdecc => payload # <<>>)
    <3>1. Len(payload) = n - 2
        BY <1>1, SubSeqProperties
    <3>2. QED
        BY <3>1 DEF Finishes
  <2>2. s[1] = Avdecc /\ s[2] = 0
      BY <1>4, <2>1 DEF Deaf
  <2>3. n = 2
      BY <1>1, <2>2
  <2>4. payload = <<>>
      BY <2>3, SubSeqProperties
  <2>5. QED
      BY <2>1, <2>2, <2>4
<1>5. QED
    BY <1>2, <1>3, <1>4 DEF AppKnows

SplitInv == Divided(fed, dispatched, ends) /\ AppType(app) /\ AppKnows(app, RestOf(fed, ends))

\* The stream is the messages dispatched, one behind the other, and a rest that
\* does not begin with a message, for any octets and lengths and however many
\* clients of the APS it comes from.
THEOREM MessagesSplitHolds == Spec => []MessagesSplit
<1>1. Divided(<<>>, <<>>, <<>>) /\ RestOf(<<>>, <<>>) = <<>>
  <2>1. DividedType(<<>>, <<>>, <<>>)
      BY EmptySeqs DEF DividedType
  <2>2. QED
      BY <2>1 DEF Divided, RestOf, EndOf
<1>2. Init => SplitInv
    BY <1>1, NewParserKnows DEF Init, SplitInv
<1>3. SplitInv /\ [Next]_vars => SplitInv'
  <2> SUFFICES ASSUME SplitInv, [Next]_vars PROVE SplitInv'
      OBVIOUS
  <2>1. ASSUME NEW octet \in AppOctets, IncomingAppOctet(octet) PROVE SplitInv'
    <3>1. /\ app' = Parse(app, octet) /\ fed' = Append(fed, octet)
          /\ dispatched' = dispatched \o app'.out
          /\ ends' = IF app'.out = <<>> THEN ends ELSE Append(ends, Len(fed'))
        BY <2>1 DEF IncomingAppOctet
    <3>2. /\ Divided(fed', dispatched, ends)
          /\ RestOf(fed, ends) \in Seq(AppOctets)
          /\ RestOf(fed', ends) = Append(RestOf(fed, ends), octet)
      <4>1. PICK f, g : f = fed /\ g = fed' /\ g = Append(f, octet)
          BY <3>1
      <4>2. Divided(f, dispatched, ends)
          BY <4>1 DEF SplitInv
      <4>3. RestMoves(f, dispatched, ends, octet, g)
          BY <4>1, <4>2, RestGrows
      <4>4. QED
          BY <4>1, <4>3 DEF RestMoves
    <3>3. AppMoves(RestOf(fed', ends), app')
        BY <3>1, <3>2, AppReads DEF SplitInv
    <3>4. dispatched \in Seq(Message)
        BY DEF SplitInv, Divided, DividedType
    <3>5. CASE app'.out = <<>> /\ AppKnows(app', RestOf(fed', ends))
      <4>1. ends' = ends /\ dispatched' = dispatched
          BY <3>1, <3>4, <3>5, ConcatEmptySeq
      <4>2. QED
          BY <3>2, <3>3, <3>5, <4>1 DEF SplitInv, AppMoves
    <3>6. ASSUME NEW m \in Message, app'.out = <<m>>, Finishes(m),
                 RestOf(fed', ends) = Encode(m), AppKnows(app', <<>>)
          PROVE  SplitInv'
      <4>1. ends' = Append(ends, Len(fed'))
          BY <3>1, <3>6
      <4>2. dispatched' = Append(dispatched, m)
          BY <3>1, <3>4, <3>6, AppendIsConcat
      <4>3. Divided(fed', dispatched', ends') /\ RestOf(fed', ends') = <<>>
          BY <3>2, <3>6, <4>1, <4>2, RestDispatched
      <4>4. QED
          BY <3>3, <3>6, <4>3 DEF SplitInv, AppMoves
    <3>7. QED
        BY <3>3, <3>5, <3>6 DEF AppMoves
  <2>2. CASE NewConnection
    <3>1. CASE UNCHANGED appVars
        BY <3>1 DEF SplitInv, appVars
    <3>2. CASE app' = NewParser /\ fed' = <<>> /\ dispatched' = <<>> /\ ends' = <<>>
        BY <1>1, <3>2, NewParserKnows DEF SplitInv
    <3>3. QED
        BY <2>2, <3>1, <3>2 DEF NewConnection
  <2>3. CASE UNCHANGED appVars
      BY <2>3 DEF SplitInv, appVars
  <2>4. QED
      BY <2>1, <2>2, <2>3 DEF Next, IncomingHttpOctet, SegmentEnds, vars
<1>4. SplitInv => MessagesSplit
  <2> SUFFICES ASSUME SplitInv PROVE MessagesSplit
      OBVIOUS
  <2>1. \A i : EndBefore(i) = EndOf(ends, i)
      BY DEF EndBefore, EndOf
  <2>2. Rest = RestOf(fed, ends)
      BY <2>1 DEF Rest, RestOf
  <2>3. RestOf(fed, ends) \in Seq(AppOctets)
    <3>1. fed \in Seq(AppOctets) /\ Len(fed) \in Nat
        BY LenProperties DEF SplitInv, Divided, DividedType
    <3>2. EndOf(ends, Len(ends) + 1) \in 0 .. Len(fed)
        BY RestBegins DEF SplitInv, Divided
    <3>3. QED
        BY <3>1, <3>2, SubSeqProperties DEF RestOf
  <2>4. NoMessage(RestOf(fed, ends))
      BY <2>3, NoMessageBegins DEF SplitInv
  <2>5. QED
      BY <2>1, <2>2, <2>4 DEF MessagesSplit, SplitInv, Divided, DividedType, Part, NoMessage
<1>5. QED
    BY <1>2, <1>3, <1>4, PTL DEF Spec
=============================================================================
