--------------------------- MODULE ExchangeProofs ---------------------------
(***************************************************************************)
(* The exchange of tlsdate-helper with a proxy and a server, byte by byte: *)
(* what is on the wire at each place of the handshakes, for every way the  *)
(* network may cut it, and what that says about the date and the clock.    *)
(***************************************************************************)
EXTENDS HelperProofs

-----------------------------------------------------------------------------
(* The inductive invariant.                                                *)

Early == {"none", "run_ssl", "connect"}

\* The bytes w are those of X after the first k; all of them unless the
\* connection is broken.
CutOf(w, l, X, k) ==
    /\ Len(w) <= Len(X) - k
    /\ l # "reset" => Len(w) = Len(X) - k
    /\ \A i \in 1 .. Len(w) : w[i] = X[k + i]
Cut(X, k) == CutOf(wire, link, X, k)

\* The proxy has not answered anything that matters yet.
Waiting(messages) == tunnel = "wait" /\ wire = <<>> /\ sent \in messages

\* It has given the answer a, of which k bytes have been read.
Answered(a, k) == tunnel = a[1] /\ sent = <<>> /\ Cut(a[2], k)

\* The answers by name.
Reply5(a) == <<IF a = "ipv6" THEN "granted6" ELSE "granted", <<"5", "ok", "x", a>> \o Address(a)>>
Http200 == <<"granted", <<"2xx", "\n", "h", "\n", "\r", "\n">>>>
HttpLong == <<"refused", <<"2xx", "\n", "long">>>>

\* What the line read so far is when k pieces of Http200 have been.
LineAt(k) == IF k = 3 THEN "h" ELSE IF k = 5 THEN "\r" ELSE "empty"

\* A callback knows where in the proxy's answer it is.
InPlace ==
    /\ bio = "idle" => Waiting({<<>>}) /\ line = "empty"
    /\ bio = "s4_reply" => Waiting({<<"connect4">>}) \/ \E a \in Answers("connect4") : Answered(a, 0)
    /\ bio = "s5_method" => Waiting({<<"hello">>}) \/ \E a \in Answers("hello") : Answered(a, 0)
    /\ bio = "s5_request" => Waiting({<<>>})
    /\ bio = "s5_reply" => Waiting({<<"connect5">>}) \/ \E a \in Answers("connect5") : Answered(a, 0)
    /\ bio = "s5_len" => Answered(Reply5("domain"), 4)
    /\ bio = "s5_addr" => left \in 1 .. 3 /\ Answered(Reply5("domain"), 8 - left)
    /\ bio = "s5_ipv4" => Answered(Reply5("ipv4"), 4)
    /\ bio = "http_host" => Waiting({<<>>, <<"CONNECT">>}) /\ line = "empty"
    /\ bio = "http_blank" => Waiting({<<>>, <<"Host">>, <<"CONNECT", "Host">>}) /\ line = "empty"
    /\ bio = "http_status" =>
            \/ Waiting({<<"blank">>, <<"Host", "blank">>, <<"CONNECT", "Host", "blank">>}) /\ line = "empty"
            \/ \E a \in Answers("blank") : \/ Answered(a, 0) /\ line = "empty"
                                           \/ Answered(a, 1) /\ line = a[2][1]
    /\ bio = "http_header" => \/ \E k \in 2 .. 5 : Answered(Http200, k) /\ line = LineAt(k)
                              \/ Answered(HttpLong, 2) /\ line = "empty"

\* How far a callback that has returned 1, or not, lets the child come.
Passage ==
    /\ bio = "up" => tunnel \in {"granted", "granted6"} /\ child \notin Early
    /\ bio = "broken" => link = "reset" /\ child \notin Early
    /\ bio # "up" => /\ child \in Early \cup {"client_hello", "died"}
                     /\ \A i \in 1 .. Len(sent) : sent[i] \notin AppData
    \* bytes of an IPv6 address are left: the server's hello is not found
    /\ bio = "up" /\ tunnel = "granted6" =>
            /\ child \in {"client_hello", "server_hello", "died"}
            /\ child # "died" => /\ Len(wire) > 0 => wire[1] = "x"
                                 /\ link # "reset" => Len(wire) > 0
    /\ bio = "up" /\ tunnel = "granted" => \A i \in 1 .. Len(wire) : wire[i] \notin FromProxy

\* The pieces of a reply that have been read so far are in the buffer.
ReadingHead(head) ==
    /\ Cut(head, Len(buf))
    /\ \A i \in 1 .. Len(buf) : buf[i] = head[i]

\* On a clear way to the server the child knows where in its answers it is.
InStep ==
    /\ child = "client_hello" => sent = <<>> /\ wire = <<>>
    /\ child = "server_hello" => \/ sent = <<"ClientHello">> /\ wire = <<>>
                                 \/ sent = <<>> /\ (Cut(<<"hello", "fin">>, 0) \/ Cut(<<"alert">>, 0))
    /\ child = "finished" => sent = <<>> /\ Cut(<<"hello", "fin">>, 1)
    /\ child = "request" => sent = <<>> /\ wire = <<>>
    /\ child = "date" => \/ sent = <<"request">> /\ wire = <<>> /\ buf = <<>>
                         \/ sent = <<>> /\ \E head \in HttpHeads : ReadingHead(head)
    /\ child = "inspect" => sent = <<>>

\* Before there is a connection.
Dawn ==
    /\ child \in Early => bio = "idle" /\ Waiting({<<>>}) /\ line = "empty"
    /\ child \in {"none", "run_ssl"} => connect = "none"
    /\ child \notin {"date", "inspect", "exit0", "died"} => buf = <<>>
    /\ connect = "none" => bio = "idle" /\ line = "empty"

Clear == connect = "none" \/ (bio = "up" /\ tunnel = "granted")

WireInv ==
    /\ Dawn
    /\ connect # "none" => InPlace /\ Passage
    /\ Clear => InStep

-----------------------------------------------------------------------------
(* The socket.                                                             *)

\* A read takes at most what has arrived, and at most what was asked for.
LEMMA GotFacts ==
    ASSUME NEW n \in Nat, arrived \in Nat
    PROVE  /\ Got(n) \in 0 .. arrived /\ Got(n) <= n
           /\ Got(n) = 0 => n = 0 \/ arrived = 0
  BY DEF Got

\* What is left of a sequence after its first r elements.
LEMMA RestFacts ==
    ASSUME NEW S, NEW w \in Seq(S), NEW r \in 0 .. Len(w)
    PROVE  LET v == SubSeq(w, r + 1, Len(w))
           IN  /\ v \in Seq(S) /\ Len(v) = Len(w) - r
               /\ \A i \in 1 .. Len(v) : v[i] = w[r + i]
<1>1. Len(w) \in Nat
  BY LenProperties
<1>2. \A i \in r + 1 .. Len(w) : w[i] \in S
  BY <1>1, ElementOfSeq
<1> QED
  BY <1>1, <1>2, SubSeqProperties

\* What is kept of a sequence when only its first r elements are.
LEMMA FrontFacts ==
    ASSUME NEW S, NEW w \in Seq(S), NEW r \in 0 .. Len(w)
    PROVE  LET v == SubSeq(w, 1, r)
           IN  /\ v \in Seq(S) /\ Len(v) = r
               /\ \A i \in 1 .. Len(v) : v[i] = w[i]
<1>1. Len(w) \in Nat
  BY LenProperties
<1>2. \A i \in 1 .. r : w[i] \in S
  BY <1>1, ElementOfSeq
<1> QED
  BY <1>1, <1>2, SubSeqProperties

\* After a read the rest of the wire is still there.
LEMMA ConsumeFacts ==
    ASSUME wire \in Seq(Bytes), arrived \in 0 .. Len(wire),
           NEW r \in 0 .. arrived, Consume(r)
    PROVE  /\ wire' \in Seq(Bytes) /\ Len(wire') = Len(wire) - r
           /\ arrived' \in 0 .. Len(wire')
           /\ \A i \in 1 .. Len(wire') : wire'[i] = wire[r + i]
<1>1. Len(wire) \in Nat
  BY LenProperties
<1>2. r \in 0 .. Len(wire)
  BY <1>1
<1>3. wire' = SubSeq(wire, r + 1, Len(wire)) /\ arrived' = arrived - r
  BY DEF Consume
<1> QED
  BY <1>1, <1>2, <1>3, RestFacts

\* The first byte, if one has arrived, is a byte.
LEMMA FirstByte ==
    ASSUME wire \in Seq(Bytes), arrived \in 0 .. Len(wire), arrived > 0
    PROVE  wire[1] \in Bytes /\ 1 \in 1 .. Len(wire)
  BY ElementOfSeq, LenProperties

\* Filler bytes.
LEMMA PadFacts ==
    ASSUME NEW n \in Nat
    PROVE  /\ Pad(n) \in Seq(Bytes) /\ Len(Pad(n)) = n
           /\ \A i \in 1 .. n : Pad(n)[i] = "x"
<1>1. Pad(n) \in [1 .. n -> Bytes] /\ \A i \in 1 .. n : Pad(n)[i] = "x"
  BY DEF Pad, Bytes, ProxyBytes, FromProxy
<1>2. DOMAIN Pad(n) = 1 .. n
  BY DEF Pad
<1> QED
  BY <1>1, <1>2, SeqDef, LenProperties

\* A fixed part and what follows it.
LEMMA HeadAndRest ==
    ASSUME NEW s \in Seq(Bytes), NEW t \in Seq(Bytes)
    PROVE  /\ s \o t \in Seq(Bytes) /\ Len(s \o t) = Len(s) + Len(t)
           /\ \A i \in 1 .. Len(s) : (s \o t)[i] = s[i]
           /\ \A i \in 1 .. Len(t) : (s \o t)[Len(s) + i] = t[i]
<1>1. Len(s) \in Nat /\ Len(t) \in Nat
  BY LenProperties
<1>2. /\ s \o t \in Seq(Bytes) /\ Len(s \o t) = Len(s) + Len(t)
      /\ \A i \in 1 .. Len(s) + Len(t) :
            (s \o t)[i] = IF i <= Len(s) THEN s[i] ELSE t[i - Len(s)]
  BY ConcatProperties
<1> QED
  BY <1>1, <1>2

\* The address of a SOCKS5 reply.
LEMMA AddressFacts ==
    ASSUME NEW a
    PROVE  /\ Address(a) \in Seq(Bytes)
           /\ Len(Address(a)) = IF a = "domain" THEN 4 ELSE IF a = "ipv4" THEN 6 ELSE 18
           /\ \A i \in 1 .. Len(Address(a)) : Address(a)[i] = "x"
<1>1. CASE a = "domain"
  <2>1. Pad(3) \in Seq(Bytes) /\ Len(Pad(3)) = 3 /\ \A i \in 1 .. 3 : Pad(3)[i] = "x"
    BY PadFacts
  <2>2. <<"x">> \in Seq(Bytes) /\ Len(<<"x">>) = 1 /\ <<"x">>[1] = "x"
    BY DEF Bytes, ProxyBytes, FromProxy
  <2> DEFINE t == <<"x">> \o Pad(3)
  <2>3. /\ t \in Seq(Bytes) /\ Len(t) = 4 /\ t[1] = "x"
        /\ \A i \in 1 .. 3 : t[1 + i] = "x"
    BY <2>1, <2>2, HeadAndRest
  <2> HIDE DEF t
  <2>4. \A i \in 1 .. 4 : i = 1 \/ (i - 1 \in 1 .. 3 /\ i = 1 + (i - 1))
    OBVIOUS
  <2>5. \A i \in 1 .. 4 : t[i] = "x"
    BY <2>3, <2>4
  <2> QED
    BY <1>1, <2>3, <2>5 DEF Address, t
<1>2. CASE a # "domain"
  BY <1>2, PadFacts DEF Address
<1> QED
  BY <1>1, <1>2

-----------------------------------------------------------------------------
(* The answers of a proxy.                                                 *)

\* SOCKS4a: eight bytes, the second of which decides.
LEMMA Answers4 ==
    ASSUME NEW a \in Answers("connect4")
    PROVE  /\ a[1] \in {"granted", "refused"}
           /\ a[2] \in Seq(Bytes) /\ Len(a[2]) = 8
           /\ a[2][2] = "granted" => a[1] = "granted"
<1>1. Pad(6) \in Seq(Bytes) /\ Len(Pad(6)) = 6
  BY PadFacts
<1>2. <<"0", "granted">> \in Seq(Bytes) /\ <<"0", "rejected">> \in Seq(Bytes)
  BY DEF Bytes, ProxyBytes, FromProxy
<1>3. \A v \in {"granted", "rejected"} :
        /\ <<"0", v>> \o Pad(6) \in Seq(Bytes) /\ Len(<<"0", v>> \o Pad(6)) = 8
        /\ (<<"0", v>> \o Pad(6))[2] = v
  <2> SUFFICES ASSUME NEW v \in {"granted", "rejected"}
               PROVE  /\ <<"0", v>> \o Pad(6) \in Seq(Bytes) /\ Len(<<"0", v>> \o Pad(6)) = 8
                      /\ (<<"0", v>> \o Pad(6))[2] = v
    OBVIOUS
  <2>1. <<"0", v>> \in Seq(Bytes) /\ Len(<<"0", v>>) = 2 /\ <<"0", v>>[2] = v
    BY <1>2
  <2> DEFINE h == <<"0", v>>
             p == Pad(6)
  <2> HIDE DEF h, p
  <2>2. /\ h \o p \in Seq(Bytes) /\ Len(h \o p) = Len(h) + Len(p)
        /\ \A i \in 1 .. Len(h) : (h \o p)[i] = h[i]
    BY <1>1, <2>1, HeadAndRest DEF h, p
  <2>3. Len(h) = 2 /\ Len(p) = 6 /\ h[2] = v
    BY <1>1, <2>1 DEF h, p
  <2>4. 2 \in 1 .. Len(h)
    BY <2>3
  <2>5. (h \o p)[2] = h[2] /\ Len(h \o p) = 8
    BY <2>2, <2>3, <2>4
  <2>6. h \o p \in Seq(Bytes) /\ Len(h \o p) = 8 /\ (h \o p)[2] = v
    BY <2>2, <2>3, <2>5
  <2> QED
    BY <2>6 DEF h, p
<1>4. \/ a[1] = "granted" /\ a[2] = <<"0", "granted">> \o Pad(6)
      \/ a[1] = "refused" /\ a[2] = <<"0", "rejected">> \o Pad(6)
  BY DEF Answers
<1> QED
  BY <1>3, <1>4

\* SOCKS5, the method: two bytes.
LEMMA AnswersHello ==
    ASSUME NEW a \in Answers("hello")
    PROVE  /\ a[1] \in {"wait", "refused"}
           /\ a[2] \in Seq(Bytes) /\ Len(a[2]) = 2
           /\ a[2][2] = "noauth" => a[1] = "wait"
<1>1. \/ a[1] = "wait" /\ a[2] = <<"5", "noauth">>
      \/ a[1] = "refused" /\ a[2] = <<"5", "denied">>
  BY DEF Answers
<1>2. <<"5", "noauth">> \in Seq(Bytes) /\ <<"5", "denied">> \in Seq(Bytes)
  BY DEF Bytes, ProxyBytes, FromProxy
<1>3. /\ Len(<<"5", "noauth">>) = 2 /\ Len(<<"5", "denied">>) = 2
      /\ <<"5", "denied">>[2] = "denied"
  OBVIOUS
<1> QED
  BY <1>1, <1>2, <1>3

\* SOCKS5, a reply that grants the connection: four bytes, then the address.
LEMMA ReplyFacts ==
    ASSUME NEW a \in {"domain", "ipv4", "ipv6"}
    PROVE  LET r == Reply5(a)
           IN  /\ r[1] = IF a = "ipv6" THEN "granted6" ELSE "granted"
               /\ r[2] \in Seq(Bytes)
               /\ Len(r[2]) = IF a = "domain" THEN 8 ELSE IF a = "ipv4" THEN 10 ELSE 22
               /\ r[2][4] = a
               /\ \A i \in 5 .. Len(r[2]) : r[2][i] = "x"
<1> DEFINE s == <<"5", "ok", "x", a>>
           t == Address(a)
<1>1. s \in Seq(Bytes) /\ Len(s) = 4 /\ s[4] = a
  BY DEF Bytes, ProxyBytes, FromProxy
<1>2. /\ t \in Seq(Bytes) /\ \A i \in 1 .. Len(t) : t[i] = "x"
      /\ Len(t) = IF a = "domain" THEN 4 ELSE IF a = "ipv4" THEN 6 ELSE 18
  BY AddressFacts
<1>3. Reply5(a)[1] = (IF a = "ipv6" THEN "granted6" ELSE "granted") /\ Reply5(a)[2] = s \o t
  BY DEF Reply5
<1> HIDE DEF s, t
<1>4. /\ s \o t \in Seq(Bytes) /\ Len(s \o t) = 4 + Len(t) /\ (s \o t)[4] = a
      /\ \A i \in 1 .. Len(t) : (s \o t)[4 + i] = "x"
  <2>1. /\ s \o t \in Seq(Bytes) /\ Len(s \o t) = Len(s) + Len(t)
        /\ \A i \in 1 .. Len(s) : (s \o t)[i] = s[i]
        /\ \A i \in 1 .. Len(t) : (s \o t)[Len(s) + i] = t[i]
    BY <1>1, <1>2, HeadAndRest
  <2>2. (s \o t)[4] = s[4]
    BY <1>1, <2>1
  <2> QED
    BY <1>1, <1>2, <2>1, <2>2
<1>5. \A i \in 5 .. 4 + Len(t) : i = 4 + (i - 4) /\ i - 4 \in 1 .. Len(t)
  BY <1>2
<1>6. \A i \in 5 .. Len(s \o t) : (s \o t)[i] = "x"
  BY <1>4, <1>5
<1> QED
  BY <1>2, <1>3, <1>4, <1>6

\* SOCKS5, any reply: it grants the connection or says so in its second byte.
LEMMA Answers5 ==
    ASSUME NEW a \in Answers("connect5")
    PROVE  /\ a[1] \in {"granted", "granted6", "refused"}
           /\ a[2] \in Seq(Bytes) /\ Len(a[2]) >= 4
           /\ \/ a[2][2] # "ok"
              \/ \E t \in AddrTypes : a = Reply5(t) /\ t \in {"domain", "ipv4", "ipv6"}
<1>1. CASE a = <<"refused", <<"5", "fail", "x", "ipv4">> \o Pad(6)>>
  <2> DEFINE s == <<"5", "fail", "x", "ipv4">>
             p == Pad(6)
  <2>1. s \in Seq(Bytes) /\ Len(s) = 4 /\ s[2] = "fail"
    BY DEF Bytes, ProxyBytes, FromProxy
  <2>2. p \in Seq(Bytes) /\ Len(p) = 6
    BY PadFacts
  <2>3. a[1] = "refused" /\ a[2] = s \o p
    BY <1>1
  <2> HIDE DEF s, p
  <2>4. s \o p \in Seq(Bytes) /\ Len(s \o p) = 10 /\ (s \o p)[2] = "fail"
    <3>1. /\ s \o p \in Seq(Bytes) /\ Len(s \o p) = Len(s) + Len(p)
          /\ \A i \in 1 .. Len(s) : (s \o p)[i] = s[i]
      BY <2>1, <2>2, HeadAndRest
    <3>2. 2 \in 1 .. Len(s)
      BY <2>1
    <3>3. (s \o p)[2] = s[2]
      BY <3>1, <3>2
    <3> QED
      BY <2>1, <2>2, <3>1, <3>3
  <2> QED
    BY <2>3, <2>4
<1>2. CASE \E t \in AddrTypes : a = Reply5(t)
  <2>1. PICK t \in AddrTypes : a = Reply5(t)
    BY <1>2
  <2>2. t \in {"domain", "ipv4", "ipv6"}
    BY ProxyAssumption
  <2> QED
    BY <2>1, <2>2, ReplyFacts
<1> QED
  BY <1>1, <1>2 DEF Answers, Reply5

\* HTTP: the status line and the header of a proxy that agrees, that refuses,
\* or whose header does not fit.
LEMMA AnswersBlank ==
    ASSUME NEW a \in Answers("blank")
    PROVE  \/ a = Http200 \/ a = HttpLong \/ a = <<"refused", <<"4xx", "\n", "\r", "\n">>>>
  BY DEF Answers, Http200, HttpLong

\* The pieces of the three.
LEMMA BlankFacts ==
    /\ Http200[1] = "granted" /\ HttpLong[1] = "refused"
    /\ Http200[2] \in Seq(Bytes) /\ HttpLong[2] \in Seq(Bytes)
    /\ <<"4xx", "\n", "\r", "\n">> \in Seq(Bytes)
    /\ Len(Http200[2]) = 6 /\ Len(HttpLong[2]) = 3
    /\ Http200[2][1] = "2xx" /\ Http200[2][2] = "\n" /\ Http200[2][3] = "h"
    /\ Http200[2][4] = "\n" /\ Http200[2][5] = "\r" /\ Http200[2][6] = "\n"
    /\ HttpLong[2][1] = "2xx" /\ HttpLong[2][2] = "\n" /\ HttpLong[2][3] = "long"
  BY DEF Http200, HttpLong, Bytes, ProxyBytes, FromProxy

\* Whatever the message, an answer is bytes with a meaning.
LEMMA AnswerTypes ==
    ASSUME NEW u, NEW a \in Answers(u)
    PROVE  a[1] \in {"wait", "granted", "granted6", "refused"} /\ a[2] \in Seq(Bytes)
<1>1. CASE u = "connect4"
  BY <1>1, Answers4
<1>2. CASE u = "hello"
  BY <1>2, AnswersHello
<1>3. CASE u = "connect5"
  BY <1>3, Answers5
<1>4. CASE u = "blank"
  <2>1. \/ a = Http200 \/ a = HttpLong
        \/ a[1] = "refused" /\ a[2] = <<"4xx", "\n", "\r", "\n">>
    BY <1>4, AnswersBlank
  <2> QED
    BY <2>1, BlankFacts
<1>5. CASE u \notin {"connect4", "hello", "connect5", "blank"}
  <2>1. a = <<"wait", <<>>>>
    BY <1>5 DEF Answers
  <2> QED
    BY <2>1
<1> QED
  BY <1>1, <1>2, <1>3, <1>4, <1>5

-----------------------------------------------------------------------------
(* Types.                                                                  *)

\* TypeOK part by part, and the type of the buffer.
TypeInv ==
    /\ ProxyTypeOK
    /\ stage \in Stages /\ parent \in ParentPC /\ child \in ChildPC
    /\ start \in Nat /\ now \in Nat /\ clock \in Nat
    /\ stamp \in Stamp /\ result \in Stamp /\ time_map \in Stamp /\ out \in Stamp
    /\ buf \in Seq(Bytes) /\ Len(buf) <= MAX_HTTP_HEADERS_SIZE

\* Lengths are numbers.
LEMMA Lengths ==
    ASSUME ProxyTypeOK
    PROVE  arrived \in Nat /\ Len(wire) \in Nat /\ Len(sent) \in Nat
<1>1. wire \in Seq(Bytes) /\ sent \in Seq(Messages \cup AppData) /\ arrived \in 0 .. Len(wire)
  BY DEF ProxyTypeOK
<1>2. Len(wire) \in Nat /\ Len(sent) \in Nat
  BY <1>1, LenProperties
<1> QED
  BY <1>1, <1>2

\* A write of a callback.
LEMMA WriteTypes ==
    ASSUME ProxyTypeOK, NEW u \in Messages, NEW next \in BioPC, NEW err \in BioPC,
           Write(u, next, err)
    PROVE  ProxyTypeOK'
<1>1. sent' \in Seq(Messages \cup AppData)
  <2>1. sent' = sent \/ sent' = Append(sent, u)
    BY DEF Write
  <2>2. sent \in Seq(Messages \cup AppData) /\ u \in Messages \cup AppData
    BY DEF ProxyTypeOK
  <2> QED
    BY <2>1, <2>2, AppendProperties
<1>2. bio' \in BioPC
  BY DEF Write, BioPC
<1> QED
  BY <1>1, <1>2 DEF Write, ProxyTypeOK

\* Anything that takes r bytes off the wire.
LEMMA ConsumeTypes ==
    ASSUME ProxyTypeOK, NEW r \in 0 .. arrived, Consume(r),
           bio' \in BioPC, line' \in Bytes \cup {"empty"}, left' \in 0 .. 3, UNCHANGED linkVars
    PROVE  ProxyTypeOK'
<1>1. wire' \in Seq(Bytes) /\ arrived' \in 0 .. Len(wire')
  BY ConsumeFacts DEF ProxyTypeOK
<1> QED
  BY <1>1 DEF ProxyTypeOK, linkVars

\* A read of a callback.
LEMMA ReadTypes ==
    ASSUME ProxyTypeOK, NEW n \in Nat, NEW err \in BioPC, NEW next \in BioPC,
           Read(n, err, next), left' \in 0 .. 3
    PROVE  ProxyTypeOK'
<1>1. arrived \in Nat
  BY Lengths
<1>2. Got(n) \in 0 .. arrived /\ Consume(Got(n))
  BY <1>1, GotFacts DEF Read
<1>3. bio' \in BioPC
  BY DEF Read, BioPC
<1>4. line' = line /\ UNCHANGED linkVars
  BY DEF Read
<1> QED
  BY <1>2, <1>3, <1>4, ConsumeTypes DEF ProxyTypeOK

\* A line of the proxy's header.
LEMMA GetsTypes ==
    ASSUME ProxyTypeOK, NEW wanted, NEW yes \in BioPC, NEW no \in BioPC,
           sock_gets(wanted, yes, no)
    PROVE  ProxyTypeOK'
<1>1. arrived \in Nat
  BY Lengths
<1>2. Got(1) \in 0 .. arrived /\ Consume(Got(1)) /\ (Got(1) # 0 => arrived > 0)
  <2>1. Got(1) \in 0 .. arrived /\ Consume(Got(1))
    BY <1>1, GotFacts DEF sock_gets
  <2> QED
    BY <1>1, <2>1
<1>3. bio' \in BioPC
  BY DEF sock_gets, BioPC, ProxyTypeOK
<1>4. left' = left /\ UNCHANGED linkVars
  BY DEF sock_gets
<1>5. line' \in Bytes \cup {"empty"}
  <2>1. line' \in {"empty", line} \/ (Got(1) # 0 /\ line' = wire[1])
    BY DEF sock_gets
  <2>2. Got(1) # 0 => wire[1] \in Bytes
    BY <1>2, FirstByte DEF ProxyTypeOK
  <2> QED
    BY <2>1, <2>2 DEF ProxyTypeOK
<1> QED
  BY <1>2, <1>3, <1>4, <1>5, ConsumeTypes DEF ProxyTypeOK

\* A step of a callback.
LEMMA ConnectTypes ==
    ASSUME ProxyTypeOK, ConnectStep
    PROVE  ProxyTypeOK'
<1> USE DEF BioPC, Messages
<1>1. CASE bio = "idle" /\ bio' \in {"failed", "abort"} /\ UNCHANGED <<linkVars, line, left, wire, arrived>>
  BY <1>1 DEF ProxyTypeOK, linkVars
<1>2. CASE socks4a_connect
  <2>1. CASE bio = "idle"
    BY <1>2, <2>1, WriteTypes DEF socks4a_connect
  <2>2. CASE bio = "s4_reply"
    <3>1. PICK next \in BioPC : Read(8, "broken", next)
      BY <1>2, <2>2 DEF socks4a_connect
    <3> QED
      BY <1>2, <2>2, <3>1, ReadTypes DEF socks4a_connect, ProxyTypeOK
  <2> QED
    BY <1>2, <2>1, <2>2 DEF socks4a_connect
<1>3. CASE socks5_connect
  <2>1. CASE bio = "idle"
    BY <1>1, <1>3, <2>1, WriteTypes DEF socks5_connect
  <2>2. CASE bio = "s5_method"
    <3>1. PICK next \in BioPC : Read(2, "failed", next)
      BY <1>3, <2>2 DEF socks5_connect
    <3> QED
      BY <1>3, <2>2, <3>1, ReadTypes DEF socks5_connect, ProxyTypeOK
  <2>3. CASE bio = "s5_request"
    BY <1>3, <2>3, WriteTypes DEF socks5_connect
  <2>4. CASE bio = "s5_reply"
    <3>1. PICK next \in BioPC : Read(4, "broken", next)
      BY <1>3, <2>4 DEF socks5_connect, AfterReply
    <3> QED
      BY <1>3, <2>4, <3>1, ReadTypes DEF socks5_connect, ProxyTypeOK
  <2>5. CASE bio = "s5_len"
    <3>1. Read(1, "failed", "s5_addr") /\ left' = 3
      BY <1>3, <2>5 DEF socks5_connect
    <3> QED
      BY <3>1, ReadTypes
  <2>6. CASE bio = "s5_addr"
    <3>1. AddressLoop
      BY <1>3, <2>6 DEF socks5_connect
    <3>2. left \in Nat /\ arrived \in Nat
      <4>1. left \in 0 .. 3
        BY DEF ProxyTypeOK
      <4> QED
        BY <4>1, Lengths
    <3>3. Got(left) \in 0 .. arrived /\ Got(left) <= left /\ Consume(Got(left))
      BY <3>1, <3>2, GotFacts DEF AddressLoop
    <3>4. bio' \in BioPC /\ line' = line /\ UNCHANGED linkVars /\ left' = left - Got(left)
      BY <3>1, <2>6 DEF AddressLoop
    <3>5. left' \in 0 .. 3
      <4>1. left \in 0 .. 3
        BY DEF ProxyTypeOK
      <4>2. Got(left) \in Nat
        BY <3>2, <3>3
      <4> QED
        BY <3>3, <3>4, <4>1, <4>2
    <3> QED
      BY <3>3, <3>4, <3>5, ConsumeTypes DEF ProxyTypeOK
  <2>7. CASE bio = "s5_ipv4"
    <3>1. Read(6, "failed", "up") /\ left' = left
      BY <1>3, <2>7 DEF socks5_connect, Ipv4Tail
    <3> QED
      BY <3>1, ReadTypes DEF ProxyTypeOK
  <2> QED
    BY <1>3, <2>1, <2>2, <2>3, <2>4, <2>5, <2>6, <2>7 DEF socks5_connect
<1>4. CASE http_connect
  BY <1>4, WriteTypes, GetsTypes DEF http_connect
<1>5. CASE NoCallback
  BY <1>1, <1>5 DEF NoCallback
<1> QED
  BY <1>2, <1>3, <1>4, <1>5 DEF ConnectStep

\* Seconds of a clock.
LEMMA SecNat ==
    ASSUME NEW t \in Nat
    PROVE  Sec(t) \in Nat
<1>1. K \in Nat /\ K > 0
  BY HelperAssumption
<1> QED
  BY <1>1 DEF Sec

\* A read of the TLS layer takes one message, or none.
LEMMA ReceiveTypes ==
    ASSUME ProxyTypeOK, arrived > 0, Consume(1), UNCHANGED <<connect, bio, line, left, sent, link, tunnel>>
    PROVE  ProxyTypeOK'
<1>1. 1 \in 0 .. arrived
  BY Lengths
<1>2. bio' \in BioPC /\ line' \in Bytes \cup {"empty"} /\ left' \in 0 .. 3 /\ UNCHANGED linkVars
  BY DEF ProxyTypeOK, linkVars
<1> QED
  BY <1>1, <1>2, ConsumeTypes

\* A step of the child.
LEMMA ChildTypes ==
    ASSUME TypeInv, ChildStep
    PROVE  TypeInv'
<1> USE DEF TypeInv, ChildPC
<1>g. ASSUME NEW pc \in ChildPC, Goto(pc)
      PROVE  TypeInv'
  BY <1>g DEF Goto, ProxyTypeOK, proxyVars, confVars, parentVars
<1>1. CASE SetUp
  <2>1. CASE Goto("died")
    BY <2>1, <1>g
  <2>2. CASE ~Goto("died")
    <3>1. connect' \in {"none", "NULL", "socks5", "socks4a", "http"} /\ child' = "connect"
      BY <1>1, <2>2 DEF SetUp, setup_proxy, BIO_proxy_set_type
    <3> QED
      BY <1>1, <2>2, <3>1 DEF SetUp, ProxyTypeOK, confVars, parentVars
  <2> QED
    BY <2>1, <2>2
<1>2. CASE DoConnect
  <2>1. CASE Goto("died")
    BY <2>1, <1>g
  <2>2. CASE ~Goto("died")
    BY <1>2, <2>2 DEF DoConnect, ProxyTypeOK, confVars, parentVars
  <2> QED
    BY <2>1, <2>2
<1>3. CASE ProxyHandshake
  <2>1. ProxyTypeOK'
    BY <1>3, ConnectTypes DEF ProxyHandshake
  <2> QED
    BY <1>3, <2>1 DEF ProxyHandshake, confVars, helperVars
<1>4. ASSUME NEW u \in AppData, NEW pc \in ChildPC, Send(u, pc)
      PROVE  TypeInv'
  <2>1. CASE Goto("died")
    BY <2>1, <1>g
  <2>2. CASE ~Goto("died")
    <3>1. sent' = Append(sent, u) /\ child' = pc
      BY <1>4, <2>2 DEF Send
    <3>2. sent \in Seq(Messages \cup AppData) /\ u \in Messages \cup AppData
      BY DEF ProxyTypeOK
    <3>3. sent' \in Seq(Messages \cup AppData)
      BY <3>1, <3>2, AppendProperties
    <3> QED
      BY <1>4, <2>2, <3>1, <3>3 DEF Send, ProxyTypeOK, confVars, parentVars
  <2> QED
    BY <2>1, <2>2
<1>5. CASE ServerHello
  <2>1. CASE Goto("died")
    BY <2>1, <1>g
  <2>2. CASE ~Goto("died")
    <3>1. ProxyTypeOK'
      BY <1>5, <2>2, ReceiveTypes DEF ServerHello, Receive
    <3>2. child' \in ChildPC /\ result' = stamp
      BY <1>5, <2>2 DEF ServerHello, Receive
    <3> QED
      BY <1>5, <2>2, <3>1, <3>2 DEF ServerHello, Receive, confVars, parentVars
  <2> QED
    BY <2>1, <2>2
<1>6. CASE Finished
  <2>1. CASE Goto("died")
    BY <2>1, <1>g
  <2>2. CASE ~Goto("died")
    <3>1. ProxyTypeOK'
      BY <1>6, <2>2, ReceiveTypes DEF Finished, Receive
    <3>2. child' \in ChildPC /\ result' = result
      BY <1>6, <2>2 DEF Finished, Receive
    <3> QED
      BY <1>6, <2>2, <3>1, <3>2 DEF Finished, Receive, confVars, parentVars
  <2> QED
    BY <2>1, <2>2
<1>7. CASE child = "date" /\ read_http_date_from_bio
  <2> DEFINE n == Got(Room)
             text == buf \o SubSeq(wire, 1, n)
             whole == \E i \in 1 .. Len(text) : text[i] = "ate"
             t == handle_date_line(stamp, whole)
  <2>1. Len(buf) \in Nat /\ MAX_HTTP_HEADERS_SIZE \in Nat /\ Room \in Nat
    BY LenProperties, HelperAssumption DEF Room
  <2>2. n \in 0 .. arrived /\ n <= Room
    BY <2>1, Lengths, GotFacts
  <2>3. /\ SubSeq(wire, 1, n) \in Seq(Bytes) /\ Len(SubSeq(wire, 1, n)) = n
    <3>1. wire \in Seq(Bytes) /\ arrived \in 0 .. Len(wire)
      BY DEF ProxyTypeOK
    <3>2. n \in 0 .. Len(wire)
      BY <2>2, <3>1, Lengths
    <3> HIDE DEF n
    <3> QED
      BY <3>1, <3>2, FrontFacts
  <2>4. text \in Seq(Bytes) /\ Len(text) <= MAX_HTTP_HEADERS_SIZE
    <3> DEFINE s == SubSeq(wire, 1, n)
    <3> HIDE DEF s, n
    <3>1. s \in Seq(Bytes) /\ Len(s) = n
      BY <2>3 DEF s
    <3>2. buf \o s \in Seq(Bytes) /\ Len(buf \o s) = Len(buf) + n
      BY <3>1, HeadAndRest
    <3> QED
      BY <2>1, <2>2, <3>2 DEF s, Room
  <2>5. t \in Int
    BY HelperAssumption DEF handle_date_line, Stamp
  <2>6. /\ Consume(n)
        /\ child' \in {"died", "inspect", "date"}
        /\ buf' \in {buf, <<>>, text}
        /\ result' \in {result, [stamp EXCEPT !.sec = t, !.form = "good"]}
        /\ UNCHANGED <<linkVars, bio, line, left, confVars, parentVars, cert, time_map>>
    BY <1>7 DEF read_http_date_from_bio
  <2> HIDE DEF n, t, text
  <2>7. ProxyTypeOK'
    BY <2>2, <2>6, ConsumeTypes DEF ProxyTypeOK
  <2>8. result' \in Stamp
    BY <2>5, <2>6 DEF Stamp
  <2>9. buf' \in Seq(Bytes) /\ Len(buf') <= MAX_HTTP_HEADERS_SIZE
    <3>1. <<>> \in Seq(Bytes) /\ Len(<<>>) = 0
      BY EmptySeq
    <3>2. buf' = buf \/ buf' = <<>> \/ buf' = text
      BY <2>6
    <3>3. 0 <= MAX_HTTP_HEADERS_SIZE
      BY <2>1
    <3> QED
      BY <2>4, <3>1, <3>2, <3>3
  <2> QED
    BY <2>6, <2>7, <2>8, <2>9 DEF confVars, parentVars
<1>8. CASE Inspect
  BY <1>8 DEF Inspect, ProxyTypeOK, proxyVars, confVars, parentVars
<1> QED
  BY <1>1, <1>2, <1>3, <1>4, <1>5, <1>6, <1>7, <1>8 DEF ChildStep, AppData

\* A step of the proxy or of the network.
LEMMA NetworkTypes ==
    ASSUME ProxyTypeOK, ProxyAnswers \/ Arrive \/ Close
    PROVE  ProxyTypeOK'
<1>0. /\ wire \in Seq(Bytes) /\ sent \in Seq(Messages \cup AppData)
      /\ arrived \in 0 .. Len(wire) /\ Len(wire) \in Nat
  BY Lengths DEF ProxyTypeOK
<1>1. CASE ProxyAnswers
  <2>1. PICK a \in Answers(Head(sent)) : tunnel' = a[1] /\ wire' = wire \o a[2]
    BY <1>1 DEF ProxyAnswers
  <2>2. a[1] \in {"wait", "granted", "granted6", "refused"} /\ a[2] \in Seq(Bytes)
    BY <2>1, AnswerTypes
  <2> DEFINE v == a[2]
  <2>3. v \in Seq(Bytes) /\ wire' = wire \o v /\ Len(v) \in Nat
    BY <2>1, <2>2, LenProperties
  <2> HIDE DEF v
  <2>4. wire' \in Seq(Bytes) /\ Len(wire') = Len(wire) + Len(v)
    BY <1>0, <2>3, HeadAndRest
  <2>5. arrived \in 0 .. Len(wire')
    BY <1>0, <2>3, <2>4
  <2>6. sent' \in Seq(Messages \cup AppData)
    BY <1>0, <1>1, HeadTailProperties DEF ProxyAnswers
  <2>7. UNCHANGED <<connect, bio, line, left, arrived, link>>
    BY <1>1 DEF ProxyAnswers
  <2> QED
    BY <2>1, <2>2, <2>4, <2>5, <2>6, <2>7 DEF ProxyTypeOK
<1>2. CASE Arrive
  <2>1. arrived' \in 0 .. Len(wire)
    BY <1>0, <1>2 DEF Arrive
  <2> QED
    BY <1>2, <2>1 DEF Arrive, ProxyTypeOK
<1>3. CASE Close
  <2>1. wire' = wire \/ wire' = SubSeq(wire, 1, arrived)
    BY <1>3 DEF Close
  <2>2. wire' \in Seq(Bytes) /\ arrived \in 0 .. Len(wire')
    BY <1>0, <2>1, FrontFacts
  <2> QED
    BY <1>3, <2>2 DEF Close, ProxyTypeOK
<1> QED
  BY <1>1, <1>2, <1>3

\* A server's answer.
LEMMA ServerTypes ==
    ASSUME TypeInv, ServerAnswers
    PROVE  TypeInv'
<1> USE DEF TypeInv
<1>0. /\ wire \in Seq(Bytes) /\ sent \in Seq(Messages \cup AppData)
      /\ arrived \in 0 .. Len(wire) /\ Len(wire) \in Nat
  BY Lengths DEF ProxyTypeOK
<1>1. \E v \in Seq(Bytes) : wire' = wire \o v
  <2>1. \A head \in HttpHeads : head \in Seq(Bytes)
    BY HelperAssumption, SeqMonotonic, Text \subseteq Bytes DEF Text, Bytes
  <2>2. <<"hello", "fin">> \in Seq(Bytes) /\ <<"alert">> \in Seq(Bytes)
    BY DEF Bytes
  <2> QED
    BY <2>1, <2>2 DEF ServerAnswers
<1>2. PICK v \in Seq(Bytes) : wire' = wire \o v
  BY <1>1
<1>3. wire' \in Seq(Bytes) /\ Len(wire') = Len(wire) + Len(v) /\ Len(v) \in Nat
  BY <1>0, <1>2, HeadAndRest, LenProperties
<1>4. arrived \in 0 .. Len(wire')
  BY <1>0, <1>3
<1>5. sent' \in Seq(Messages \cup AppData)
  BY <1>0, HeadTailProperties DEF ServerAnswers
<1>6. stamp' \in Stamp
  <2>1. Sec(now) \in Nat
    BY SecNat
  <2>2. ASSUME NEW f, f \subseteq {"good", "rfc850", "junk"}
        PROVE  Stamps(f) \subseteq Stamp
    <3>0. TRUE \in BOOLEAN /\ FALSE \in BOOLEAN
      OBVIOUS
    <3>1. [sec : {Sec(now)}, honest : {TRUE}, form : f] \subseteq Stamp
      <4> DEFINE n == Sec(now)
      <4>1. n \in Int
        BY <2>1
      <4> HIDE DEF n
      <4>2. [sec : {n}, honest : {TRUE}, form : f] \subseteq Stamp
        BY <2>2, <3>0, <4>1 DEF Stamp
      <4> QED
        BY <4>2 DEF n
    <3>2. [sec : FalseTimes, honest : {FALSE}, form : f] \subseteq Stamp
      <4>1. FalseTimes \subseteq Int
        BY HelperAssumption
      <4> QED
        BY <2>2, <3>0, <4>1 DEF Stamp
    <3> QED
      BY <3>1, <3>2 DEF Stamps
  <2>3. stamp' \in Stamps({"good"}) \cup Stamps({"good", "rfc850", "junk"}) \cup {stamp}
    BY DEF ServerAnswers
  <2> QED
    BY <2>2, <2>3
<1>7. UNCHANGED <<connect, bio, line, left, arrived, link, tunnel>>
  BY DEF ServerAnswers
<1>8. ProxyTypeOK'
  BY <1>3, <1>4, <1>5, <1>7 DEF ProxyTypeOK
<1> QED
  BY <1>6, <1>8 DEF ServerAnswers, confVars

\* The clock is set to a time that is not before the epoch.
LEMMA ClockTypes ==
    ASSUME TypeInv, SetClock
    PROVE  clock' \in Nat
<1>1. K \in Nat /\ RECENT_COMPILE_DATE \in Nat /\ K > 0
  BY HelperAssumption
<1>2. CASE clock' = clock
  BY <1>2 DEF TypeInv
<1>3. CASE clock' = ServerTime * K /\ RECENT_COMPILE_DATE < ServerTime
  <2> DEFINE q == rt_time \div (2 * K)
  <2>1. rt_time \in Nat
    BY DEF TypeInv, rt_time
  <2>2. 2 * K \in Nat /\ 2 * K > 0
    BY <1>1
  <2>3. q \in Int
    BY <2>1, <2>2
  <2>4. time_map.sec \in Int
    BY DEF TypeInv, Stamp
  <2>5. ServerTime = time_map.sec + q
    BY DEF ServerTime
  <2> HIDE DEF q
  <2>6. ServerTime \in Nat
    BY <1>1, <1>3, <2>3, <2>4, <2>5
  <2> QED
    BY <1>1, <1>3, <2>6
<1> QED
  BY <1>2, <1>3 DEF SetClock

\* A step of the parent, or of the start-up.
LEMMA ParentTypes ==
    ASSUME TypeInv,
           (Startup /\ UNCHANGED <<proxyVars, helperVars>>) \/ Exec \/ ParentStep \/ Kill
    PROVE  TypeInv'
<1> USE DEF TypeInv, ParentPC, ChildPC, Stages
<1>p. ASSUME UNCHANGED proxyVars
      PROVE  ProxyTypeOK'
  BY <1>p DEF proxyVars, ProxyTypeOK
<1>1. CASE Startup /\ UNCHANGED <<proxyVars, helperVars>>
  <2>1. stage' \in Stages
    BY <1>1 DEF Startup, parse_argv, CheckConf, load_conf, conf_parse, LoadEntry, parse_source,
                LoadDone, Sources, Fatal
  <2> QED
    BY <1>1, <1>p, <2>1 DEF helperVars
<1>2. CASE Exec
  BY <1>2, <1>p DEF Exec
<1>3. CASE Main
  <2>1. clock' \in Nat /\ start' \in Nat
    <3>1. RECENT_COMPILE_DATE * K \in Nat
      BY HelperAssumption
    <3> QED
      BY <1>3, <3>1 DEF Main
  <2>2. Zero \in Stamp
    BY DEF Zero, Stamp
  <2>3. parent' \in ParentPC /\ child' \in ChildPC
    BY <1>3 DEF Main, Die
  <2> QED
    BY <1>3, <1>p, <2>1, <2>2, <2>3 DEF Main, confVars
<1>4. CASE Collect
  <2>1. out' \in Stamp /\ parent' \in ParentPC
    BY <1>4 DEF Collect, Die
  <2> QED
    BY <1>4, <1>p, <2>1 DEF Collect, confVars
<1>5. CASE SetClock
  <2>1. clock' \in Nat
    BY <1>5, ClockTypes
  <2>2. parent' \in ParentPC
    BY <1>5 DEF SetClock, Die
  <2> QED
    BY <1>5, <1>p, <2>1, <2>2 DEF SetClock, confVars
<1>6. CASE Kill
  BY <1>6, <1>p DEF Kill, confVars
<1> QED
  BY <1>1, <1>2, <1>3, <1>4, <1>5, <1>6 DEF ParentStep

\* Every step keeps the types.
LEMMA TypeNext ==
    ASSUME TypeInv, [Next]_vars
    PROVE  TypeInv'
<1> USE DEF TypeInv
<1>p. ASSUME UNCHANGED proxyVars
      PROVE  ProxyTypeOK'
  BY <1>p DEF proxyVars, ProxyTypeOK
<1>1. CASE Network
  <2>1. ProxyTypeOK'
    BY <1>1, NetworkTypes DEF Network
  <2> QED
    BY <1>1, <2>1 DEF Network, confVars, helperVars
<1>2. CASE Tick
  BY <1>2, <1>p DEF Tick, confVars
<1>3. CASE Jump
  <2>1. clock' \in Nat
    BY <1>3, HelperAssumption DEF Jump
  <2> QED
    BY <1>3, <1>p, <2>1 DEF Jump, confVars
<1>4. CASE UNCHANGED vars
  BY <1>4, <1>p DEF vars, confVars, helperVars
<1> QED
  BY <1>1, <1>2, <1>3, <1>4, ParentTypes, ChildTypes, ServerTypes DEF Next

\* The types hold at the start.
LEMMA TypeStart ==
    ASSUME Init
    PROVE  TypeInv
<1>1. connect \in {"none", "NULL", "socks4a", "socks5", "http"} /\ link \in {"none", "open"}
  BY HelperAssumption DEF Init
<1>2. /\ bio = "idle" /\ line = "empty" /\ left = 0 /\ sent = <<>> /\ wire = <<>> /\ arrived = 0
      /\ tunnel = "wait"
  BY DEF Init
<1>e. <<>> \in Seq(Bytes) /\ <<>> \in Seq(Messages \cup AppData) /\ Len(<<>>) = 0
  BY EmptySeq
<1>3. ProxyTypeOK
  <2>1. line \in Bytes \cup {"empty"} /\ left \in 0 .. 3 /\ bio \in BioPC
    BY <1>2 DEF BioPC
  <2>2. sent \in Seq(Messages \cup AppData) /\ wire \in Seq(Bytes) /\ arrived \in 0 .. Len(wire)
    BY <1>2, <1>e
  <2> QED
    BY <1>1, <1>2, <2>1, <2>2 DEF ProxyTypeOK
<1>4. stage \in Stages /\ parent \in ParentPC /\ child \in ChildPC
  BY DEF Init, ConfigInit, Gone, Stages, ParentPC, ChildPC
<1>5. start \in Nat /\ now \in Nat /\ clock \in Nat
  BY HelperAssumption DEF Init
<1>6. Zero \in Stamp
  BY DEF Zero, Stamp
<1>7. buf \in Seq(Bytes) /\ Len(buf) <= MAX_HTTP_HEADERS_SIZE
  <2>1. buf = <<>> /\ MAX_HTTP_HEADERS_SIZE \in Nat
    BY HelperAssumption DEF Init
  <2> QED
    BY <2>1, <1>e
<1> QED
  BY <1>3, <1>4, <1>5, <1>6, <1>7 DEF Init, TypeInv

\* The state of tlsdate, its helper and the proxy BIO keeps its types: nothing
\* reads beyond the wire or writes beyond the buffer of read_http_date_from_bio.
THEOREM HelperTypes == Spec => []TypeOK
<1>1. Init => TypeInv
  BY TypeStart
<1>2. TypeInv /\ [Next]_vars => TypeInv'
  BY TypeNext
<1>3. TypeInv => TypeOK
  BY DEF TypeInv, TypeOK
<1> QED
  BY <1>1, <1>2, <1>3, PTL DEF Spec

-----------------------------------------------------------------------------
(* Pieces of an answer.                                                    *)

\* Reading r more bytes.
LEMMA CutRest ==
    ASSUME NEW w \in Seq(Bytes), NEW l, NEW X \in Seq(Bytes), NEW k \in Nat,
           NEW r \in 0 .. Len(w), CutOf(w, l, X, k)
    PROVE  CutOf(SubSeq(w, r + 1, Len(w)), l, X, k + r)
<1> DEFINE v == SubSeq(w, r + 1, Len(w))
<1>1. Len(w) \in Nat /\ Len(X) \in Nat
  BY LenProperties
<1>2. v \in Seq(Bytes) /\ Len(v) = Len(w) - r /\ \A i \in 1 .. Len(v) : v[i] = w[r + i]
  BY RestFacts
<1> HIDE DEF v
<1>3. Len(v) <= Len(X) - (k + r) /\ (l # "reset" => Len(v) = Len(X) - (k + r))
  BY <1>1, <1>2 DEF CutOf
<1>4. ASSUME NEW i \in 1 .. Len(v)
      PROVE  v[i] = X[(k + r) + i]
  <2>1. r + i \in 1 .. Len(w) /\ k + (r + i) = (k + r) + i
    BY <1>1, <1>2
  <2>2. w[r + i] = X[k + (r + i)]
    BY <2>1 DEF CutOf
  <2> QED
    BY <1>2, <2>1, <2>2
<1>5. CutOf(v, l, X, k + r)
  BY <1>3, <1>4 DEF CutOf
<1> QED
  BY <1>5 DEF v

\* Losing what has not arrived when the connection breaks.
LEMMA CutFront ==
    ASSUME NEW w \in Seq(Bytes), NEW l, NEW X \in Seq(Bytes), NEW k \in Nat,
           NEW r \in 0 .. Len(w), CutOf(w, l, X, k)
    PROVE  CutOf(SubSeq(w, 1, r), "reset", X, k)
<1> DEFINE v == SubSeq(w, 1, r)
<1>1. Len(w) \in Nat /\ Len(X) \in Nat
  BY LenProperties
<1>2. v \in Seq(Bytes) /\ Len(v) = r /\ \A i \in 1 .. Len(v) : v[i] = w[i]
  BY FrontFacts
<1> HIDE DEF v
<1>3. Len(v) <= Len(X) - k
  BY <1>1, <1>2 DEF CutOf
<1>4. ASSUME NEW i \in 1 .. Len(v)
      PROVE  v[i] = X[k + i]
  <2>1. i \in 1 .. Len(w)
    BY <1>1, <1>2
  <2> QED
    BY <1>2, <2>1 DEF CutOf
<1>5. CutOf(v, "reset", X, k)
  BY <1>3, <1>4 DEF CutOf
<1> QED
  BY <1>5 DEF v

\* Nothing is left behind the last byte.
LEMMA CutEnd ==
    ASSUME NEW w \in Seq(Bytes), NEW l, NEW X \in Seq(Bytes), CutOf(w, l, X, Len(X))
    PROVE  w = <<>>
<1>1. Len(w) \in Nat /\ Len(X) \in Nat
  BY LenProperties
<1>2. Len(w) = 0
  BY <1>1 DEF CutOf
<1> QED
  BY <1>2, EmptySeq

\* An answer that has just been given.
LEMMA CutStart ==
    ASSUME NEW X \in Seq(Bytes), NEW l
    PROVE  CutOf(<<>> \o X, l, X, 0)
<1>1. <<>> \o X = X
  BY ConcatEmptySeq
<1>2. Len(X) \in Nat
  BY LenProperties
<1> QED
  BY <1>1, <1>2 DEF CutOf

\* When nothing has been answered there is nothing to read.
LEMMA NothingToRead ==
    ASSUME ProxyTypeOK, wire = <<>>, NEW n \in Nat
    PROVE  arrived = 0 /\ Got(n) = 0
<1>1. arrived \in 0 .. Len(wire) /\ Len(<<>>) = 0
  BY DEF ProxyTypeOK
<1> QED
  BY <1>1 DEF Got

\* A read of all n bytes of an answer, seen in the answer.
LEMMA ReadAll ==
    ASSUME ProxyTypeOK, NEW X \in Seq(Bytes), NEW k \in Nat, CutOf(wire, link, X, k),
           NEW n \in Nat, n = Got(n), Consume(n)
    PROVE  /\ CutOf(wire', link, X, k + n)
           /\ \A i \in 1 .. n : wire[i] = X[k + i]
           /\ k + n <= Len(X) /\ n <= Len(wire)
<1>1. arrived \in Nat /\ Len(wire) \in Nat /\ Len(X) \in Nat /\ arrived <= Len(wire)
  BY Lengths, LenProperties DEF ProxyTypeOK
<1>2. n \in 0 .. Len(wire) /\ wire \in Seq(Bytes)
  BY <1>1, GotFacts DEF ProxyTypeOK
<1>3. wire' = SubSeq(wire, n + 1, Len(wire))
  BY DEF Consume
<1>4. CutOf(wire', link, X, k + n)
  BY <1>2, <1>3, CutRest
<1>5. \A i \in 1 .. n : i \in 1 .. Len(wire)
  BY <1>1, <1>2
<1> QED
  BY <1>1, <1>2, <1>4, <1>5 DEF CutOf

-----------------------------------------------------------------------------
(* What is on the wire, step by step.                                      *)

\* A step that leaves the BIO, the wire and the child alone.
LEMMA WireQuiet ==
    ASSUME WireInv, UNCHANGED <<connect, bio, line, left, sent, wire, link, tunnel, child, buf>>
    PROVE  WireInv'
<1>1. Waiting({<<>>})' <=> Waiting({<<>>})
  BY DEF Waiting
<1>2. Dawn'
  BY <1>1 DEF WireInv, Dawn
<1>3. InPlace => InPlace'
  BY DEF InPlace, Waiting, Answered, Cut
<1>4. Passage => Passage'
  BY DEF Passage
<1>5. InStep => InStep'
  BY DEF InStep, ReadingHead, Cut
<1>6. (connect # "none")' <=> connect # "none"
  OBVIOUS
<1>7. Clear' <=> Clear
  BY DEF Clear
<1> QED
  BY <1>2, <1>3, <1>4, <1>5, <1>6, <1>7 DEF WireInv

\* The first step of the parent starts the child.
LEMMA WireMain ==
    ASSUME WireInv, Verified, Main
    PROVE  WireInv'
<1>1. UNCHANGED <<connect, bio, line, left, sent, wire, link, tunnel, buf>>
  BY DEF Main, proxyVars
<1>2. child = "none" /\ child' \in {"none", "run_ssl"}
  BY DEF Main, Verified
<1>3. /\ bio = "idle" /\ Waiting({<<>>}) /\ line = "empty" /\ connect = "none" /\ buf = <<>>
  BY <1>2 DEF WireInv, Dawn, Early
<1>4. Waiting({<<>>})'
  BY <1>1, <1>3 DEF Waiting
<1>5. Dawn'
  BY <1>1, <1>2, <1>3, <1>4 DEF Dawn, Early
<1>6. InStep'
  BY <1>2 DEF InStep
<1> QED
  BY <1>1, <1>3, <1>5, <1>6 DEF WireInv

\* The connection closes or breaks.
LEMMA WireClose ==
    ASSUME WireInv, TypeInv, Close, child' = child, buf' = buf
    PROVE  WireInv'
<1>0. /\ wire \in Seq(Bytes) /\ arrived \in 0 .. Len(wire) /\ link = "open"
      /\ UNCHANGED <<connect, bio, line, left, sent, tunnel>>
      /\ \/ link' = "eof" /\ wire' = wire
         \/ link' = "reset" /\ wire' = SubSeq(wire, 1, arrived)
  BY DEF Close, TypeInv, ProxyTypeOK
<1>1. /\ wire' \in Seq(Bytes) /\ Len(wire') \in Nat /\ Len(wire) \in Nat
      /\ \A i \in 1 .. Len(wire') : i \in 1 .. Len(wire) /\ wire'[i] = wire[i]
      /\ link' # "reset" => wire' = wire
      /\ wire = <<>> => wire' = <<>>
  <2>1. Len(wire) \in Nat /\ (wire = <<>> => arrived = 0)
    BY <1>0, LenProperties
  <2>2. CASE wire' = wire /\ link' = "eof"
    BY <1>0, <2>1, <2>2
  <2>3. CASE link' = "reset" /\ wire' = SubSeq(wire, 1, arrived)
    <3>1. wire' \in Seq(Bytes) /\ Len(wire') = arrived /\ \A i \in 1 .. Len(wire') : wire'[i] = wire[i]
      BY <1>0, <2>3, FrontFacts
    <3>2. wire = <<>> => wire' = <<>>
      BY <2>1, <3>1, EmptySeq
    <3> QED
      BY <1>0, <2>1, <2>3, <3>1, <3>2
  <2> QED
    BY <1>0, <2>2, <2>3
<1>2. ASSUME NEW X \in Seq(Bytes), NEW k \in Nat, CutOf(wire, link, X, k)
      PROVE  CutOf(wire', link', X, k)
  <2>1. CASE link' = "eof" /\ wire' = wire
    BY <1>0, <1>2, <2>1 DEF CutOf
  <2>2. CASE link' = "reset" /\ wire' = SubSeq(wire, 1, arrived)
    BY <1>0, <1>2, <2>2, CutFront
  <2> QED
    BY <1>0, <2>1, <2>2
<1>3. ASSUME NEW a, a[2] \in Seq(Bytes), NEW k \in Nat, Answered(a, k)
      PROVE  Answered(a, k)'
  BY <1>0, <1>2, <1>3 DEF Answered, Cut
<1>4. \A S : Waiting(S) => Waiting(S)'
  BY <1>0, <1>1 DEF Waiting
<1>5. Dawn'
  BY <1>0, <1>4 DEF WireInv, Dawn
<1>6. ASSUME InPlace
      PROVE  InPlace'
  <2>1. \A u : \A a \in Answers(u) : a[2] \in Seq(Bytes)
    BY AnswerTypes
  <2>2. /\ Reply5("domain")[2] \in Seq(Bytes) /\ Reply5("ipv4")[2] \in Seq(Bytes)
        /\ Http200[2] \in Seq(Bytes) /\ HttpLong[2] \in Seq(Bytes)
    BY ReplyFacts, BlankFacts
  <2>3. \A u : (\E a \in Answers(u) : Answered(a, 0)) => (\E a \in Answers(u) : Answered(a, 0)')
    BY <1>3, <2>1
  <2>4. bio = "s5_addr" => left' \in 1 .. 3 /\ Answered(Reply5("domain"), 8 - left)'
    <3> SUFFICES ASSUME bio = "s5_addr"
                 PROVE  left' \in 1 .. 3 /\ Answered(Reply5("domain"), 8 - left)'
      OBVIOUS
    <3>1. left' = left /\ left \in 1 .. 3 /\ 8 - left \in Nat
      BY <1>0, <1>6 DEF InPlace
    <3>2. Answered(Reply5("domain"), 8 - left)
      BY <1>6 DEF InPlace
    <3> QED
      BY <1>0, <1>2, <2>2, <3>1, <3>2 DEF Answered, Cut
  <2>5. bio = "http_status" => InPlace'
    <3>1. \A a \in Answers("blank") : /\ Answered(a, 0) => Answered(a, 0)'
                                      /\ Answered(a, 1) => Answered(a, 1)'
      BY <1>3, <2>1
    <3> QED
      BY <1>0, <1>4, <1>6, <3>1 DEF InPlace
  <2>6. bio = "http_header" => InPlace'
    <3>1. \A k \in 2 .. 5 : Answered(Http200, k) => Answered(Http200, k)'
      BY <1>3, <2>2
    <3>2. Answered(HttpLong, 2) => Answered(HttpLong, 2)'
      BY <1>3, <2>2
    <3> QED
      BY <1>0, <1>6, <3>1, <3>2 DEF InPlace
  <2>7. bio \in {"s5_len", "s5_ipv4"} => InPlace'
    BY <1>0, <1>3, <1>6, <2>2 DEF InPlace
  <2>8. bio \in {"idle", "s4_reply", "s5_method", "s5_request", "s5_reply", "http_host",
                 "http_blank"} => InPlace'
    BY <1>0, <1>4, <1>6, <2>3 DEF InPlace
  <2> QED
    BY <1>0, <2>4, <2>5, <2>6, <2>7, <2>8 DEF InPlace
<1>7. Passage => Passage'
  BY <1>0, <1>1 DEF Passage
<1>8. ASSUME InStep
      PROVE  InStep'
  <2>1. <<"hello", "fin">> \in Seq(Bytes) /\ <<"alert">> \in Seq(Bytes)
    BY DEF Bytes
  <2>2. ASSUME NEW head \in HttpHeads, ReadingHead(head)
        PROVE  ReadingHead(head)'
    <3>1. head \in Seq(Bytes)
      BY HelperAssumption, SeqMonotonic, Text \subseteq Bytes DEF Text, Bytes
    <3>2. Len(buf) \in Nat
      BY LenProperties DEF TypeInv
    <3> QED
      BY <1>0, <1>2, <2>2, <3>1, <3>2 DEF ReadingHead, Cut
  <2>3. \A X \in Seq(Bytes), k \in Nat : Cut(X, k) => Cut(X, k)'
    BY <1>2 DEF Cut
  <2> QED
    BY <1>0, <1>1, <1>8, <2>1, <2>2, <2>3 DEF InStep
<1>9. Clear' = Clear /\ connect' = connect
  BY <1>0 DEF Clear
<1> QED
  BY <1>5, <1>6, <1>7, <1>8, <1>9 DEF WireInv

\* The messages of an HTTP proxy's callback, one by one.
LEMMA TailFacts ==
    /\ Head(<<"Host">>) = "Host" /\ Tail(<<"Host">>) = <<>>
    /\ Head(<<"CONNECT", "Host">>) = "CONNECT" /\ Tail(<<"CONNECT", "Host">>) = <<"Host">>
    /\ Head(<<"Host", "blank">>) = "Host" /\ Tail(<<"Host", "blank">>) = <<"blank">>
    /\ Head(<<"CONNECT", "Host", "blank">>) = "CONNECT"
    /\ Tail(<<"CONNECT", "Host", "blank">>) = <<"Host", "blank">>
  OBVIOUS

\* The proxy answers a message.
LEMMA WireProxy ==
    ASSUME WireInv, TypeInv, ProxyAnswers, child' = child, buf' = buf
    PROVE  WireInv'
<1>0. /\ connect # "none" /\ link = "open" /\ tunnel = "wait" /\ sent # <<>> /\ sent' = Tail(sent)
      /\ UNCHANGED <<connect, bio, line, left, arrived, link>>
  BY DEF ProxyAnswers
<1>1. InPlace /\ Passage /\ Dawn
  BY <1>0 DEF WireInv
<1>2. bio # "up" /\ child \notin Early
  BY <1>0, <1>1 DEF Passage, Dawn, Waiting
<1>3. ~Clear'
  BY <1>0, <1>2 DEF Clear
<1>4. Dawn'
  BY <1>0, <1>1, <1>2 DEF Dawn
<1>5. PICK a \in Answers(Head(sent)) : tunnel' = a[1] /\ wire' = wire \o a[2]
  BY DEF ProxyAnswers
<1>6. Passage'
  <2>1. \A i \in 1 .. Len(sent') : sent'[i] \notin AppData
    <3>1. sent \in Seq(Messages \cup AppData) /\ Len(sent) \in Nat
      BY Lengths DEF TypeInv, ProxyTypeOK
    <3>2. Len(sent') = Len(sent) - 1 /\ \A i \in 1 .. Len(sent') : sent'[i] = sent[i + 1]
      BY <1>0, <3>1, HeadTailProperties
    <3>3. \A i \in 1 .. Len(sent') : i + 1 \in 1 .. Len(sent)
      BY <3>1, <3>2
    <3> QED
      BY <1>1, <1>2, <3>2, <3>3 DEF Passage
  <2> QED
    BY <1>0, <1>1, <1>2, <2>1 DEF Passage
<1>7. InPlace'
  <2>1. ASSUME NEW u, wire = <<>>, sent = <<u>>
        PROVE  \E b \in Answers(u) : Answered(b, 0)'
    <3>1. Head(sent) = u /\ sent' = <<>>
      BY <1>0, <2>1
    <3>2. a \in Answers(u)
      BY <3>1, <1>5
    <3>3. a[2] \in Seq(Bytes)
      BY <3>2, AnswerTypes
    <3>4. CutOf(wire', link', a[2], 0)
      BY <1>5, <2>1, <3>3, CutStart
    <3> QED
      BY <1>5, <3>1, <3>2, <3>4 DEF Answered, Cut
  <2>2. ASSUME wire = <<>>, Head(sent) \in {"CONNECT", "Host"}
        PROVE  wire' = <<>> /\ tunnel' = "wait"
    <3>1. a = <<"wait", <<>>>>
      BY <1>5, <2>2 DEF Answers
    <3>2. a[1] = "wait" /\ a[2] = <<>>
      BY <3>1
    <3> QED
      BY <1>5, <2>2, <3>2
  <2>3. \A b, k : ~Answered(b, k)
    BY <1>0 DEF Answered
  <2>4. CASE bio = "idle" \/ bio = "s5_request"
    BY <1>0, <1>1, <2>4 DEF InPlace, Waiting
  <2>5. CASE bio = "s4_reply"
    <3>1. wire = <<>> /\ sent = <<"connect4">>
      BY <1>1, <2>3, <2>5 DEF InPlace, Waiting
    <3> QED
      BY <1>0, <2>1, <2>5, <3>1 DEF InPlace
  <2>6. CASE bio = "s5_method"
    <3>1. wire = <<>> /\ sent = <<"hello">>
      BY <1>1, <2>3, <2>6 DEF InPlace, Waiting
    <3> QED
      BY <1>0, <2>1, <2>6, <3>1 DEF InPlace
  <2>7. CASE bio = "s5_reply"
    <3>1. wire = <<>> /\ sent = <<"connect5">>
      BY <1>1, <2>3, <2>7 DEF InPlace, Waiting
    <3> QED
      BY <1>0, <2>1, <2>7, <3>1 DEF InPlace
  <2>8. CASE bio = "http_host"
    <3>1. wire = <<>> /\ sent = <<"CONNECT">> /\ line = "empty"
      BY <1>0, <1>1, <2>8 DEF InPlace, Waiting
    <3>2. wire' = <<>> /\ tunnel' = "wait" /\ sent' = <<>>
      BY <1>0, <2>2, <3>1
    <3> QED
      BY <1>0, <2>8, <3>1, <3>2 DEF InPlace, Waiting
  <2>9. CASE bio = "http_blank"
    <3>1. wire = <<>> /\ sent \in {<<"Host">>, <<"CONNECT", "Host">>} /\ line = "empty"
      BY <1>0, <1>1, <2>9 DEF InPlace, Waiting
    <3>2. Head(sent) \in {"CONNECT", "Host"} /\ sent' \in {<<>>, <<"Host">>}
      BY <1>0, <3>1, TailFacts, Zenon
    <3>3. wire' = <<>> /\ tunnel' = "wait"
      BY <2>2, <3>1, <3>2
    <3> QED
      BY <1>0, <2>9, <3>1, <3>2, <3>3 DEF InPlace, Waiting
  <2>10. CASE bio = "http_status"
    <3>1. /\ wire = <<>> /\ line = "empty"
          /\ sent \in {<<"blank">>, <<"Host", "blank">>, <<"CONNECT", "Host", "blank">>}
      BY <1>0, <1>1, <2>3, <2>10 DEF InPlace, Waiting
    <3>2. CASE sent = <<"blank">>
      BY <1>0, <2>1, <2>10, <3>1, <3>2 DEF InPlace
    <3>3. CASE sent \in {<<"Host", "blank">>, <<"CONNECT", "Host", "blank">>}
      <4>1. Head(sent) \in {"CONNECT", "Host"} /\ sent' \in {<<"blank">>, <<"Host", "blank">>}
        BY <1>0, <3>3, TailFacts, Zenon
      <4>2. wire' = <<>> /\ tunnel' = "wait"
        BY <2>2, <3>1, <4>1
      <4> QED
        BY <1>0, <2>10, <3>1, <4>1, <4>2 DEF InPlace, Waiting
    <3> QED
      BY <3>1, <3>2, <3>3
  <2>11. CASE bio \in {"s5_len", "s5_addr", "s5_ipv4", "http_header"}
    BY <1>1, <2>3, <2>11 DEF InPlace
  <2>12. CASE bio \notin {"idle", "s4_reply", "s5_method", "s5_request", "s5_reply", "s5_len",
                          "s5_addr", "s5_ipv4", "http_host", "http_blank", "http_status",
                          "http_header"}
    BY <1>0, <2>12 DEF InPlace
  <2> QED
    BY <2>4, <2>5, <2>6, <2>7, <2>8, <2>9, <2>10, <2>11, <2>12
<1> QED
  BY <1>3, <1>4, <1>6, <1>7 DEF WireInv

\* Bytes of a server are no bytes of a proxy.
LEMMA ServerBytes ==
    /\ <<"hello", "fin">> \in Seq(Bytes) /\ <<"alert">> \in Seq(Bytes)
    /\ \A i \in 1 .. Len(<<"hello", "fin">>) : <<"hello", "fin">>[i] \notin FromProxy
    /\ \A i \in 1 .. Len(<<"alert">>) : <<"alert">>[i] \notin FromProxy
    /\ \A head \in HttpHeads : /\ head \in Seq(Bytes)
                               /\ \A i \in 1 .. Len(head) : head[i] \notin FromProxy
<1>1. ASSUME NEW head \in HttpHeads
      PROVE  head \in Seq(Bytes) /\ \A i \in 1 .. Len(head) : head[i] \notin FromProxy
  <2>1. head \in Seq(Text)
    BY HelperAssumption
  <2>2. head \in Seq(Bytes)
    BY <2>1, SeqMonotonic, Text \subseteq Bytes DEF Text, Bytes
  <2>3. \A i \in 1 .. Len(head) : head[i] \in Text
    BY <2>1, ElementOfSeq
  <2> QED
    BY <2>2, <2>3 DEF Text, FromProxy
<1>2. <<"hello", "fin">> \in Seq(Bytes) /\ <<"alert">> \in Seq(Bytes)
  BY DEF Bytes
<1>3. /\ \A i \in 1 .. Len(<<"hello", "fin">>) : <<"hello", "fin">>[i] \notin FromProxy
      /\ \A i \in 1 .. Len(<<"alert">>) : <<"alert">>[i] \notin FromProxy
  BY DEF FromProxy
<1> QED
  BY <1>1, <1>2, <1>3

\* The server answers.
LEMMA WireServer ==
    ASSUME WireInv, TypeInv, ServerAnswers
    PROVE  WireInv'
<1>0. /\ link = "open" /\ sent # <<>> /\ sent' = Tail(sent)
      /\ connect = "none" \/ tunnel \in {"granted", "granted6"}
      /\ Head(sent) \in AppData
      /\ UNCHANGED <<connect, bio, line, left, link, tunnel, child, buf>>
  BY DEF ServerAnswers, AppData
<1>1. PICK v \in Seq(Bytes) :
        /\ wire' = wire \o v
        /\ \A i \in 1 .. Len(v) : v[i] \notin FromProxy
        /\ Head(sent) = "ClientHello" => v \in {<<"hello", "fin">>, <<"alert">>}
        /\ Head(sent) = "request" => v \in HttpHeads
  BY ServerBytes DEF ServerAnswers
<1>2. sent \in Seq(Messages \cup AppData) /\ wire \in Seq(Bytes) /\ Len(wire) \in Nat
      /\ Len(sent) \in Nat /\ Len(v) \in Nat
  BY Lengths, LenProperties DEF TypeInv, ProxyTypeOK
<1>3. child \notin Early
  BY <1>0 DEF WireInv, Dawn, Waiting
<1>4. Dawn'
  BY <1>0, <1>3 DEF WireInv, Dawn
<1>5. connect # "none" => bio = "up"
  <2>1. 1 \in 1 .. Len(sent) /\ sent[1] = Head(sent)
    BY <1>0, <1>2, EmptySeq, HeadTailProperties
  <2> QED
    BY <1>0, <2>1 DEF WireInv, Passage
<1>6. /\ Len(wire') = Len(wire) + Len(v)
      /\ \A i \in 1 .. Len(wire) : wire'[i] = wire[i]
      /\ \A i \in 1 .. Len(v) : wire'[Len(wire) + i] = v[i]
  BY <1>1, <1>2, HeadAndRest
<1>7. connect # "none" => InPlace' /\ Passage'
  <2> SUFFICES ASSUME connect # "none"
               PROVE  InPlace' /\ Passage'
    OBVIOUS
  <2>1. Passage /\ bio = "up" /\ bio' = "up"
    BY <1>0, <1>5 DEF WireInv
  <2>2. InPlace'
    BY <2>1 DEF InPlace
  <2>3. CASE tunnel = "granted6"
    <3>1. child # "died" => Len(wire) > 0 /\ wire[1] = "x"
      BY <1>0, <2>1, <2>3 DEF Passage
    <3>2. child # "died" => Len(wire') > 0 /\ wire'[1] = "x"
      <4>1. Len(wire) > 0 => 1 \in 1 .. Len(wire) /\ Len(wire') > 0
        BY <1>2, <1>6
      <4> QED
        BY <1>6, <3>1, <4>1
    <3> QED
      BY <1>0, <2>1, <2>2, <2>3, <3>2 DEF Passage
  <2>4. CASE tunnel = "granted"
    <3>1. \A i \in 1 .. Len(wire) : wire[i] \notin FromProxy
      BY <2>1, <2>4 DEF Passage
    <3>2. \A i \in 1 .. Len(wire') : wire'[i] \notin FromProxy
      <4>1. \A i \in 1 .. Len(wire') : \/ i \in 1 .. Len(wire)
                                       \/ i - Len(wire) \in 1 .. Len(v) /\ i = Len(wire) + (i - Len(wire))
        BY <1>2, <1>6
      <4> QED
        BY <1>1, <1>6, <3>1, <4>1
    <3> QED
      BY <1>0, <2>1, <2>2, <2>4, <3>2 DEF Passage
  <2> QED
    BY <1>0, <2>2, <2>3, <2>4
<1>8. Clear' => InStep'
  <2> SUFFICES ASSUME Clear
               PROVE  InStep'
    BY <1>0 DEF Clear
  <2>1. InStep
    BY DEF WireInv
  <2>2. CASE child \in {"client_hello", "finished", "request", "inspect"}
    BY <1>0, <2>1, <2>2 DEF InStep
  <2>3. CASE child = "server_hello"
    <3>1. sent = <<"ClientHello">> /\ wire = <<>>
      BY <1>0, <2>1, <2>3 DEF InStep
    <3>2. Head(sent) = "ClientHello" /\ sent' = <<>>
      BY <1>0, <3>1
    <3>3. CutOf(wire', link', v, 0) /\ v \in {<<"hello", "fin">>, <<"alert">>}
      BY <1>1, <3>1, <3>2, CutStart
    <3>4. Cut(<<"hello", "fin">>, 0)' \/ Cut(<<"alert">>, 0)'
      BY <3>3 DEF Cut
    <3> QED
      BY <1>0, <2>3, <3>2, <3>4 DEF InStep
  <2>4. CASE child = "date"
    <3>1. sent = <<"request">> /\ wire = <<>> /\ buf = <<>>
      BY <1>0, <2>1, <2>4 DEF InStep
    <3>2. Head(sent) = "request" /\ sent' = <<>>
      BY <1>0, <3>1
    <3>3. CutOf(wire', link', v, 0) /\ v \in HttpHeads
      BY <1>1, <3>1, <3>2, CutStart
    <3>4. ReadingHead(v)'
      BY <1>0, <3>1, <3>3 DEF ReadingHead, Cut
    <3> QED
      BY <1>0, <2>4, <3>2, <3>3, <3>4 DEF InStep
  <2>5. CASE child \notin {"client_hello", "server_hello", "finished", "request", "date", "inspect"}
    BY <1>0, <2>5 DEF InStep
  <2> QED
    BY <2>2, <2>3, <2>4, <2>5
<1> QED
  BY <1>0, <1>4, <1>7, <1>8 DEF WireInv

\* A callback that goes on, but not to its end: the wire is all that matters.
LEMMA WireOn ==
    ASSUME WireInv, connect # "none", bio # "up", child = "client_hello",
           UNCHANGED <<connect, link, tunnel, child, buf>>,
           bio' # "up", bio' # "broken" \/ link = "reset",
           \A i \in 1 .. Len(sent') : sent'[i] \notin AppData,
           InPlace'
    PROVE  WireInv'
<1>1. Dawn'
  BY DEF WireInv, Dawn, Early
<1>2. Passage'
  BY DEF Passage, Early
<1>3. ~Clear'
  BY DEF Clear
<1> QED
  BY <1>1, <1>2, <1>3 DEF WireInv

\* A callback that gives up.
LEMMA WireFail ==
    ASSUME WireInv, connect # "none", bio # "up", child = "client_hello",
           UNCHANGED <<connect, sent, link, tunnel, child, buf>>,
           bio' \in {"failed", "abort"} \/ (bio' = "broken" /\ link = "reset")
    PROVE  WireInv'
<1>1. InPlace'
  BY DEF InPlace
<1>2. \A i \in 1 .. Len(sent') : sent'[i] \notin AppData
  BY DEF WireInv, Passage
<1> QED
  BY <1>1, <1>2, WireOn

\* A callback that returns 1 with the whole answer read.
LEMMA WireUp ==
    ASSUME WireInv, connect # "none", child = "client_hello",
           UNCHANGED <<connect, sent, link, tunnel, child, buf>>,
           bio' = "up", tunnel = "granted", sent = <<>>, wire' = <<>>
    PROVE  WireInv'
<1>1. Dawn'
  BY DEF WireInv, Dawn, Early
<1>2. InPlace'
  BY DEF InPlace
<1>3. Passage'
  BY DEF Passage, Early
<1>4. InStep'
  BY DEF InStep
<1> QED
  BY <1>1, <1>2, <1>3, <1>4 DEF WireInv

\* A write of a callback: it goes through, or the callback gives up.
LEMMA WireWrite ==
    ASSUME WireInv, TypeInv, connect # "none", bio # "up", child = "client_hello",
           UNCHANGED <<child, buf>>,
           NEW u \in Messages, NEW next, NEW err \in {"failed", "broken"},
           Write(u, next, err)
    PROVE  \/ WireInv'
           \/ /\ bio' = next /\ sent' = Append(sent, u)
              /\ UNCHANGED <<connect, line, left, wire, arrived, link, tunnel>>
              /\ \A i \in 1 .. Len(sent') : sent'[i] \notin AppData
<1>0. UNCHANGED <<connect, line, left, wire, arrived, link, tunnel>>
  BY DEF Write
<1>1. CASE sent' = sent
  BY <1>0, <1>1, WireFail DEF Write
<1>2. CASE bio' = next /\ sent' = Append(sent, u)
  <2>1. sent \in Seq(Messages \cup AppData) /\ u \in Messages \cup AppData /\ Len(sent) \in Nat
    BY Lengths DEF TypeInv, ProxyTypeOK
  <2>2. /\ Len(sent') = Len(sent) + 1 /\ sent'[Len(sent) + 1] = u
        /\ \A i \in 1 .. Len(sent) : sent'[i] = sent[i]
    BY <1>2, <2>1, AppendProperties
  <2>3. \A i \in 1 .. Len(sent) : sent[i] \notin AppData
    BY DEF WireInv, Passage
  <2>4. u \notin AppData
    BY DEF Messages, AppData
  <2>5. \A i \in 1 .. Len(sent') : i \in 1 .. Len(sent) \/ i = Len(sent) + 1
    BY <2>1, <2>2
  <2>6. \A i \in 1 .. Len(sent') : sent'[i] \notin AppData
    BY <2>2, <2>3, <2>4, <2>5
  <2> QED
    BY <1>0, <1>2, <2>6
<1> QED
  BY <1>1, <1>2 DEF Write

\* A read of a callback: all n bytes, or the callback gives up.
LEMMA WireRead ==
    ASSUME WireInv, TypeInv, connect # "none", bio # "up", child = "client_hello",
           UNCHANGED <<child, buf>>,
           NEW n \in Nat \ {0}, NEW next, NEW err \in {"failed", "broken"},
           Read(n, err, next)
    PROVE  \/ WireInv'
           \/ /\ bio' = next /\ n = Got(n) /\ Consume(n) /\ wire # <<>>
              /\ UNCHANGED <<connect, sent, link, tunnel, line>>
<1>0. UNCHANGED <<connect, sent, link, tunnel, line>>
  BY DEF Read, linkVars
<1>1. CASE Got(n) # n
  <2>1. bio' = "failed" \/ (bio' = err /\ link = "reset")
    BY <1>1 DEF Read
  <2> QED
    BY <1>0, <2>1, WireFail
<1>2. CASE Got(n) = n
  <2>1. wire # <<>>
    BY <1>2, NothingToRead DEF TypeInv
  <2> QED
    BY <1>0, <1>2, <2>1 DEF Read
<1> QED
  BY <1>1, <1>2

\* The callback of a SOCKS4a proxy.
LEMMA WireSocks4a ==
    ASSUME WireInv, TypeInv, socks4a_connect, child = "client_hello", UNCHANGED <<child, buf>>
    PROVE  WireInv'
<1>0. connect = "socks4a" /\ connect # "none" /\ InPlace /\ ProxyTypeOK
  BY DEF socks4a_connect, WireInv, TypeInv
<1>1. CASE bio = "idle"
  <2>1. Write("connect4", "s4_reply", "broken")
    BY <1>1 DEF socks4a_connect
  <2>2. \/ WireInv'
        \/ /\ bio' = "s4_reply" /\ sent' = Append(sent, "connect4")
           /\ UNCHANGED <<connect, line, left, wire, arrived, link, tunnel>>
           /\ \A i \in 1 .. Len(sent') : sent'[i] \notin AppData
    BY <1>0, <1>1, <2>1, WireWrite DEF Messages
  <2>3. CASE bio' = "s4_reply" /\ ~WireInv'
    <3>1. sent = <<>> /\ wire = <<>> /\ tunnel = "wait"
      BY <1>0, <1>1 DEF InPlace, Waiting
    <3>2. sent' = <<"connect4">>
      BY <2>2, <2>3, <3>1
    <3>3. InPlace'
      BY <2>2, <2>3, <3>1, <3>2 DEF InPlace, Waiting
    <3> QED
      BY <1>0, <1>1, <2>2, <2>3, <3>3, WireOn
  <2> QED
    BY <2>2, <2>3
<1>2. CASE bio = "s4_reply"
  <2> DEFINE next == IF wire[2] = "granted" THEN "up" ELSE "failed"
  <2>1. Read(8, "broken", next)
    BY <1>2 DEF socks4a_connect
  <2> HIDE DEF next
  <2>2. \/ WireInv'
        \/ /\ bio' = next /\ 8 = Got(8) /\ Consume(8) /\ wire # <<>>
           /\ UNCHANGED <<connect, sent, link, tunnel, line>>
    BY <1>0, <1>2, <2>1, WireRead
  <2>3. CASE bio' = next /\ 8 = Got(8) /\ Consume(8) /\ wire # <<>>
             /\ UNCHANGED <<connect, sent, link, tunnel, line>>
    <3>1. PICK a \in Answers("connect4") : Answered(a, 0)
      BY <1>0, <1>2, <2>3 DEF InPlace, Waiting
    <3>2. /\ tunnel = a[1] /\ sent = <<>> /\ CutOf(wire, link, a[2], 0)
          /\ a[2] \in Seq(Bytes) /\ Len(a[2]) = 8
          /\ a[2][2] = "granted" => a[1] = "granted"
      BY <3>1, Answers4 DEF Answered, Cut
    <3>3. CutOf(wire', link, a[2], 0 + 8) /\ \A i \in 1 .. 8 : wire[i] = a[2][0 + i]
      BY <1>0, <2>3, <3>2, ReadAll
    <3>4. CASE next = "failed"
      BY <1>0, <1>2, <2>3, <3>4, WireFail
    <3>5. CASE next = "up"
      <4>1. wire[2] = a[2][2] /\ wire[2] = "granted"
        BY <3>3, <3>5 DEF next
      <4>2. wire' \in Seq(Bytes)
        BY <1>0, <2>3, ConnectTypes DEF ConnectStep, ProxyTypeOK
      <4>3. wire' = <<>>
        <5>1. 0 + 8 = Len(a[2])
          BY <3>2
        <5>2. CutOf(wire', link, a[2], Len(a[2]))
          BY <3>3, <5>1
        <5> QED
          BY <3>2, <4>2, <5>2, CutEnd
      <4> QED
        BY <1>0, <2>3, <3>2, <3>5, <4>1, <4>3, WireUp
    <3> QED
      BY <3>4, <3>5 DEF next
  <2> QED
    BY <2>2, <2>3
<1> QED
  BY <1>1, <1>2 DEF socks4a_connect

\* A read of the last n bytes of an answer leaves nothing.
LEMMA ReadLast ==
    ASSUME ProxyTypeOK, NEW X \in Seq(Bytes), NEW k \in Nat, CutOf(wire, link, X, k),
           NEW n \in Nat, n = Got(n), Consume(n), k + n = Len(X)
    PROVE  wire' = <<>>
<1>1. CutOf(wire', link, X, k + n)
  BY ReadAll
<1>2. CutOf(wire', link, X, Len(X))
  BY <1>1
<1>3. n \in 0 .. arrived
  BY Lengths, GotFacts
<1>4. wire' \in Seq(Bytes)
  BY <1>3, ConsumeFacts DEF ProxyTypeOK
<1> QED
  BY <1>2, <1>4, CutEnd

\* The callback of a SOCKS5 proxy up to its reply.
LEMMA WireSocks5Method ==
    ASSUME WireInv, TypeInv, socks5_connect, child = "client_hello", UNCHANGED <<child, buf>>,
           bio \in {"idle", "s5_method", "s5_request"}
    PROVE  WireInv'
<1>0. connect = "socks5" /\ connect # "none" /\ InPlace /\ ProxyTypeOK
  BY DEF socks5_connect, WireInv, TypeInv
<1>1. CASE bio = "idle" /\ bio' = "failed" /\ UNCHANGED <<linkVars, line, left, wire, arrived>>
  BY <1>0, <1>1, WireFail DEF linkVars
<1>2. CASE bio = "idle" /\ Write("hello", "s5_method", "failed")
  <2>1. \/ WireInv'
        \/ /\ bio' = "s5_method" /\ sent' = Append(sent, "hello")
           /\ UNCHANGED <<connect, line, left, wire, arrived, link, tunnel>>
           /\ \A i \in 1 .. Len(sent') : sent'[i] \notin AppData
    BY <1>0, <1>2, WireWrite DEF Messages
  <2>2. CASE ~WireInv'
    <3>1. sent = <<>> /\ wire = <<>> /\ tunnel = "wait"
      BY <1>0, <1>2 DEF InPlace, Waiting
    <3>2. sent' = <<"hello">>
      BY <2>1, <2>2, <3>1
    <3>3. InPlace'
      BY <2>1, <2>2, <3>1, <3>2 DEF InPlace, Waiting
    <3> QED
      BY <1>0, <1>2, <2>1, <2>2, <3>3, WireOn
  <2> QED
    BY <2>2
<1>3. CASE bio = "s5_method"
  <2> DEFINE next == IF wire[1] = "5" /\ wire[2] = "noauth" THEN "s5_request" ELSE "failed"
  <2>1. Read(2, "failed", next)
    BY <1>3 DEF socks5_connect
  <2> HIDE DEF next
  <2>2. \/ WireInv'
        \/ /\ bio' = next /\ 2 = Got(2) /\ Consume(2) /\ wire # <<>>
           /\ UNCHANGED <<connect, sent, link, tunnel, line>>
    BY <1>0, <1>3, <2>1, WireRead
  <2>3. CASE bio' = next /\ 2 = Got(2) /\ Consume(2) /\ wire # <<>>
             /\ UNCHANGED <<connect, sent, link, tunnel, line>>
    <3>1. PICK a \in Answers("hello") : Answered(a, 0)
      BY <1>0, <1>3, <2>3 DEF InPlace, Waiting
    <3>2. /\ tunnel = a[1] /\ sent = <<>> /\ CutOf(wire, link, a[2], 0)
          /\ a[2] \in Seq(Bytes) /\ Len(a[2]) = 2
          /\ a[2][2] = "noauth" => a[1] = "wait"
      BY <3>1, AnswersHello DEF Answered, Cut
    <3>3. CASE next = "failed"
      BY <1>0, <1>3, <2>3, <3>3, WireFail
    <3>4. CASE next = "s5_request"
      <4>1. \A i \in 1 .. 2 : wire[i] = a[2][0 + i]
        BY <1>0, <2>3, <3>2, ReadAll
      <4>2. wire[2] = a[2][2] /\ wire[2] = "noauth"
        BY <3>4, <4>1 DEF next
      <4>3. wire' = <<>>
        <5>1. 0 + 2 = Len(a[2])
          BY <3>2
        <5> QED
          BY <1>0, <2>3, <3>2, <5>1, ReadLast
      <4>4. InPlace'
        BY <2>3, <3>2, <3>4, <4>2, <4>3 DEF InPlace, Waiting
      <4>5. \A i \in 1 .. Len(sent') : sent'[i] \notin AppData
        BY <2>3, <3>2
      <4> QED
        BY <1>0, <1>3, <2>3, <3>4, <4>4, <4>5, WireOn
    <3> QED
      BY <3>3, <3>4 DEF next
  <2> QED
    BY <2>2, <2>3
<1>4. CASE bio = "s5_request"
  <2>1. Write("connect5", "s5_reply", "broken")
    BY <1>4 DEF socks5_connect
  <2>2. \/ WireInv'
        \/ /\ bio' = "s5_reply" /\ sent' = Append(sent, "connect5")
           /\ UNCHANGED <<connect, line, left, wire, arrived, link, tunnel>>
           /\ \A i \in 1 .. Len(sent') : sent'[i] \notin AppData
    BY <1>0, <1>4, <2>1, WireWrite DEF Messages
  <2>3. CASE ~WireInv'
    <3>1. sent = <<>> /\ wire = <<>> /\ tunnel = "wait"
      BY <1>0, <1>4 DEF InPlace, Waiting
    <3>2. sent' = <<"connect5">>
      BY <2>2, <2>3, <3>1
    <3>3. InPlace'
      BY <2>2, <2>3, <3>1, <3>2 DEF InPlace, Waiting
    <3> QED
      BY <1>0, <1>4, <2>2, <2>3, <3>3, WireOn
  <2> QED
    BY <2>3
<1> QED
  BY <1>1, <1>2, <1>3, <1>4 DEF socks5_connect

\* The fixed part of its reply.
LEMMA WireSocks5Reply ==
    ASSUME WireInv, TypeInv, socks5_connect, child = "client_hello", UNCHANGED <<child, buf>>,
           bio = "s5_reply"
    PROVE  WireInv'
<1>0. connect = "socks5" /\ connect # "none" /\ InPlace /\ ProxyTypeOK
  BY DEF socks5_connect, WireInv, TypeInv
<1>1. Read(4, "broken", AfterReply)
  BY DEF socks5_connect
<1> DEFINE next == AfterReply
<1>2. \/ WireInv'
      \/ /\ bio' = next /\ 4 = Got(4) /\ Consume(4) /\ wire # <<>>
         /\ UNCHANGED <<connect, sent, link, tunnel, line>>
  BY <1>0, <1>1, WireRead
<1>3. CASE bio' = next /\ 4 = Got(4) /\ Consume(4) /\ wire # <<>>
           /\ UNCHANGED <<connect, sent, link, tunnel, line>>
  <2>1. PICK a \in Answers("connect5") : Answered(a, 0)
    BY <1>0, <1>3 DEF InPlace, Waiting
  <2>2. /\ tunnel = a[1] /\ sent = <<>> /\ CutOf(wire, link, a[2], 0) /\ a[2] \in Seq(Bytes)
    BY <2>1, Answers5 DEF Answered, Cut
  <2>3. CASE next = "failed"
    BY <1>0, <1>3, <2>3, WireFail
  <2>4. CASE next # "failed"
    <3>1. CutOf(wire', link, a[2], 0 + 4) /\ \A i \in 1 .. 4 : wire[i] = a[2][0 + i]
      BY <1>0, <1>3, <2>2, ReadAll
    <3>2. wire[2] = "ok" /\ wire[2] = a[2][2] /\ wire[4] = a[2][4]
      BY <2>4, <3>1 DEF AfterReply
    <3>3. PICK t \in {"domain", "ipv4", "ipv6"} : a = Reply5(t)
      BY <3>2, Answers5
    <3>4. /\ tunnel = IF t = "ipv6" THEN "granted6" ELSE "granted"
          /\ Len(a[2]) = IF t = "domain" THEN 8 ELSE IF t = "ipv4" THEN 10 ELSE 22
          /\ wire[4] = t
          /\ \A i \in 5 .. Len(a[2]) : a[2][i] = "x"
      BY <2>2, <3>2, <3>3, ReplyFacts
    <3>5. CutOf(wire', link', a[2], 4)
      BY <1>3, <3>1
    <3>6. \A i \in 1 .. Len(sent') : sent'[i] \notin AppData
      BY <1>3, <2>2
    <3>7. CASE t \in {"domain", "ipv4"}
      <4>1. next = IF t = "domain" THEN "s5_len" ELSE "s5_ipv4"
        BY <2>4, <3>4, <3>7 DEF AfterReply
      <4>2. Answered(Reply5(t), 4)'
        BY <1>3, <2>2, <3>3, <3>4, <3>5, <3>7 DEF Answered, Cut
      <4>3. InPlace'
        BY <1>3, <3>7, <4>1, <4>2 DEF InPlace
      <4> QED
        BY <1>0, <1>3, <3>6, <3>7, <4>1, <4>3, WireOn
    <3>8. CASE t = "ipv6"
      <4>1. next = "up" /\ tunnel = "granted6" /\ Len(a[2]) = 22
        BY <2>4, <3>4, <3>8 DEF AfterReply
      <4>2. Len(wire') \in Nat
        <5>1. 4 \in 0 .. arrived
          BY <1>0, <1>3, Lengths, GotFacts
        <5> QED
          BY <1>0, <1>3, <5>1, ConsumeFacts, LenProperties DEF ProxyTypeOK
      <4>3. Len(wire') > 0 => wire'[1] = "x"
        <5>1. Len(wire') > 0 => 1 \in 1 .. Len(wire')
          BY <4>2
        <5>2. Len(wire') > 0 => wire'[1] = a[2][4 + 1]
          BY <3>5, <5>1 DEF CutOf
        <5>3. 4 + 1 \in 5 .. Len(a[2])
          BY <4>1
        <5> QED
          BY <3>4, <5>2, <5>3
      <4>4. link' # "reset" => Len(wire') > 0
        <5> SUFFICES ASSUME link' # "reset"
                     PROVE  Len(wire') > 0
          OBVIOUS
        <5>1. Len(wire') = Len(a[2]) - 4
          BY <3>5 DEF CutOf
        <5>2. Len(wire') = 18
          BY <4>1, <5>1
        <5> QED
          BY <5>2
      <4>5. Dawn' /\ InPlace'
        BY <1>0, <1>3, <4>1 DEF WireInv, Dawn, Early, InPlace
      <4>6. Passage'
        BY <1>3, <4>1, <4>3, <4>4 DEF Passage, Early
      <4>7. ~Clear'
        BY <1>0, <1>3, <4>1 DEF Clear
      <4> QED
        BY <4>5, <4>6, <4>7 DEF WireInv
    <3> QED
      BY <3>7, <3>8
  <2> QED
    BY <2>3, <2>4
<1> QED
  BY <1>2, <1>3

\* The address in its reply.
LEMMA WireSocks5Address ==
    ASSUME WireInv, TypeInv, socks5_connect, child = "client_hello", UNCHANGED <<child, buf>>,
           bio \in {"s5_len", "s5_addr", "s5_ipv4"}
    PROVE  WireInv'
<1>0. connect = "socks5" /\ connect # "none" /\ InPlace /\ ProxyTypeOK
  BY DEF socks5_connect, WireInv, TypeInv
<1> DEFINE D == Reply5("domain")[2]
           F == Reply5("ipv4")[2]
<1>d. /\ D \in Seq(Bytes) /\ Len(D) = 8 /\ F \in Seq(Bytes) /\ Len(F) = 10
      /\ Reply5("domain")[1] = "granted" /\ Reply5("ipv4")[1] = "granted"
  BY ReplyFacts
<1>a. ASSUME NEW k, Answered(Reply5("domain"), k)
      PROVE  tunnel = "granted" /\ sent = <<>> /\ CutOf(wire, link, D, k)
  BY <1>a, <1>d DEF Answered, Cut
<1>1. CASE bio = "s5_len"
  <2>1. Read(1, "failed", "s5_addr") /\ left' = 3
    BY <1>1 DEF socks5_connect
  <2>2. \/ WireInv'
        \/ /\ bio' = "s5_addr" /\ 1 = Got(1) /\ Consume(1) /\ wire # <<>>
           /\ UNCHANGED <<connect, sent, link, tunnel, line>>
    BY <1>0, <1>1, <2>1, WireRead
  <2>3. CASE bio' = "s5_addr" /\ 1 = Got(1) /\ Consume(1) /\ wire # <<>>
             /\ UNCHANGED <<connect, sent, link, tunnel, line>>
    <3>1. tunnel = "granted" /\ sent = <<>> /\ CutOf(wire, link, D, 4)
      BY <1>0, <1>1, <1>a DEF InPlace
    <3> HIDE DEF D
    <3>2. CutOf(wire', link, D, 4 + 1)
      BY <1>0, <1>d, <2>3, <3>1, ReadAll
    <3>3. 4 + 1 = 8 - left'
      BY <2>1
    <3>4. CutOf(wire', link', D, 8 - left')
      BY <2>3, <3>2, <3>3
    <3>5. Answered(Reply5("domain"), 8 - left)'
      BY <1>d, <2>3, <3>1, <3>4 DEF Answered, Cut, D
    <3>6. InPlace'
      BY <2>1, <2>3, <3>5 DEF InPlace
    <3>7. \A i \in 1 .. Len(sent') : sent'[i] \notin AppData
      BY <2>3, <3>1
    <3> QED
      BY <1>0, <1>1, <2>3, <3>6, <3>7, WireOn
  <2> QED
    BY <2>2, <2>3
<1>2. CASE bio = "s5_addr"
  <2> DEFINE g == Got(left)
             k == 8 - left
  <2>1. /\ left \in 1 .. 3 /\ tunnel = "granted" /\ sent = <<>> /\ CutOf(wire, link, D, k)
    BY <1>0, <1>2, <1>a DEF InPlace
  <2>2. /\ Consume(g) /\ left' = left - g
        /\ bio' = IF g = 0 THEN "failed" ELSE IF left' = 0 THEN "up" ELSE bio
        /\ UNCHANGED <<connect, sent, link, tunnel, line>>
    BY <1>2 DEF socks5_connect, AddressLoop, linkVars
  <2>3. g \in 0 .. arrived /\ g <= left /\ g \in Nat
    <3>1. left \in Nat /\ arrived \in Nat
      BY <1>0, <2>1, Lengths
    <3>2. g \in 0 .. arrived /\ g <= left
      BY <3>1, GotFacts
    <3> QED
      BY <3>1, <3>2
  <2>4. g = Got(g)
    BY <1>0, <2>1, <2>3, Lengths DEF Got
  <2>5. k \in Nat
    BY <2>1
  <2> HIDE DEF g, k, D
  <2>6. CASE g = 0
    BY <1>0, <1>2, <2>2, <2>6, WireFail
  <2>7. CASE g # 0 /\ left' = 0
    <3>1. k + g = Len(D)
      BY <1>d, <2>1, <2>2, <2>3, <2>7 DEF k
    <3>2. wire' = <<>>
      BY <1>0, <1>d, <2>1, <2>2, <2>3, <2>4, <2>5, <3>1, ReadLast
    <3>3. bio' = "up"
      BY <2>2, <2>7
    <3> QED
      BY <1>0, <2>1, <2>2, <3>2, <3>3, WireUp
  <2>8. CASE g # 0 /\ left' # 0
    <3>1. CutOf(wire', link, D, k + g)
      BY <1>0, <1>d, <2>1, <2>2, <2>3, <2>4, <2>5, ReadAll
    <3>2. k + g = 8 - left' /\ left' \in 1 .. 3
      BY <2>1, <2>2, <2>3, <2>8 DEF k
    <3>3. CutOf(wire', link', D, 8 - left')
      BY <2>2, <3>1, <3>2
    <3>4. Answered(Reply5("domain"), 8 - left)'
      BY <1>d, <2>1, <2>2, <3>3 DEF Answered, Cut, D
    <3>5. bio' = "s5_addr"
      BY <1>2, <2>2, <2>8
    <3>6. InPlace'
      BY <3>2, <3>4, <3>5 DEF InPlace
    <3>7. \A i \in 1 .. Len(sent') : sent'[i] \notin AppData
      BY <2>1, <2>2
    <3> QED
      BY <1>0, <1>2, <2>2, <3>5, <3>6, <3>7, WireOn
  <2> QED
    BY <2>6, <2>7, <2>8
<1>3. CASE bio = "s5_ipv4"
  <2>1. Read(6, "failed", "up")
    BY <1>3 DEF socks5_connect, Ipv4Tail
  <2>2. \/ WireInv'
        \/ /\ bio' = "up" /\ 6 = Got(6) /\ Consume(6) /\ wire # <<>>
           /\ UNCHANGED <<connect, sent, link, tunnel, line>>
    BY <1>0, <1>3, <2>1, WireRead
  <2>3. CASE bio' = "up" /\ 6 = Got(6) /\ Consume(6) /\ wire # <<>>
             /\ UNCHANGED <<connect, sent, link, tunnel, line>>
    <3>1. tunnel = "granted" /\ sent = <<>> /\ CutOf(wire, link, F, 4)
      BY <1>0, <1>3, <1>d DEF InPlace, Answered, Cut
    <3> HIDE DEF F
    <3>2. 4 + 6 = Len(F)
      BY <1>d
    <3>3. wire' = <<>>
      BY <1>0, <1>d, <2>3, <3>1, <3>2, ReadLast
    <3> QED
      BY <1>0, <2>3, <3>1, <3>3, WireUp
  <2> QED
    BY <2>2, <2>3
<1> QED
  BY <1>1, <1>2, <1>3

\* The second element of a sequence.
LEMMA AppendSecond ==
    ASSUME NEW S, NEW a \in S, NEW b \in S
    PROVE  Append(<<a>>, b) = <<a, b>>
<1>1. <<a>> \in Seq(S) /\ Len(<<a>>) = 1 /\ <<a, b>> \in Seq(S) /\ Len(<<a, b>>) = 2
  OBVIOUS
<1>2. /\ Append(<<a>>, b) \in Seq(S) /\ Len(Append(<<a>>, b)) = 2
      /\ Append(<<a>>, b)[1] = a /\ Append(<<a>>, b)[2] = b
  BY <1>1, AppendProperties
<1>3. \A i \in 1 .. 2 : Append(<<a>>, b)[i] = <<a, b>>[i]
  BY <1>2
<1> QED
  BY <1>1, <1>2, <1>3, SeqEqual

\* The third element of a sequence.
LEMMA AppendThird ==
    ASSUME NEW S, NEW a \in S, NEW b \in S, NEW c \in S
    PROVE  Append(<<a, b>>, c) = <<a, b, c>>
<1>1. <<a, b>> \in Seq(S) /\ Len(<<a, b>>) = 2 /\ <<a, b, c>> \in Seq(S) /\ Len(<<a, b, c>>) = 3
  OBVIOUS
<1>2. /\ Append(<<a, b>>, c) \in Seq(S) /\ Len(Append(<<a, b>>, c)) = 3
      /\ Append(<<a, b>>, c)[1] = a /\ Append(<<a, b>>, c)[2] = b /\ Append(<<a, b>>, c)[3] = c
  BY <1>1, AppendProperties
<1>3. \A i \in 1 .. 3 : Append(<<a, b>>, c)[i] = <<a, b, c>>[i]
  BY <1>2
<1> QED
  BY <1>1, <1>2, <1>3, SeqEqual

\* A message of an HTTP proxy's callback after those that are on their way.
LEMMA AppendFacts ==
    /\ Append(<<>>, "CONNECT") = <<"CONNECT">>
    /\ Append(<<>>, "Host") = <<"Host">>
    /\ Append(<<"CONNECT">>, "Host") = <<"CONNECT", "Host">>
    /\ Append(<<>>, "blank") = <<"blank">>
    /\ Append(<<"Host">>, "blank") = <<"Host", "blank">>
    /\ Append(<<"CONNECT", "Host">>, "blank") = <<"CONNECT", "Host", "blank">>
<1>1. Append(<<>>, "CONNECT") = <<"CONNECT">>
  OBVIOUS
<1>2. Append(<<>>, "Host") = <<"Host">>
  OBVIOUS
<1>3. Append(<<"CONNECT">>, "Host") = <<"CONNECT", "Host">>
  BY AppendSecond, "CONNECT" \in Messages, "Host" \in Messages DEF Messages
<1>4. Append(<<>>, "blank") = <<"blank">>
  OBVIOUS
<1>5. Append(<<"Host">>, "blank") = <<"Host", "blank">>
  BY AppendSecond, "Host" \in Messages, "blank" \in Messages DEF Messages
<1>6. Append(<<"CONNECT", "Host">>, "blank") = <<"CONNECT", "Host", "blank">>
  BY AppendThird, "CONNECT" \in Messages, "Host" \in Messages, "blank" \in Messages DEF Messages
<1> QED
  BY <1>1, <1>2, <1>3, <1>4, <1>5, <1>6

\* The callback of an HTTP proxy while it writes.
LEMMA WireHttpWrite ==
    ASSUME WireInv, TypeInv, http_connect, child = "client_hello", UNCHANGED <<child, buf>>,
           bio \in {"idle", "http_host", "http_blank"}
    PROVE  WireInv'
<1>0. connect = "http" /\ connect # "none" /\ InPlace
  BY DEF http_connect, WireInv
<1> DEFINE u == IF bio = "idle" THEN "CONNECT" ELSE IF bio = "http_host" THEN "Host" ELSE "blank"
           next == IF bio = "idle" THEN "http_host"
                   ELSE IF bio = "http_host" THEN "http_blank" ELSE "http_status"
<1>1. Write(u, next, "broken")
  BY DEF http_connect
<1>2. u \in Messages
  BY DEF Messages
<1>3. \/ WireInv'
      \/ /\ bio' = next /\ sent' = Append(sent, u)
         /\ UNCHANGED <<connect, line, left, wire, arrived, link, tunnel>>
         /\ \A i \in 1 .. Len(sent') : sent'[i] \notin AppData
  <2> HIDE DEF u, next
  <2> QED
    BY <1>0, <1>1, <1>2, WireWrite
<1>4. CASE ~WireInv'
  <2>1. /\ wire = <<>> /\ tunnel = "wait" /\ line = "empty"
        /\ bio = "idle" => sent = <<>>
        /\ bio = "http_host" => sent \in {<<>>, <<"CONNECT">>}
        /\ bio = "http_blank" => sent \in {<<>>, <<"Host">>, <<"CONNECT", "Host">>}
    BY <1>0 DEF InPlace, Waiting
  <2>2. InPlace'
    <3>1. CASE bio = "idle"
      <4>1. sent' = <<"CONNECT">> /\ bio' = "http_host"
        BY <1>3, <1>4, <2>1, <3>1, AppendFacts
      <4> QED
        BY <1>3, <1>4, <2>1, <4>1 DEF InPlace, Waiting
    <3>2. CASE bio = "http_host"
      <4>1. sent' \in {<<"Host">>, <<"CONNECT", "Host">>} /\ bio' = "http_blank"
        BY <1>3, <1>4, <2>1, <3>2, AppendFacts
      <4> QED
        BY <1>3, <1>4, <2>1, <4>1 DEF InPlace, Waiting
    <3>3. CASE bio = "http_blank"
      <4>1. /\ sent' \in {<<"blank">>, <<"Host", "blank">>, <<"CONNECT", "Host", "blank">>}
            /\ bio' = "http_status"
        BY <1>3, <1>4, <2>1, <3>3, AppendFacts
      <4> QED
        BY <1>3, <1>4, <2>1, <4>1 DEF InPlace, Waiting
    <3> QED
      BY <3>1, <3>2, <3>3
  <2>3. bio' # "up" /\ bio' # "broken"
    BY <1>3, <1>4
  <2> QED
    BY <1>0, <1>3, <1>4, <2>2, <2>3, WireOn
<1> QED
  BY <1>4

\* A byte of a line: the callback gives up, or the byte is the next of the
\* answer.
LEMMA WireGets ==
    ASSUME WireInv, TypeInv, connect # "none", bio # "up", child = "client_hello",
           UNCHANGED <<child, buf>>,
           NEW wanted, NEW yes, NEW no, sock_gets(wanted, yes, no)
    PROVE  \/ WireInv'
           \/ /\ 1 = Got(1) /\ Consume(1) /\ wire # <<>> /\ wire[1] # "long"
              /\ UNCHANGED <<connect, sent, link, tunnel, left>>
              /\ IF wire[1] = "\n"
                 THEN bio' = (IF line = wanted THEN yes ELSE no) /\ line' = "empty"
                 ELSE line' = (IF line = "empty" THEN wire[1] ELSE line) /\ bio' = bio
<1>0. UNCHANGED <<connect, sent, link, tunnel, left>> /\ Consume(Got(1))
  BY DEF sock_gets, linkVars
<1>1. CASE Got(1) = 0 \/ wire[1] = "long"
  <2>1. bio' = "failed"
    BY <1>1 DEF sock_gets
  <2> QED
    BY <1>0, <2>1, WireFail
<1>2. CASE Got(1) # 0 /\ wire[1] # "long"
  <2>1. Got(1) = 1
    BY <1>2, Lengths DEF Got, TypeInv
  <2>2. wire # <<>>
    BY <2>1, NothingToRead DEF TypeInv
  <2> QED
    BY <1>0, <1>2, <2>1, <2>2 DEF sock_gets
<1> QED
  BY <1>1, <1>2

\* The next byte of an answer.
LEMMA NextByte ==
    ASSUME ProxyTypeOK, NEW a, a[2] \in Seq(Bytes), NEW k \in Nat, Answered(a, k),
           1 = Got(1), Consume(1), UNCHANGED <<sent, link, tunnel>>
    PROVE  wire[1] = a[2][k + 1] /\ Answered(a, k + 1)' /\ k + 1 <= Len(a[2])
<1> DEFINE X == a[2]
<1>1. CutOf(wire, link, X, k) /\ X \in Seq(Bytes)
  BY DEF Answered, Cut
<1> HIDE DEF X
<1>2. CutOf(wire', link, X, k + 1) /\ (\A i \in 1 .. 1 : wire[i] = X[k + i]) /\ k + 1 <= Len(X)
  BY <1>1, ReadAll
<1>3. wire[1] = X[k + 1]
  BY <1>2
<1> QED
  BY <1>2, <1>3 DEF X, Answered, Cut

\* The callback of an HTTP proxy in the status line.
LEMMA WireHttpStatus ==
    ASSUME WireInv, TypeInv, http_connect, child = "client_hello", UNCHANGED <<child, buf>>,
           bio = "http_status"
    PROVE  WireInv'
<1>0. connect = "http" /\ connect # "none" /\ InPlace /\ ProxyTypeOK
  BY DEF http_connect, WireInv, TypeInv
<1>1. sock_gets("2xx", "http_header", "failed")
  BY DEF http_connect
<1> DEFINE Step == /\ 1 = Got(1) /\ Consume(1) /\ wire # <<>> /\ wire[1] # "long"
                   /\ UNCHANGED <<connect, sent, link, tunnel, left>>
                   /\ IF wire[1] = "\n"
                      THEN bio' = (IF line = "2xx" THEN "http_header" ELSE "failed") /\ line' = "empty"
                      ELSE line' = (IF line = "empty" THEN wire[1] ELSE line) /\ bio' = bio
<1>2. WireInv' \/ Step
  BY <1>0, <1>1, WireGets
<1>3. CASE Step
  <2>1. PICK a \in Answers("blank") : \/ Answered(a, 0) /\ line = "empty"
                                      \/ Answered(a, 1) /\ line = a[2][1]
    BY <1>0, <1>3 DEF InPlace, Waiting
  <2>2. /\ a[2] \in Seq(Bytes) /\ sent = <<>>
        /\ a[2][1] \in {"2xx", "4xx"} /\ a[2][2] = "\n"
        /\ a[2][1] = "2xx" => a = Http200 \/ a = HttpLong
    <3>1. a = Http200 \/ a = HttpLong \/ a = <<"refused", <<"4xx", "\n", "\r", "\n">>>>
      BY AnswersBlank
    <3>2. CASE a = Http200 \/ a = HttpLong
      BY <2>1, <3>2, BlankFacts DEF Answered
    <3>3. CASE a = <<"refused", <<"4xx", "\n", "\r", "\n">>>>
      <4>1. a[2] = <<"4xx", "\n", "\r", "\n">>
        BY <3>3
      <4>2. a[2][1] = "4xx" /\ a[2][2] = "\n" /\ a[2] \in Seq(Bytes)
        BY <4>1, BlankFacts
      <4> QED
        BY <2>1, <4>2 DEF Answered
    <3> QED
      BY <3>1, <3>2, <3>3
  <2>3. \A i \in 1 .. Len(sent') : sent'[i] \notin AppData
    BY <1>3, <2>2
  <2>4. CASE Answered(a, 0) /\ line = "empty"
    <3>1. wire[1] = a[2][0 + 1] /\ Answered(a, 0 + 1)'
      BY <1>0, <1>3, <2>2, <2>4, NextByte
    <3>2. wire[1] = a[2][1] /\ Answered(a, 1)'
      BY <3>1
    <3>3. line' = a[2][1] /\ bio' = "http_status"
      BY <1>3, <2>2, <2>4, <3>2
    <3>4. InPlace'
      BY <3>2, <3>3 DEF InPlace
    <3> QED
      BY <1>0, <1>3, <2>3, <3>3, <3>4, WireOn
  <2>5. CASE Answered(a, 1) /\ line = a[2][1]
    <3>1. wire[1] = a[2][1 + 1] /\ Answered(a, 1 + 1)'
      BY <1>0, <1>3, <2>2, <2>5, NextByte
    <3>2. wire[1] = "\n" /\ Answered(a, 2)'
      BY <2>2, <3>1
    <3>3. CASE line # "2xx"
      <4>1. bio' = "failed"
        BY <1>3, <3>2, <3>3
      <4> QED
        BY <1>0, <1>3, <4>1, WireFail
    <3>4. CASE line = "2xx"
      <4>1. bio' = "http_header" /\ line' = "empty"
        BY <1>3, <3>2, <3>4
      <4>2. Answered(Http200, 2)' \/ Answered(HttpLong, 2)'
        BY <2>2, <2>5, <3>2, <3>4
      <4>3. 2 \in 2 .. 5 /\ LineAt(2) = "empty"
        BY DEF LineAt
      <4>4. InPlace'
        BY <4>1, <4>2, <4>3 DEF InPlace
      <4> QED
        BY <1>0, <1>3, <2>3, <4>1, <4>4, WireOn
    <3> QED
      BY <3>3, <3>4
  <2> QED
    BY <2>1, <2>4, <2>5
<1> QED
  BY <1>2, <1>3

\* The callback of an HTTP proxy in the header.
LEMMA WireHttpHeader ==
    ASSUME WireInv, TypeInv, http_connect, child = "client_hello", UNCHANGED <<child, buf>>,
           bio = "http_header"
    PROVE  WireInv'
<1>0. connect = "http" /\ connect # "none" /\ InPlace /\ ProxyTypeOK
  BY DEF http_connect, WireInv, TypeInv
<1>1. sock_gets("\r", "up", "http_header")
  BY DEF http_connect
<1> DEFINE Step == /\ 1 = Got(1) /\ Consume(1) /\ wire # <<>> /\ wire[1] # "long"
                   /\ UNCHANGED <<connect, sent, link, tunnel, left>>
                   /\ IF wire[1] = "\n"
                      THEN bio' = (IF line = "\r" THEN "up" ELSE "http_header") /\ line' = "empty"
                      ELSE line' = (IF line = "empty" THEN wire[1] ELSE line) /\ bio' = bio
<1>2. WireInv' \/ Step
  BY <1>0, <1>1, WireGets
<1>3. CASE Step
  <2>1. ~Answered(HttpLong, 2)
    <3>1. Answered(HttpLong, 2) => wire[1] = HttpLong[2][2 + 1]
      BY <1>0, <1>3, BlankFacts, NextByte
    <3>2. 2 + 1 = 3
      OBVIOUS
    <3> QED
      BY <1>3, <3>1, <3>2, BlankFacts
  <2>2. PICK k \in 2 .. 5 : Answered(Http200, k) /\ line = LineAt(k)
    BY <1>0, <2>1 DEF InPlace
  <2> DEFINE X == Http200[2]
  <2>3. wire[1] = X[k + 1] /\ Answered(Http200, k + 1)'
    BY <1>0, <1>3, <2>2, BlankFacts, NextByte
  <2>4. tunnel = "granted" /\ sent = <<>>
    BY <2>2, BlankFacts DEF Answered
  <2>5. /\ X[3] = "h" /\ X[4] = "\n" /\ X[5] = "\r" /\ X[6] = "\n" /\ Len(X) = 6 /\ X \in Seq(Bytes)
    BY BlankFacts
  <2> HIDE DEF X
  <2>6. CASE k = 5
    <3>1. wire[1] = "\n" /\ line = "\r"
      BY <2>2, <2>3, <2>5, <2>6 DEF LineAt
    <3>2. bio' = "up"
      BY <1>3, <3>1
    <3>3. wire' = <<>>
      <4>1. CutOf(wire, link, X, 5)
        BY <2>2, <2>6 DEF Answered, Cut, X
      <4>2. 5 + 1 = Len(X)
        BY <2>5
      <4> QED
        BY <1>0, <1>3, <2>5, <4>1, <4>2, ReadLast
    <3> QED
      BY <1>0, <1>3, <2>4, <3>2, <3>3, WireUp
  <2>7. CASE k # 5
    <3>1. /\ bio' = "http_header" /\ line' = LineAt(k + 1) /\ k + 1 \in 2 .. 5
      <4>1. CASE k = 2
        <5>1. wire[1] = "h" /\ line = "empty"
          BY <2>2, <2>3, <2>5, <4>1 DEF LineAt
        <5> QED
          BY <1>3, <4>1, <5>1 DEF LineAt
      <4>2. CASE k = 3
        <5>1. wire[1] = "\n" /\ line = "h"
          BY <2>2, <2>3, <2>5, <4>2 DEF LineAt
        <5> QED
          BY <1>3, <4>2, <5>1 DEF LineAt
      <4>3. CASE k = 4
        <5>1. wire[1] = "\r" /\ line = "empty"
          BY <2>2, <2>3, <2>5, <4>3 DEF LineAt
        <5> QED
          BY <1>3, <4>3, <5>1 DEF LineAt
      <4> QED
        BY <2>2, <2>7, <4>1, <4>2, <4>3
    <3> DEFINE j == k + 1
    <3>2. j \in 2 .. 5 /\ Answered(Http200, j)' /\ line' = LineAt(j)
      BY <2>3, <3>1
    <3> HIDE DEF j
    <3>3. InPlace'
      BY <3>1, <3>2 DEF InPlace
    <3>4. \A i \in 1 .. Len(sent') : sent'[i] \notin AppData
      BY <1>3, <2>4
    <3> QED
      BY <1>0, <1>3, <3>1, <3>3, <3>4, WireOn
  <2> QED
    BY <2>6, <2>7
<1> QED
  BY <1>2, <1>3

\* A step of any callback.
LEMMA WireConnect ==
    ASSUME WireInv, TypeInv, ConnectStep, child = "client_hello", UNCHANGED <<child, buf>>
    PROVE  WireInv'
<1>1. CASE NoCallback
  BY <1>1, WireFail DEF NoCallback, linkVars
<1>2. CASE socks5_connect
  <2>1. bio \in {"idle", "s5_method", "s5_request", "s5_reply", "s5_len", "s5_addr", "s5_ipv4"}
    BY <1>2 DEF socks5_connect
  <2> QED
    BY <1>2, <2>1, WireSocks5Method, WireSocks5Reply, WireSocks5Address
<1>3. CASE http_connect
  <2>1. bio \in {"idle", "http_host", "http_blank", "http_status", "http_header"}
    BY <1>3 DEF http_connect
  <2> QED
    BY <1>3, <2>1, WireHttpWrite, WireHttpStatus, WireHttpHeader
<1> QED
  BY <1>1, <1>2, <1>3, WireSocks4a DEF ConnectStep

\* The child stops, or has checked the peer, with the connection as it is.
LEMMA WireEnd ==
    ASSUME WireInv, UNCHANGED <<connect, bio, line, left, sent, wire, link, tunnel, buf>>,
           child' = "died" \/ (child' = "exit0" /\ child = "inspect")
    PROVE  WireInv'
<1>1. InPlace => InPlace'
  BY DEF InPlace, Waiting, Answered, Cut
<1>2. Dawn'
  BY DEF WireInv, Dawn, Early
<1>3. connect # "none" => Passage'
  <2> SUFFICES ASSUME connect # "none"
               PROVE  Passage'
    OBVIOUS
  <2>1. Passage
    BY DEF WireInv
  <2> QED
    BY <2>1 DEF Passage, Early
<1>4. InStep'
  BY DEF InStep
<1> QED
  BY <1>1, <1>2, <1>3, <1>4 DEF WireInv

\* The child before it has a connection.
LEMMA WireSetUp ==
    ASSUME WireInv, SetUp \/ DoConnect
    PROVE  WireInv'
<1>0. child \in Early /\ child # "none"
  BY DEF SetUp, DoConnect, Early
<1>1. /\ bio = "idle" /\ Waiting({<<>>}) /\ line = "empty" /\ buf = <<>>
      /\ sent = <<>> /\ wire = <<>> /\ tunnel = "wait"
  BY <1>0 DEF WireInv, Dawn, Waiting, Early
<1>2. CASE Goto("died")
  BY <1>2, WireEnd DEF Goto, proxyVars
<1>3. CASE ~Goto("died")
  <2>1. /\ UNCHANGED <<bio, line, left, sent, wire, tunnel, buf>>
        /\ child' \in {"connect", "client_hello"}
        /\ connect' = connect \/ child' = "connect"
    BY <1>3 DEF SetUp, DoConnect
  <2>2. Waiting({<<>>})'
    BY <1>1, <2>1 DEF Waiting
  <2>3. Dawn'
    BY <1>1, <2>1, <2>2 DEF Dawn, Early
  <2>4. InPlace'
    BY <1>1, <2>1, <2>2 DEF InPlace
  <2>5. Passage'
    BY <1>1, <2>1 DEF Passage, Early
  <2>6. InStep'
    BY <1>1, <2>1 DEF InStep
  <2> QED
    BY <2>3, <2>4, <2>5, <2>6 DEF WireInv
<1> QED
  BY <1>2, <1>3

\* A write of the TLS layer.
LEMMA WireSend ==
    ASSUME WireInv, TypeInv,
           \/ child = "client_hello" /\ Send("ClientHello", "server_hello")
           \/ child = "request" /\ Send("request", "date")
    PROVE  WireInv'
<1>1. CASE Goto("died")
  BY <1>1, WireEnd DEF Goto, proxyVars
<1>2. CASE ~Goto("died")
  <2>0. /\ MayPass /\ link \in {"open", "eof"}
        /\ UNCHANGED <<connect, bio, line, left, wire, link, tunnel, buf>>
        /\ \/ child = "client_hello" /\ child' = "server_hello" /\ sent' = Append(sent, "ClientHello")
           \/ child = "request" /\ child' = "date" /\ sent' = Append(sent, "request")
    BY <1>2 DEF Send
  <2>1. connect = "none" \/ bio = "up"
    BY <2>0 DEF MayPass, Connected, WireInv, Passage
  <2>2. Dawn'
    BY <2>0 DEF WireInv, Dawn, Early
  <2>3. connect # "none" => InPlace' /\ Passage'
    BY <2>0, <2>1 DEF WireInv, InPlace, Passage, Early
  <2>4. Clear => InStep'
    <3> SUFFICES ASSUME Clear
                 PROVE  InStep'
      OBVIOUS
    <3>1. sent = <<>> /\ wire = <<>>
      BY <2>0 DEF WireInv, InStep
    <3>2. child = "request" => buf = <<>>
      BY DEF WireInv, Dawn
    <3>3. \/ child' = "server_hello" /\ sent' = <<"ClientHello">>
          \/ child' = "date" /\ sent' = <<"request">> /\ buf = <<>>
      BY <2>0, <3>1, <3>2
    <3> QED
      BY <2>0, <3>1, <3>3 DEF InStep
  <2>5. Clear' = Clear
    BY <2>0 DEF Clear
  <2> QED
    BY <2>0, <2>2, <2>3, <2>4, <2>5 DEF WireInv
<1> QED
  BY <1>1, <1>2

\* Only a child on a clear way gets an answer of the server.
LEMMA WayIsClear ==
    ASSUME WireInv, child \in {"finished", "request", "date", "inspect"}
    PROVE  Clear /\ InStep
  BY DEF WireInv, Passage, Clear, Early

\* A read of the TLS layer leaves the bytes after it.
LEMMA PassageRest ==
    ASSUME TypeInv, Passage, bio = "up", tunnel = "granted", child' \notin Early,
           UNCHANGED <<bio, tunnel, sent, link>>, NEW r \in 0 .. arrived, Consume(r)
    PROVE  Passage'
<1>1. /\ Len(wire') = Len(wire) - r
      /\ \A i \in 1 .. Len(wire') : wire'[i] = wire[r + i]
      /\ Len(wire) \in Nat /\ arrived \in 0 .. Len(wire)
  BY ConsumeFacts, Lengths DEF TypeInv, ProxyTypeOK
<1>2. \A i \in 1 .. Len(wire') : r + i \in 1 .. Len(wire)
  BY <1>1
<1>3. \A i \in 1 .. Len(wire') : wire'[i] \notin FromProxy
  BY <1>1, <1>2 DEF Passage
<1> QED
  BY <1>3 DEF Passage

\* The server's hello.
LEMMA WireServerHello ==
    ASSUME WireInv, TypeInv, child = "server_hello", ServerHello
    PROVE  WireInv'
<1>1. CASE Goto("died")
  BY <1>1, WireEnd DEF Goto, proxyVars
<1>2. CASE ~Goto("died")
  <2>0. /\ arrived > 0 /\ wire[1] = "hello" /\ Consume(1)
        /\ child' \in {"finished", "died"}
        /\ UNCHANGED <<connect, bio, line, left, sent, link, tunnel, buf>>
    BY <1>2 DEF ServerHello, Receive
  <2>1. ProxyTypeOK /\ 1 \in 0 .. arrived /\ 1 = Got(1) /\ wire # <<>> /\ Len(wire) > 0
    <3>1. ProxyTypeOK /\ arrived \in Nat /\ Len(wire) \in Nat /\ arrived <= Len(wire)
      BY Lengths DEF TypeInv, ProxyTypeOK
    <3>2. wire # <<>>
      BY <2>0, <3>1, NothingToRead
    <3> QED
      BY <2>0, <3>1, <3>2 DEF Got
  <2>2. Clear /\ InStep
    <3>1. connect # "none" => Passage
      BY DEF WireInv
    <3>2. connect # "none" => bio = "up" /\ tunnel = "granted"
      BY <2>0, <2>1, <3>1 DEF Passage, Early
    <3> QED
      BY <3>2 DEF WireInv, Clear
  <2>3. sent = <<>> /\ CutOf(wire, link, <<"hello", "fin">>, 0)
    <3>1. Cut(<<"alert">>, 0) => wire[1] = "alert"
      <4>1. 1 \in 1 .. Len(wire) /\ 0 + 1 = 1
        BY <2>1, Lengths
      <4>2. <<"alert">>[1] = "alert"
        OBVIOUS
      <4> QED
        BY <4>1, <4>2 DEF Cut, CutOf
    <3> QED
      BY <2>0, <2>1, <2>2, <3>1 DEF InStep, Cut
  <2>4. CutOf(wire', link, <<"hello", "fin">>, 0 + 1)
    BY <2>0, <2>1, <2>3, ReadAll, ServerBytes
  <2>5. InStep'
    <3>1. Cut(<<"hello", "fin">>, 1)'
      BY <2>0, <2>4 DEF Cut
    <3> QED
      BY <2>0, <2>3, <3>1 DEF InStep
  <2>6. connect # "none" => InPlace' /\ Passage'
    <3> SUFFICES ASSUME connect # "none"
                 PROVE  InPlace' /\ Passage'
      OBVIOUS
    <3>1. bio = "up" /\ tunnel = "granted" /\ Passage
      BY <2>2 DEF Clear, WireInv
    <3>2. child' \notin Early
      BY <2>0 DEF Early
    <3>3. Passage'
      BY <2>0, <2>1, <3>1, <3>2, PassageRest
    <3> QED
      BY <2>0, <3>1, <3>3 DEF InPlace
  <2>7. Dawn'
    BY <2>0 DEF WireInv, Dawn, Early
  <2> QED
    BY <2>0, <2>5, <2>6, <2>7 DEF WireInv
<1> QED
  BY <1>1, <1>2

\* The end of the handshake.
LEMMA WireFinished ==
    ASSUME WireInv, TypeInv, child = "finished", Finished
    PROVE  WireInv'
<1>1. CASE Goto("died")
  BY <1>1, WireEnd DEF Goto, proxyVars
<1>2. CASE ~Goto("died")
  <2>0. /\ arrived > 0 /\ Consume(1)
        /\ child' \in {"request", "inspect"}
        /\ UNCHANGED <<connect, bio, line, left, sent, link, tunnel, buf>>
    BY <1>2 DEF Finished, Receive
  <2>1. ProxyTypeOK /\ 1 \in 0 .. arrived /\ 1 = Got(1)
    BY <2>0, Lengths DEF TypeInv, Got
  <2>2. Clear /\ InStep
    BY WayIsClear
  <2>3. sent = <<>> /\ CutOf(wire, link, <<"hello", "fin">>, 1)
    BY <2>2 DEF InStep, Cut
  <2>4. wire' = <<>>
    <3>1. 1 + 1 = Len(<<"hello", "fin">>)
      OBVIOUS
    <3> QED
      BY <2>0, <2>1, <2>3, <3>1, ReadLast, ServerBytes
  <2>5. InStep'
    BY <2>0, <2>3, <2>4 DEF InStep
  <2>6. connect # "none" => InPlace' /\ Passage'
    <3> SUFFICES ASSUME connect # "none"
                 PROVE  InPlace' /\ Passage'
      OBVIOUS
    <3>1. bio = "up" /\ tunnel = "granted" /\ Passage
      BY <2>2 DEF Clear, WireInv
    <3>2. child' \notin Early
      BY <2>0 DEF Early
    <3>3. Passage'
      BY <2>0, <2>1, <3>1, <3>2, PassageRest
    <3> QED
      BY <2>0, <3>1, <3>3 DEF InPlace
  <2>7. Dawn'
    BY <2>0 DEF WireInv, Dawn, Early
  <2> QED
    BY <2>0, <2>5, <2>6, <2>7 DEF WireInv
<1> QED
  BY <1>1, <1>2

\* What a turn of the loop of read_http_date_from_bio does.
LEMMA DateEffect ==
    ASSUME TypeInv, read_http_date_from_bio, child = "date"
    PROVE  \E n \in 0 .. arrived :
             /\ Consume(n) /\ n = Got(n) /\ n <= Room
             /\ UNCHANGED <<connect, bio, line, left, sent, link, tunnel>>
             /\ \/ child' = "died" /\ buf' = buf
                \/ n > 0 /\ child' \in {"died", "inspect"} /\ buf' = <<>>
                \/ n > 0 /\ child' \in {"died", "date"} /\ buf' = buf \o SubSeq(wire, 1, n)
<1> DEFINE n == Got(Room)
<1>1. Room \in Nat /\ arrived \in Nat
  <2>1. MAX_HTTP_HEADERS_SIZE \in Nat /\ Len(buf) \in Nat /\ Len(buf) <= MAX_HTTP_HEADERS_SIZE
    BY HelperAssumption, LenProperties DEF TypeInv
  <2> QED
    BY <2>1, Lengths DEF Room, TypeInv
<1>2. n \in 0 .. arrived /\ n <= Room
  BY <1>1, GotFacts
<1>3. n = Got(n)
  BY <1>1, <1>2 DEF Got
<1>4. Consume(n) /\ UNCHANGED <<connect, bio, line, left, sent, link, tunnel>>
  BY DEF read_http_date_from_bio, linkVars
<1>5. \/ child' = "died" /\ buf' = buf
      \/ n > 0 /\ child' \in {"died", "inspect"} /\ buf' = <<>>
      \/ n > 0 /\ child' \in {"died", "date"} /\ buf' = buf \o SubSeq(wire, 1, n)
  BY DEF read_http_date_from_bio
<1> HIDE DEF n
<1> QED
  BY <1>2, <1>3, <1>4, <1>5

\* What has been gathered with the bytes just read is a beginning of the head.
LEMMA HeadText ==
    ASSUME TypeInv, NEW head \in HttpHeads, ReadingHead(head), NEW n \in 0 .. arrived, n = Got(n),
           Consume(n), NEW text, text = buf \o SubSeq(wire, 1, n)
    PROVE  /\ CutOf(wire', link, head, Len(text))
           /\ Len(text) \in 0 .. Len(head)
           /\ \A i \in 1 .. Len(text) : text[i] = head[i]
<1>0. head \in Seq(Bytes) /\ buf \in Seq(Bytes) /\ wire \in Seq(Bytes) /\ ProxyTypeOK
  BY ServerBytes DEF TypeInv, ProxyTypeOK
<1>1. Len(head) \in Nat /\ Len(buf) \in Nat /\ Len(wire) \in Nat /\ arrived \in 0 .. Len(wire)
  BY <1>0, LenProperties DEF ProxyTypeOK
<1>2. n \in Nat /\ n \in 0 .. Len(wire)
  BY <1>1
<1>3. CutOf(wire, link, head, Len(buf))
  BY DEF ReadingHead, Cut
<1>4. /\ CutOf(wire', link, head, Len(buf) + n)
      /\ \A i \in 1 .. n : wire[i] = head[Len(buf) + i]
      /\ Len(buf) + n <= Len(head)
  BY <1>0, <1>1, <1>2, <1>3, ReadAll
<1> DEFINE v == SubSeq(wire, 1, n)
<1>5. v \in Seq(Bytes) /\ Len(v) = n /\ \A i \in 1 .. Len(v) : v[i] = wire[i]
  BY <1>0, <1>2, FrontFacts
<1>6. text = buf \o v
  OBVIOUS
<1> HIDE DEF v
<1>7. /\ Len(text) = Len(buf) + n
      /\ \A i \in 1 .. Len(buf) : text[i] = buf[i]
      /\ \A i \in 1 .. n : text[Len(buf) + i] = v[i]
  BY <1>0, <1>5, <1>6, HeadAndRest
<1>8. ASSUME NEW i \in 1 .. Len(text)
      PROVE  text[i] = head[i]
  <2>1. CASE i \in 1 .. Len(buf)
    BY <2>1, <1>7 DEF ReadingHead
  <2>2. CASE i \notin 1 .. Len(buf)
    <3>1. i - Len(buf) \in 1 .. n /\ Len(buf) + (i - Len(buf)) = i
      BY <1>1, <1>2, <1>7, <2>2
    <3> QED
      BY <1>4, <1>5, <1>7, <3>1
  <2> QED
    BY <2>1, <2>2
<1>9. Len(text) \in 0 .. Len(head)
  BY <1>1, <1>2, <1>4, <1>7
<1> QED
  BY <1>4, <1>7, <1>8, <1>9

\* The buffer grows by what has been read.
LEMMA HeadGrows ==
    ASSUME TypeInv, NEW head \in HttpHeads, ReadingHead(head), NEW n \in 0 .. arrived, n = Got(n),
           Consume(n), UNCHANGED link, buf' = buf \o SubSeq(wire, 1, n)
    PROVE  ReadingHead(head)'
<1>1. CutOf(wire', link', head, Len(buf')) /\ \A i \in 1 .. Len(buf') : buf'[i] = head[i]
  BY HeadText
<1> QED
  BY <1>1 DEF ReadingHead, Cut

\* A turn of the loop that looks for the date.
LEMMA WireDate ==
    ASSUME WireInv, TypeInv, child = "date", read_http_date_from_bio
    PROVE  WireInv'
<1>1. PICK n \in 0 .. arrived :
             /\ Consume(n) /\ n = Got(n)
             /\ UNCHANGED <<connect, bio, line, left, sent, link, tunnel>>
             /\ \/ child' = "died" /\ buf' = buf
                \/ n > 0 /\ child' \in {"died", "inspect"} /\ buf' = <<>>
                \/ n > 0 /\ child' \in {"died", "date"} /\ buf' = buf \o SubSeq(wire, 1, n)
  BY DateEffect
<1>2. Clear /\ InStep
  BY WayIsClear
<1>3. InStep'
  <2>1. CASE child' = "died"
    BY <2>1 DEF InStep
  <2>2. CASE child' # "died"
    <3>1. n > 0 /\ wire # <<>>
      <4>1. n > 0 /\ arrived \in Nat /\ ProxyTypeOK
        BY <1>1, <2>2, Lengths DEF TypeInv
      <4> QED
        BY <4>1, NothingToRead
    <3>2. PICK head \in HttpHeads : ReadingHead(head) /\ sent = <<>>
      BY <1>2, <3>1 DEF InStep
    <3>3. child' = "date" => ReadingHead(head)'
      BY <1>1, <3>2, HeadGrows
    <3> QED
      BY <1>1, <2>2, <3>2, <3>3 DEF InStep
  <2> QED
    BY <2>1, <2>2
<1>4. connect # "none" => InPlace' /\ Passage'
  <2> SUFFICES ASSUME connect # "none"
               PROVE  InPlace' /\ Passage'
    OBVIOUS
  <2>1. bio = "up" /\ tunnel = "granted" /\ Passage
    BY <1>2 DEF Clear, WireInv
  <2>2. child' \notin Early
    BY <1>1 DEF Early
  <2>3. Passage'
    BY <1>1, <2>1, <2>2, PassageRest
  <2> QED
    BY <1>1, <2>1, <2>3 DEF InPlace
<1>5. Dawn'
  BY <1>1 DEF WireInv, Dawn, Early
<1> QED
  BY <1>1, <1>3, <1>4, <1>5 DEF WireInv

\* A step of the child.
LEMMA WireChild ==
    ASSUME WireInv, TypeInv, ChildStep
    PROVE  WireInv'
<1>1. CASE ProxyHandshake
  BY <1>1, WireConnect DEF ProxyHandshake, helperVars
<1>2. CASE Inspect
  BY <1>2, WireEnd DEF Inspect, proxyVars
<1> QED
  BY <1>1, <1>2, WireSetUp, WireSend, WireServerHello, WireFinished, WireDate DEF ChildStep

\* A step of anyone.
LEMMA WireNext ==
    ASSUME WireInv, TypeInv, Verified, [Next]_vars
    PROVE  WireInv'
<1>1. CASE Network
  <2>1. UNCHANGED <<child, buf>> /\ (ProxyAnswers \/ Arrive \/ Close)
    BY <1>1 DEF Network, helperVars
  <2>2. CASE Arrive
    BY <2>1, <2>2, WireQuiet DEF Arrive
  <2> QED
    BY <2>1, <2>2, WireProxy, WireClose
<1>2. CASE UNCHANGED <<proxyVars, helperVars>>
  BY <1>2, WireQuiet DEF proxyVars, helperVars
<1>3. CASE Exec \/ Collect \/ SetClock \/ Tick \/ Jump \/ Kill
  BY <1>3, WireQuiet DEF Exec, Collect, SetClock, Tick, Jump, Kill, proxyVars
<1>4. CASE UNCHANGED vars
  BY <1>2, <1>4 DEF vars
<1> QED
  BY <1>1, <1>2, <1>3, <1>4, WireMain, WireChild, WireServer DEF Next, ParentStep

\* Nothing has been sent at the start.
LEMMA WireStart ==
    ASSUME Init
    PROVE  WireInv
<1>1. /\ child \in {"none", "client_hello"} /\ (child = "none" => connect = "none")
      /\ bio = "idle" /\ line = "empty" /\ sent = <<>> /\ wire = <<>> /\ tunnel = "wait" /\ buf = <<>>
  BY DEF Init
<1>2. Waiting({<<>>})
  BY <1>1 DEF Waiting
<1>3. Dawn
  BY <1>1, <1>2 DEF Dawn, Early
<1>4. InPlace
  BY <1>1, <1>2 DEF InPlace
<1>5. Passage
  BY <1>1 DEF Passage, Early
<1>6. InStep
  BY <1>1 DEF InStep
<1> QED
  BY <1>3, <1>4, <1>5, <1>6 DEF WireInv

\* What is on the wire in every state of every run.
THEOREM WireInvariance == Spec => []WireInv
<1>1. Init => TypeInv /\ WireInv
  BY TypeStart, WireStart
<1>2. TypeInv /\ WireInv /\ Verified /\ [Next]_vars => TypeInv' /\ WireInv'
  BY TypeNext, WireNext
<1>3. AnswerInv => Verified
  BY DEF AnswerInv
<1> QED
  BY <1>1, <1>2, <1>3, AnswerInvariance, PTL DEF Spec

\* No TLS byte goes to a proxy that has not granted the connection, whatever
\* the proxy answers, however its answer is cut and whenever the link breaks.
THEOREM NoDataBeforeGrant == Spec => []NoEarlyData
<1>1. WireInv => NoEarlyData
  BY DEF WireInv, Passage, NoEarlyData
<1> QED
  BY <1>1, WireInvariance, PTL

\* The callbacks read the whole answer of the proxy and not a byte more: none
\* of it is left for the TLS layer once the connection has been granted.
THEOREM TunnelIsAligned == Spec => []TunnelAligned
<1>1. WireInv => TunnelAligned
  BY DEF WireInv, Passage, TunnelAligned, Connected
<1> QED
  BY <1>1, WireInvariance, PTL

-----------------------------------------------------------------------------
(* The date.                                                               *)

\* A beginning of a reply that holds the end of the date's line holds all of it.
LEMMA DateIsWhole ==
    ASSUME NEW head \in HttpHeads, NEW text, Len(text) \in 0 .. Len(head),
           \A i \in 1 .. Len(text) : text[i] = head[i], DateComplete(text)
    PROVE  \E i \in 1 .. Len(text) : text[i] = "ate"
<1>1. Len(head) \in Nat
  BY HelperAssumption, LenProperties
<1>2. PICK i, j \in 1 .. Len(text) : i < j /\ text[i] = "Date" /\ text[j] = "\r\n"
  BY DEF DateComplete
<1>3. /\ j \in 1 .. Len(head) /\ i \in 1 .. j - 1
      /\ head[i] = "Date" /\ head[j] = "\r\n"
  BY <1>1, <1>2
<1>4. PICK k \in 1 .. j - 1 : head[k] = "ate"
  BY <1>3, HeadsAssumption
<1>5. k \in 1 .. Len(text)
  BY <1>1, <1>2
<1> QED
  BY <1>4, <1>5

\* The time that is checked last is the one the server has sent.
DateInv == child = "inspect" /\ args.http /\ stamp.form = "good" => result = stamp

\* The date is parsed when the whole of it is there.
LEMMA DateTaken ==
    ASSUME WireInv, TypeInv, child = "date", read_http_date_from_bio, child' = "inspect"
    PROVE  /\ result' = [stamp EXCEPT !.sec = handle_date_line(stamp, TRUE), !.form = "good"]
           /\ handle_date_line(stamp, TRUE) >= 0
           /\ UNCHANGED <<stamp, args>>
<1> DEFINE n == Got(Room)
           text == buf \o SubSeq(wire, 1, n)
           whole == \E i \in 1 .. Len(text) : text[i] = "ate"
           t == handle_date_line(stamp, whole)
<1>1. Room \in Nat /\ arrived \in Nat /\ ProxyTypeOK
  <2>1. MAX_HTTP_HEADERS_SIZE \in Nat /\ Len(buf) \in Nat /\ Len(buf) <= MAX_HTTP_HEADERS_SIZE
    BY HelperAssumption, LenProperties DEF TypeInv
  <2> QED
    BY <2>1, Lengths DEF Room, TypeInv
<1>2. /\ n > 0 /\ DateComplete(text) /\ Consume(n) /\ ~(t < 0)
      /\ result' = [stamp EXCEPT !.sec = t, !.form = "good"]
      /\ UNCHANGED <<stamp, args>>
  BY DEF read_http_date_from_bio, parentVars
<1>3. n \in 0 .. arrived
  BY <1>1, GotFacts
<1>4. n = Got(n)
  BY <1>1, <1>3 DEF Got
<1>5. wire # <<>>
  <2>1. wire = <<>> => n = 0
    BY <1>1, NothingToRead
  <2> HIDE DEF n
  <2> QED
    BY <1>1, <1>2, <1>3, <2>1
<1>6. PICK head \in HttpHeads : ReadingHead(head)
  BY <1>5, WayIsClear DEF InStep
<1>7. Len(text) \in 0 .. Len(head) /\ \A i \in 1 .. Len(text) : text[i] = head[i]
  <2> HIDE DEF n
  <2> QED
    BY <1>2, <1>3, <1>4, <1>6, HeadText
<1>8. whole
  <2>1. DateComplete(text)
    BY <1>2
  <2> HIDE DEF text
  <2>2. \E i \in 1 .. Len(text) : text[i] = "ate"
    BY <1>7, <2>1, DateIsWhole
  <2> QED
    BY <2>2
<1> DEFINE d == handle_date_line(stamp, TRUE)
<1>9. t = d
  <2>1. whole = TRUE
    BY <1>8
  <2> QED
    BY <2>1
<1>10. d \in Int
  BY HelperAssumption DEF handle_date_line, TypeInv, Stamp
<1>11. ~(t < 0) /\ result' = [stamp EXCEPT !.sec = t, !.form = "good"] /\ UNCHANGED <<stamp, args>>
  BY <1>2
<1> HIDE DEF t, d
<1>12. d >= 0 /\ result' = [stamp EXCEPT !.sec = d, !.form = "good"] /\ UNCHANGED <<stamp, args>>
  BY <1>9, <1>10, <1>11
<1> QED
  BY <1>12 DEF d

\* What steps do to the times.
LEMMA StampEffect ==
    ASSUME WireInv, TypeInv, Verified, [Next]_vars, child' = "inspect"
    PROVE  \/ UNCHANGED <<child, stamp, result, args>>
           \/ child = "finished" /\ ~args.http /\ UNCHANGED args
           \/ child = "date" /\ read_http_date_from_bio
<1>1. CASE ServerAnswers
  <2>1. child = "inspect" /\ sent # <<>>
    BY <1>1 DEF ServerAnswers
  <2> QED
    BY <2>1, WayIsClear DEF InStep
<1>2. CASE ChildStep
  <2>1. CASE SetUp \/ DoConnect \/ Inspect
    BY <2>1 DEF SetUp, DoConnect, Inspect, Goto
  <2>2. CASE ProxyHandshake
    BY <2>2 DEF ProxyHandshake, helperVars
  <2>3. CASE (child = "client_hello" /\ Send("ClientHello", "server_hello"))
             \/ (child = "request" /\ Send("request", "date"))
             \/ (child = "server_hello" /\ ServerHello)
    BY <2>3 DEF Send, ServerHello, Receive, Goto
  <2>4. CASE child = "finished" /\ Finished
    BY <2>4 DEF Finished, Receive, Goto, parentVars
  <2> QED
    BY <1>2, <2>1, <2>2, <2>3, <2>4 DEF ChildStep
<1>3. CASE Exec \/ Main
  BY <1>3 DEF Exec, Main, Die, Verified
<1>4. CASE Collect \/ SetClock \/ Tick \/ Jump \/ Kill
  BY <1>4 DEF Collect, SetClock, Tick, Jump, Kill
<1>5. CASE UNCHANGED helperVars
  BY <1>5 DEF helperVars
<1> QED
  BY <1>1, <1>2, <1>3, <1>4, <1>5 DEF Next, ParentStep, Network, vars

\* A step keeps the date.
LEMMA DateNext ==
    ASSUME WireInv, TypeInv, Verified, DateInv, [Next]_vars
    PROVE  DateInv'
<1> SUFFICES ASSUME child' = "inspect", (args.http)', stamp'.form = "good"
             PROVE  result' = stamp'
  BY DEF DateInv
<1>1. CASE UNCHANGED <<child, stamp, result, args>>
  BY <1>1 DEF DateInv
<1>2. CASE child = "date" /\ read_http_date_from_bio
  <2>1. /\ result' = [stamp EXCEPT !.sec = handle_date_line(stamp, TRUE), !.form = "good"]
        /\ UNCHANGED stamp
    BY <1>2, DateTaken
  <2>2. stamp \in Stamp /\ stamp.form = "good"
    BY <2>1 DEF TypeInv
  <2>3. handle_date_line(stamp, TRUE) = stamp.sec
    BY <2>2 DEF handle_date_line, Stamp
  <2>4. [stamp EXCEPT !.sec = stamp.sec, !.form = "good"] = stamp
    BY <2>2 DEF Stamp
  <2> QED
    BY <2>1, <2>3, <2>4
<1> QED
  BY <1>1, <1>2, StampEffect

\* However a reply is cut into pieces, the date of -w is the one the server
\* has sent, to the last digit: no prefix of it is taken for the whole.
THEOREM DateIsExact == Spec => []HttpDateWhole
<1>1. Init => DateInv
  BY DEF Init, DateInv
<1>2. WireInv /\ TypeInv /\ Verified /\ DateInv /\ [Next]_vars => DateInv'
  BY DateNext
<1>3. Init => TypeInv
  BY TypeStart
<1>4. TypeInv /\ [Next]_vars => TypeInv'
  BY TypeNext
<1>5. AnswerInv => Verified
  BY DEF AnswerInv
<1>6. DateInv => HttpDateWhole
  BY DEF DateInv, HttpDateWhole
<1> QED
  BY <1>1, <1>2, <1>3, <1>4, <1>5, <1>6, AnswerInvariance, WireInvariance, PTL DEF Spec

-----------------------------------------------------------------------------
(* The clock.                                                              *)

\* At n: an honest time is one of the exchange's, to the second.
Near(t, n) == t.honest => K * t.sec <= n /\ Epoch < K * t.sec + K

TimesNear ==
    /\ now \in Epoch .. Epoch + MaxTicks
    /\ Near(stamp, now) /\ Near(result, now) /\ Near(time_map, now)

\* The local clock measures the round trip unless others move it.
RoundTrip ==
    /\ parent \in {"tlsdated", "main"} => now = Epoch /\ ~jumped
    /\ parent \in {"wait", "set"} /\ ~jumped => clock - start = now - Epoch
    /\ parent = "set" => child = "exit0" /\ rt_time <= TLS_RTT_UNREASONABLE

\* Nothing happens after the clock has been set.
Settled == setBy = "server" => parent = "exit0" /\ child = "exit0"

ClockInv == TimesNear /\ RoundTrip /\ Settled /\ ClockClose

\* A division rounds down.
LEMMA DivBounds ==
    ASSUME NEW n \in Nat, NEW d \in Nat \ {0}
    PROVE  n \div d \in Nat /\ d * (n \div d) <= n /\ n < d * (n \div d) + d
  OBVIOUS

\* A time stays near while time passes.
LEMMA NearLater ==
    ASSUME NEW t \in Stamp, NEW n \in Nat, NEW m \in Nat, n <= m, Near(t, n)
    PROVE  Near(t, m)
<1> DEFINE p == K * t.sec
<1>1. p \in Int /\ K \in Nat
  BY HelperAssumption DEF Stamp
<1>2. t.honest => p <= n /\ Epoch < p + K
  BY DEF Near
<1> HIDE DEF p
<1>3. t.honest => p <= m /\ Epoch < p + K
  BY <1>1, <1>2
<1> QED
  BY <1>3 DEF p, Near

\* The server's own time is near.
LEMMA NearNow ==
    ASSUME NEW n \in Nat, Epoch <= n, NEW t, t.honest => t.sec = Sec(n)
    PROVE  Near(t, n)
<1>1. K \in Nat \ {0} /\ Epoch \in Nat
  BY HelperAssumption
<1>2. n \div K \in Nat /\ K * (n \div K) <= n /\ n < K * (n \div K) + K
  BY <1>1, DivBounds
<1> DEFINE p == K * (n \div K)
<1>3. p \in Int
  BY <1>1, <1>2
<1>4. p <= n /\ n < p + K
  BY <1>2
<1> HIDE DEF p
<1>5. Epoch < p + K
  BY <1>1, <1>3, <1>4
<1> QED
  BY <1>4, <1>5 DEF p, Near, Sec

\* An honest date of two digits is in the past century: handle_date_line
\* refuses it.  Any other is taken as it is.
LEMMA NearDate ==
    ASSUME Epoch + MaxTicks < CENTURY * K,
           NEW t \in Stamp, NEW n \in Nat, n <= Epoch + MaxTicks, Near(t, n),
           handle_date_line(t, TRUE) >= 0
    PROVE  Near([t EXCEPT !.sec = handle_date_line(t, TRUE), !.form = "good"], n)
<1>1. K \in Nat \ {0} /\ CENTURY \in Nat /\ Epoch \in Nat /\ MaxTicks \in Nat /\ t.sec \in Int
  BY HelperAssumption DEF Stamp
<1>2. CASE t.form = "good"
  <2>1. handle_date_line(t, TRUE) = t.sec
    BY <1>1, <1>2 DEF handle_date_line
  <2>2. [t EXCEPT !.sec = t.sec, !.form = "good"] = t
    BY <1>2 DEF Stamp
  <2> QED
    BY <2>1, <2>2
<1>3. CASE t.form = "junk"
  BY <1>3 DEF handle_date_line
<1>4. CASE t.form = "rfc850"
  <2>1. t.sec - CENTURY >= 0
    BY <1>1, <1>4 DEF handle_date_line
  <2>2. K * t.sec >= K * CENTURY
    BY <1>1, <2>1
  <2>3. ~t.honest
    <3> DEFINE p == K * t.sec
               c == K * CENTURY
    <3>1. p \in Int /\ c \in Int /\ CENTURY * K = c
      BY <1>1
    <3>2. p >= c /\ (t.honest => p <= n)
      BY <2>2 DEF Near
    <3> HIDE DEF p, c
    <3> QED
      BY <1>1, <3>1, <3>2
  <2>4. ~[t EXCEPT !.sec = handle_date_line(t, TRUE), !.form = "good"].honest
    BY <2>3 DEF Stamp
  <2> QED
    BY <2>4 DEF Near
<1> QED
  BY <1>2, <1>3, <1>4 DEF Stamp

\* What steps do to the times, the round trip and the clock.
LEMMA TimesEffect ==
    ASSUME WireInv, TypeInv, [Next]_vars
    PROVE  \/ UNCHANGED <<now, stamp, result, time_map>>
           \/ now' = now + 1 /\ now < Epoch + MaxTicks /\ UNCHANGED <<stamp, result, time_map>>
           \/ time_map' = Zero /\ UNCHANGED <<now, stamp, result>>
           \/ time_map' = result /\ UNCHANGED <<now, stamp, result>>
           \/ result' = stamp /\ UNCHANGED <<now, stamp, time_map>>
           \/ /\ result' = [stamp EXCEPT !.sec = handle_date_line(stamp, TRUE), !.form = "good"]
              /\ handle_date_line(stamp, TRUE) >= 0
              /\ UNCHANGED <<now, stamp, time_map>>
           \/ /\ stamp'.honest => stamp'.sec = Sec(now)
              /\ UNCHANGED <<now, result, time_map>>
<1>1. CASE ChildStep
  <2>1. CASE SetUp \/ DoConnect \/ ProxyHandshake
    BY <2>1 DEF SetUp, DoConnect, ProxyHandshake, Goto, parentVars, helperVars
  <2>2. CASE Send("ClientHello", "server_hello") \/ Send("request", "date")
    BY <2>2 DEF Send, Goto, parentVars
  <2>3. CASE ServerHello \/ Finished
    BY <2>3 DEF ServerHello, Finished, Receive, Goto, parentVars
  <2>4. CASE Inspect
    BY <2>4 DEF Inspect, parentVars
  <2>5. CASE child = "date" /\ read_http_date_from_bio
    <3>1. UNCHANGED <<now, stamp, time_map>>
      BY <2>5 DEF read_http_date_from_bio, parentVars
    <3>2. child' = "inspect" \/ result' = result
      BY <2>5 DEF read_http_date_from_bio
    <3> QED
      BY <2>5, <3>1, <3>2, DateTaken, Zenon
  <2> QED
    BY <1>1, <2>1, <2>2, <2>3, <2>4, <2>5 DEF ChildStep
<1>2. CASE ServerAnswers
  <2>1. UNCHANGED <<now, result, time_map>>
    BY <1>2 DEF ServerAnswers
  <2>2. stamp' = stamp \/ (stamp'.honest => stamp'.sec = Sec(now))
    BY <1>2 DEF ServerAnswers, Stamps
  <2> QED
    BY <2>1, <2>2, Zenon
<1>3. CASE Exec \/ Main \/ Collect \/ SetClock \/ Tick \/ Jump \/ Kill
  BY <1>3 DEF Exec, Main, Collect, SetClock, Tick, Jump, Kill
<1>4. CASE UNCHANGED helperVars
  BY <1>4 DEF helperVars
<1> QED
  BY <1>1, <1>2, <1>3, <1>4 DEF Next, ParentStep, Network, vars

\* A step keeps the times near.
LEMMA TimesNext ==
    ASSUME Epoch + MaxTicks < CENTURY * K, TimesNear, WireInv, TypeInv, [Next]_vars
    PROVE  TimesNear'
<1>0. /\ stamp \in Stamp /\ result \in Stamp /\ time_map \in Stamp /\ now \in Nat
      /\ Epoch \in Nat /\ MaxTicks \in Nat /\ Epoch <= now /\ now <= Epoch + MaxTicks
      /\ Near(stamp, now) /\ Near(result, now) /\ Near(time_map, now)
  BY HelperAssumption DEF TypeInv, TimesNear
<1>z. Near(Zero, now)
  BY DEF Near, Zero
<1>1. CASE UNCHANGED <<now, stamp, result, time_map>>
  BY <1>1 DEF TimesNear
<1>2. CASE now' = now + 1 /\ now < Epoch + MaxTicks /\ UNCHANGED <<stamp, result, time_map>>
  <2>1. now + 1 \in Nat /\ now <= now + 1 /\ now' \in Epoch .. Epoch + MaxTicks
    BY <1>0, <1>2
  <2>2. Near(stamp, now + 1) /\ Near(result, now + 1) /\ Near(time_map, now + 1)
    BY <1>0, <2>1, NearLater
  <2> QED
    BY <1>2, <2>1, <2>2 DEF TimesNear
<1>3. CASE (time_map' = Zero \/ time_map' = result) /\ UNCHANGED <<now, stamp, result>>
  BY <1>0, <1>3, <1>z DEF TimesNear
<1>4. CASE result' = stamp /\ UNCHANGED <<now, stamp, time_map>>
  BY <1>0, <1>4 DEF TimesNear
<1>5. CASE /\ result' = [stamp EXCEPT !.sec = handle_date_line(stamp, TRUE), !.form = "good"]
           /\ handle_date_line(stamp, TRUE) >= 0
           /\ UNCHANGED <<now, stamp, time_map>>
  <2>1. Near(result', now)
    BY <1>0, <1>5, NearDate
  <2> QED
    BY <1>0, <1>5, <2>1 DEF TimesNear
<1>6. CASE (stamp'.honest => stamp'.sec = Sec(now)) /\ UNCHANGED <<now, result, time_map>>
  <2>1. Near(stamp', now)
    BY <1>0, <1>6, NearNow
  <2> QED
    BY <1>0, <1>6, <2>1 DEF TimesNear
<1> QED
  BY <1>1, <1>2, <1>3, <1>4, <1>5, <1>6, TimesEffect

\* What steps do to the processes and the clock.
LEMMA ClockEffect ==
    ASSUME TypeInv, Verified, [Next]_vars
    PROVE  \/ Main \/ Collect \/ SetClock
           \/ /\ parent = "wait" /\ child # "exit0" /\ parent' = "wait"
              /\ \/ Tick
                 \/ jumped' /\ UNCHANGED now
              /\ UNCHANGED <<start, setBy>>
           \/ /\ parent' \in {parent, "main", "killed"} /\ (parent' = "main" => parent \in {"tlsdated", "main"})
              /\ parent' = "killed" => parent # "exit0"
              /\ child' = child \/ child \notin {"none", "exit0"}
              /\ UNCHANGED <<start, now, clock, jumped, setBy>>
              /\ time_map' = time_map \/ child # "exit0"
<1>1. CASE ChildStep
  <2>1. parent' = parent /\ UNCHANGED <<start, now, clock, jumped, setBy>>
    BY <1>1 DEF ChildStep, SetUp, DoConnect, ProxyHandshake, Send, ServerHello, Finished, Receive, Goto,
                read_http_date_from_bio, Inspect, parentVars, helperVars
  <2>2. child \notin {"none", "exit0"}
    BY <1>1 DEF ChildStep, SetUp, DoConnect, ProxyHandshake, Inspect
  <2> QED
    BY <2>1, <2>2, Zenon
<1>2. CASE Tick
  BY <1>2 DEF Tick, Running, Over
<1>3. CASE Jump
  BY <1>3 DEF Jump, Running, Over
<1>4. CASE Exec \/ Kill
  BY <1>4 DEF Exec, Kill
<1>5. CASE ServerAnswers
  BY <1>5 DEF ServerAnswers
<1>6. CASE UNCHANGED helperVars
  BY <1>6 DEF helperVars
<1> QED
  BY <1>1, <1>2, <1>3, <1>4, <1>5, <1>6 DEF Next, ParentStep, Network, vars

\* A step keeps the measure of the round trip.
LEMMA RoundTripNext ==
    ASSUME RoundTrip, TypeInv, Verified, [Next]_vars
    PROVE  RoundTrip'
<1>0. Epoch \in Nat /\ start \in Nat /\ now \in Nat /\ clock \in Nat
  BY HelperAssumption DEF TypeInv
<1>1. CASE Main
  <2>1. /\ parent = "main" /\ UNCHANGED <<now, jumped>>
        /\ \/ parent' = "died"
           \/ parent' = "wait" /\ start' = clock'
    BY <1>1 DEF Main, Die
  <2>2. clock' \in Nat
    BY <1>0, <1>1, HelperAssumption DEF Main
  <2> QED
    BY <1>0, <2>1, <2>2 DEF RoundTrip
<1>2. CASE Collect
  <2>1. /\ UNCHANGED <<now, jumped, start, clock, child>> /\ parent = "wait"
        /\ \/ parent' = "died"
           \/ parent' = "set" /\ child = "exit0" /\ rt_time <= TLS_RTT_UNREASONABLE
    BY <1>2 DEF Collect, Die
  <2> QED
    BY <2>1 DEF RoundTrip, rt_time
<1>3. CASE SetClock
  BY <1>3 DEF SetClock, Die, RoundTrip
<1>4. CASE parent' = "wait" /\ parent = "wait" /\ UNCHANGED start /\ (Tick \/ jumped')
  <2>1. CASE Tick
    <3>1. now' = now + 1 /\ clock' = clock + 1 /\ UNCHANGED jumped
      BY <2>1 DEF Tick
    <3>2. ~jumped => clock' - start' = now' - Epoch
      BY <1>0, <1>4, <3>1 DEF RoundTrip
    <3> QED
      BY <1>4, <3>1, <3>2 DEF RoundTrip
  <2>2. CASE jumped'
    BY <1>4, <2>2 DEF RoundTrip
  <2> QED
    BY <1>4, <2>1, <2>2
<1>5. CASE /\ parent' \in {parent, "main", "killed"} /\ (parent' = "main" => parent \in {"tlsdated", "main"})
           /\ child' = child \/ child \notin {"none", "exit0"}
           /\ UNCHANGED <<start, now, clock, jumped>>
  BY <1>5 DEF RoundTrip, rt_time
<1> QED
  BY <1>1, <1>2, <1>3, <1>4, <1>5, ClockEffect, Zenon

\* The arithmetic of the answer: half a round trip after a time that is near.
LEMMA HalfTrip ==
    ASSUME NEW sec \in Int, NEW n \in Nat, K * sec <= n, Epoch < K * sec + K,
           NEW rt \in Nat, rt <= TLS_RTT_UNREASONABLE,
           NEW c, c = (sec + (rt \div (2 * K))) * K
    PROVE  /\ c - n <= TLS_RTT_UNREASONABLE \div 2
           /\ rt = n - Epoch => n - c <= TLS_RTT_UNREASONABLE \div 2 + 2 * K
<1>1. K \in Nat \ {0} /\ TLS_RTT_UNREASONABLE \in Nat /\ Epoch \in Nat /\ 2 * K \in Nat \ {0}
  BY HelperAssumption
<1> DEFINE q == rt \div (2 * K)
           p == K * q
           s == K * sec
<1>2. q \in Nat /\ (2 * K) * q <= rt /\ rt < (2 * K) * q + 2 * K
  BY <1>1, DivBounds
<1>3. c = (sec + q) * K
  OBVIOUS
<1> HIDE DEF q
<1>4. p \in Nat /\ s \in Int /\ (2 * K) * q = 2 * p /\ (sec + q) * K = s + p
  BY <1>1, <1>2
<1>5. s <= n /\ Epoch < s + K /\ 2 * p <= rt /\ rt < 2 * p + 2 * K /\ c = s + p
  BY <1>2, <1>3, <1>4
<1> HIDE DEF p, s
<1> QED
  BY <1>1, <1>4, <1>5

\* The step that sets the clock.
LEMMA ClockIsSet ==
    ASSUME TimesNear, RoundTrip, TypeInv, SetClock, setBy' = "server", setBy # "server"
    PROVE  parent' = "exit0" /\ child' = "exit0" /\ ClockClose'
<1>1. /\ clock' = ServerTime * K /\ parent' = "exit0" /\ parent = "set"
      /\ UNCHANGED <<now, time_map, jumped, child, start>>
  BY DEF SetClock
<1>2. /\ time_map.sec \in Int /\ now \in Nat /\ clock \in Nat /\ start \in Nat /\ Epoch \in Nat
      /\ Epoch <= now
  BY HelperAssumption DEF TypeInv, Stamp, TimesNear
<1>3. child = "exit0" /\ rt_time <= TLS_RTT_UNREASONABLE /\ rt_time \in Nat
      /\ (~jumped => rt_time = now - Epoch)
  BY <1>1, <1>2 DEF RoundTrip, rt_time
<1>4. time_map.honest => K * time_map.sec <= now /\ Epoch < K * time_map.sec + K
  BY DEF TimesNear, Near
<1>5. clock' = (time_map.sec + (rt_time \div (2 * K))) * K
  BY <1>1 DEF ServerTime
<1>6. time_map.honest => /\ clock' - now <= TLS_RTT_UNREASONABLE \div 2
                         /\ ~jumped => now - clock' <= TLS_RTT_UNREASONABLE \div 2 + 2 * K
  BY <1>2, <1>3, <1>4, <1>5, HalfTrip
<1> QED
  BY <1>1, <1>3, <1>6 DEF ClockClose

\* A step sets the clock well or leaves it alone once it has been set.
LEMMA SettledNext ==
    ASSUME ClockInv, TypeInv, Verified, [Next]_vars
    PROVE  Settled' /\ ClockClose'
<1> SUFFICES ASSUME setBy' = "server"
             PROVE  parent' = "exit0" /\ child' = "exit0" /\ ClockClose'
  BY DEF Settled, ClockClose
<1>1. CASE setBy # "server"
  <2>1. SetClock
    <3>1. ~Main
      BY <1>1 DEF Main
    <3>2. ~Collect
      BY <1>1 DEF Collect
    <3> QED
      BY <1>1, <3>1, <3>2, ClockEffect
  <2> QED
    BY <1>1, <2>1, ClockIsSet DEF ClockInv
<1>2. CASE setBy = "server"
  <2>1. parent = "exit0" /\ child = "exit0" /\ ClockClose
    BY <1>2 DEF ClockInv, Settled
  <2>2. ~Main /\ ~Collect /\ ~SetClock
    BY <2>1 DEF Main, Collect, SetClock
  <2>3. parent' = "exit0" /\ child' = "exit0" /\ UNCHANGED <<now, clock, jumped, time_map>>
    BY <2>1, <2>2, ClockEffect
  <2> QED
    BY <1>2, <2>1, <2>3 DEF ClockClose
<1> QED
  BY <1>1, <1>2

\* The clock at the start.
LEMMA ClockStart ==
    ASSUME Init
    PROVE  ClockInv
<1>1. /\ now = Epoch /\ ~jumped /\ parent \in {"tlsdated", "main", "exit0"} /\ setBy = "none"
      /\ stamp = Zero /\ result = Zero /\ time_map = Zero
  BY DEF Init
<1>2. now \in Epoch .. Epoch + MaxTicks
  BY <1>1, HelperAssumption
<1> QED
  BY <1>1, <1>2 DEF ClockInv, TimesNear, RoundTrip, Settled, ClockClose, Near, Zero

\* After an exchange with an honest server the clock is off by at most half of
\* TLS_RTT_UNREASONABLE, and two seconds more if it is behind and nobody else
\* has moved it: directly or through a proxy, with -s, -w, -t and -l or not.
\* The exchange takes place less than a century after 1970, as a date with a
\* year of two digits would otherwise be taken for one a century before.
THEOREM ClockIsClose ==
    ASSUME Epoch + MaxTicks < CENTURY * K
    PROVE  Spec => []ClockClose
<1>1. Init => TypeInv /\ ClockInv
  BY TypeStart, ClockStart
<1>2. TypeInv /\ [Next]_vars => TypeInv'
  BY TypeNext
<1>3. ClockInv /\ WireInv /\ TypeInv /\ Verified /\ [Next]_vars => ClockInv'
  BY TimesNext, RoundTripNext, SettledNext DEF ClockInv
<1>4. AnswerInv => Verified
  BY DEF AnswerInv
<1>5. ClockInv => ClockClose
  BY DEF ClockInv
<1> QED
  BY <1>1, <1>2, <1>3, <1>4, <1>5, AnswerInvariance, WireInvariance, PTL DEF Spec
=============================================================================
