------------------------------ MODULE ProxyBio ------------------------------
(***************************************************************************)
(* The proxy BIO (proxy-bio.c): a filter between OpenSSL and the socket    *)
(* whose first write runs the handshake of a SOCKS4a, SOCKS5 or HTTP proxy *)
(* before it lets TLS bytes pass.  A stream socket delivers what the proxy *)
(* sends in pieces of any size, so a read may return less than was asked   *)
(* for.  The words this side writes are whole messages; what it reads are  *)
(* single bytes, or stretches of text no read boundary matters in.         *)
(***************************************************************************)
EXTENDS Integers, Sequences

CONSTANTS
    AddrTypes,   \* address types a SOCKS5 proxy may put in its reply
    NetFaults    \* subset of NetworkFaults

NetworkFaults == {"short", "close", "reset", "longhost"}

ASSUME ProxyAssumption ==
    /\ AddrTypes \subseteq {"domain", "ipv4", "ipv6"} /\ AddrTypes # {}
    /\ NetFaults \subseteq NetworkFaults

VARIABLES
    connect,   \* ctx->connect, "NULL" before a known type is set, "none"
               \* when there is no proxy BIO on the chain
    bio,       \* where the callback is; "up": it returned 1, "failed": 0,
               \* "broken": -1
    line,      \* what sock_gets has read of the current line, or "empty"
    left,      \* bytes of a SOCKS5 address still to be read
    sent,      \* messages written and not read by the peer yet
    wire,      \* bytes the peer has written and this side has not read
    arrived,   \* how many of those are in the socket's buffer
    link,      \* the TCP connection
    tunnel     \* history: what the proxy answered

proxyVars == <<connect, bio, line, left, sent, wire, arrived, link, tunnel>>
linkVars == <<connect, sent, link, tunnel>>

BioPC == {"idle", "up", "failed", "broken", "abort", "s4_reply", "s5_method",
          "s5_request", "s5_reply", "s5_len", "s5_addr", "s5_ipv4", "http_host",
          "http_blank", "http_status", "http_header"}

\* ctx->connected is set just before a callback returns 1.
Connected == bio = "up" \/ connect = "none"

\* What the callbacks write, and what only the TLS layer writes.
Messages == {"connect4", "hello", "connect5", "CONNECT", "Host", "blank"}
AppData == {"ClientHello", "request"}

\* The bytes of a proxy, and the bytes and pieces of text of a server; those
\* in FromProxy can only be a proxy's.
FromProxy == {"x", "0", "5", "granted", "rejected", "ok", "fail", "\n", "\r", "h"}
ProxyBytes == FromProxy \cup {"noauth", "denied", "domain", "ipv4", "ipv6", "2xx", "4xx", "long"}
Text == {"hdr", "Date", "d", "ate", "\r\n"}
Bytes == ProxyBytes \cup {"hello", "fin", "alert"} \cup Text

-----------------------------------------------------------------------------
(* The socket under the BIO.                                               *)

\* BIO_write: all of the message, part of it, or an error.
Write(u, next, err) ==
    /\ \/ link \in {"open", "eof"} /\ sent' = Append(sent, u) /\ bio' = next
       \/ /\ link \in {"open", "eof"} /\ "short" \in NetFaults
          /\ bio' = "failed"
          /\ UNCHANGED sent
       \/ link = "reset" /\ bio' = err /\ UNCHANGED sent
    /\ UNCHANGED <<connect, line, left, wire, arrived, link, tunnel>>

\* A read returns when there is something to return.
Readable == arrived > 0 \/ link = "reset" \/ (link = "eof" /\ wire = <<>>)

\* How many of n bytes it returns: 0 at the end of the stream or on an error.
Got(n) == IF arrived < n THEN arrived ELSE n

Consume(r) ==
    /\ wire' = SubSeq(wire, r + 1, Len(wire))
    /\ arrived' = arrived - r

\* BIO_read of n bytes that must all come at once; next is where they lead.
Read(n, err, next) ==
    /\ Readable
    /\ Consume(Got(n))
    /\ bio' = IF Got(n) = n THEN next
              ELSE IF Got(n) = 0 /\ link = "reset" THEN err ELSE "failed"
    /\ UNCHANGED <<linkVars, line>>

-----------------------------------------------------------------------------
(* The three callbacks.                                                    *)

socks4a_connect ==
    /\ connect = "socks4a"
    /\ \/ bio = "idle" /\ Write("connect4", "s4_reply", "broken")
       \/ /\ bio = "s4_reply"
          /\ Read(8, "broken", IF wire[2] = "granted" THEN "up" ELSE "failed")
          /\ UNCHANGED left

\* Where the fixed part of a SOCKS5 reply leads.
AfterReply ==
    IF wire[1] # "5" \/ wire[2] # "ok" THEN "failed"
    ELSE IF wire[4] = "domain" THEN "s5_len"
    ELSE IF wire[4] = "ipv4" THEN "s5_ipv4" ELSE "up"

\* Mutant: the port after an IPv4 address is left unread.
Ipv4Tail_NoPort == 4

\* 4 bytes of address, 2 of port.
Ipv4Tail == 6

\* Mutant: the end of the stream is taken for an empty read.
AddressLoop_NoEnd ==
    /\ Readable
    /\ Consume(Got(left))
    /\ left' = left - Got(left)
    /\ bio' = IF left' = 0 THEN "up" ELSE bio
    /\ UNCHANGED <<linkVars, line>>

\* while (len): the address may come in any number of pieces.
AddressLoop ==
    /\ Readable
    /\ Consume(Got(left))
    /\ left' = left - Got(left)
    /\ bio' = IF Got(left) = 0 THEN "failed" ELSE IF left' = 0 THEN "up" ELSE bio
    /\ UNCHANGED <<linkVars, line>>

socks5_connect ==
    /\ connect = "socks5"
    /\ \/ bio = "idle" /\ Write("hello", "s5_method", "failed")
       \/ /\ bio = "idle" /\ "longhost" \in NetFaults
          /\ bio' = "failed"
          /\ UNCHANGED <<linkVars, line, left, wire, arrived>>
       \/ /\ bio = "s5_method"
          /\ Read(2, "failed", IF wire[1] = "5" /\ wire[2] = "noauth" THEN "s5_request" ELSE "failed")
          /\ UNCHANGED left
       \/ bio = "s5_request" /\ Write("connect5", "s5_reply", "broken")
       \/ bio = "s5_reply" /\ Read(4, "broken", AfterReply) /\ UNCHANGED left
       \/ /\ bio = "s5_len"
          /\ Read(1, "failed", "s5_addr")
          /\ left' = 3
       \/ bio = "s5_addr" /\ AddressLoop
       \/ /\ bio = "s5_ipv4"
          /\ Read(Ipv4Tail, "failed", "up")
          /\ UNCHANGED left

\* One byte of sock_gets; a line that does not fit the buffer is an error.  At
\* its end the line is compared with the one that is wanted.
sock_gets(wanted, yes, no) ==
    /\ Readable
    /\ Consume(Got(1))
    /\ IF Got(1) = 0 \/ wire[1] = "long"
       THEN bio' = "failed" /\ UNCHANGED line
       ELSE IF wire[1] = "\n"
            THEN bio' = (IF line = wanted THEN yes ELSE no) /\ line' = "empty"
            ELSE line' = (IF line = "empty" THEN wire[1] ELSE line) /\ UNCHANGED bio
    /\ UNCHANGED <<linkVars, left>>

http_connect ==
    /\ connect = "http"
    /\ \/ bio = "idle" /\ Write("CONNECT", "http_host", "broken")
       \/ bio = "http_host" /\ Write("Host", "http_blank", "broken")
       \/ bio = "http_blank" /\ Write("blank", "http_status", "broken")
       \/ bio = "http_status" /\ sock_gets("2xx", "http_header", "failed")
       \/ bio = "http_header" /\ sock_gets("\r", "up", "http_header")

\* assert (ctx->connect)
NoCallback ==
    /\ connect = "NULL" /\ bio = "idle"
    /\ bio' = "abort"
    /\ UNCHANGED <<linkVars, line, left, wire, arrived>>

\* One step of ctx->connect, from the first proxy_write or proxy_read.
ConnectStep == socks4a_connect \/ socks5_connect \/ http_connect \/ NoCallback

\* Mutant: the result of the callback is not looked at.
MayPass_Always == bio \in {"up", "failed", "broken"} \/ connect = "none"

\* Bytes of the TLS layer go on to the socket: any result but 0 lets them pass.
MayPass == Connected \/ bio = "broken"

\* proxy_write or proxy_read returns without touching the socket.
Refused == bio \in {"failed", "abort"}

-----------------------------------------------------------------------------
(* The proxy, and the network between.                                     *)

Pad(n) == [i \in 1 .. n |-> "x"]

Address(a) == IF a = "domain" THEN <<"x">> \o Pad(3)
              ELSE IF a = "ipv4" THEN Pad(6) ELSE Pad(18)

\* The answers a proxy may give to a message, each with what it means.
Answers(u) ==
    CASE u = "connect4" -> {<<"granted", <<"0", "granted">> \o Pad(6)>>,
                            <<"refused", <<"0", "rejected">> \o Pad(6)>>}
      [] u = "hello"    -> {<<"wait", <<"5", "noauth">>>>, <<"refused", <<"5", "denied">>>>}
      [] u = "connect5" -> {<<"refused", <<"5", "fail", "x", "ipv4">> \o Pad(6)>>}
                            \cup {<<IF a = "ipv6" THEN "granted6" ELSE "granted",
                                    <<"5", "ok", "x", a>> \o Address(a)>> : a \in AddrTypes}
      [] u = "blank"    -> {<<"granted", <<"2xx", "\n", "h", "\n", "\r", "\n">>>>,
                            <<"refused", <<"4xx", "\n", "\r", "\n">>>>,
                            <<"refused", <<"2xx", "\n", "long">>>>}
      [] OTHER          -> {<<"wait", <<>>>>}

ProxyAnswers ==
    /\ connect # "none" /\ link = "open" /\ tunnel = "wait"
    /\ sent # <<>>
    /\ sent' = Tail(sent)
    /\ \E a \in Answers(Head(sent)) : tunnel' = a[1] /\ wire' = wire \o a[2]
    /\ UNCHANGED <<connect, bio, line, left, arrived, link>>

\* Some of the bytes on their way reach the socket.
Arrive ==
    /\ link # "reset"
    /\ arrived' \in (arrived + 1) .. Len(wire)
    /\ UNCHANGED <<connect, bio, line, left, sent, wire, link, tunnel>>

\* The peer closes the connection in order, or it breaks.
Close ==
    /\ link = "open"
    /\ \/ "close" \in NetFaults /\ link' = "eof" /\ UNCHANGED wire
       \/ /\ "reset" \in NetFaults
          /\ link' = "reset" /\ wire' = SubSeq(wire, 1, arrived)
    /\ UNCHANGED <<connect, bio, line, left, sent, arrived, tunnel>>

ProxyTypeOK ==
    /\ connect \in {"none", "NULL", "socks4a", "socks5", "http"}
    /\ bio \in BioPC
    /\ line \in Bytes \cup {"empty"} /\ left \in 0 .. 3
    /\ sent \in Seq(Messages \cup AppData) /\ wire \in Seq(Bytes)
    /\ arrived \in 0 .. Len(wire)
    /\ link \in {"none", "open", "eof", "reset"}
    /\ tunnel \in {"wait", "granted", "granted6", "refused"}

\* No TLS byte is written to a proxy that has not granted the connection,
\* however its answer is cut into pieces and whatever breaks: the handshake
\* of the peer never sees, or is mixed with, what the proxy said.
NoEarlyData ==
    connect # "none" /\ (\E i \in 1 .. Len(sent) : sent[i] \in AppData) =>
        tunnel \in {"granted", "granted6"}

\* Once a callback has returned 1 the whole answer of the proxy has been read
\* and no byte after it: TLS starts at the right place of the stream.  (An
\* IPv6 address in a SOCKS5 reply is not skipped: its bytes remain.)
TunnelAligned ==
    connect # "none" /\ Connected /\ tunnel = "granted" =>
        \A i \in 1 .. Len(wire) : wire[i] \notin FromProxy
=============================================================================
