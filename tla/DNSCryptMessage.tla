-------------------------- MODULE DNSCryptMessage --------------------------
(***************************************************************************)
(* The lengths of one DNSCrypt query and its response on their way through *)
(* the client (dnscrypt/client.go) and the server (serverudp.go,           *)
(* servertcp.go): padding, encryption, the client's and the server's read  *)
(* buffers, the server's truncation (dns.go, normalize) and the two-byte   *)
(* length prefix of TCP.  Of a message only the number of its bytes is     *)
(* kept.  A datagram longer than the reader's buffer arrives cut off, and  *)
(* a ciphertext that was cut off does not open.                            *)
(***************************************************************************)
EXTENDS Naturals, FiniteSetsExt

CONSTANTS QueryLens, ReplyLens,  \* lengths of packed DNS messages
          Advertised             \* EDNS UDP sizes of requests; 0 is no OPT record

VARIABLES proto, advertised, query, reply,
          at,     \* the step
          wire,   \* bytes of the datagram or the frame under way
          whole,  \* it was not cut off
          opened  \* bytes of the DNS message that the reader unpacks

msgVars == <<proto, advertised, query, reply, at, wire, whole, opened>>

MinMsgSize == 512
MaxMsgSize == 65535
minDNSPacketSize == 12 + 5
minUDPQuestionSize == 256
TagSize == 16
QueryHeader == 8 + 32 + 12    \* client magic, public key, half a nonce
ResponseHeader == 8 + 24      \* resolver magic, nonce

clientUDPSize == MinMsgSize   \* newDNSCrypt leaves ClientConfig.UDPSize unset
serverUDPSize == 1252         \* defaultUDPSize

MsgInit ==
  /\ proto \in {"udp", "tcp"} /\ advertised \in Advertised
  /\ query \in QueryLens /\ reply = 0
  /\ at = "query" /\ wire = 0 /\ whole = TRUE /\ opened = 0

\* Padding that forgets the byte it starts with.
PadWithoutMark(n) == Max({n + ((64 - (n % 64)) % 64), minUDPQuestionSize})

pad(n) == Max({n + 1 + (64 - ((n + 1) % 64)), minUDPQuestionSize})

Seal(header, n) == header + TagSize + pad(n)

\* decrypt and unpad: the packet's length, or 0 for an error.
Open(header, n) ==
  IF whole /\ wire >= header + TagSize + minDNSPacketSize /\ n >= minDNSPacketSize
    THEN n ELSE 0

maxQuerySize == IF proto = "tcp" THEN MaxMsgSize ELSE clientUDPSize

ClientSends ==
  /\ at = "query"
  /\ wire' = Seal(QueryHeader, query)
  /\ at' = IF wire' > maxQuerySize THEN "too large" ELSE "sent"
  /\ UNCHANGED <<proto, advertised, query, reply, whole, opened>>

\* What a read into a buffer of the given size leaves of a datagram.
Receive(size) ==
  /\ whole' = (proto = "tcp" \/ wire <= size)
  /\ wire' = IF whole' THEN wire ELSE size

ServerReads ==
  /\ at = "sent"
  /\ Receive(serverUDPSize)
  /\ at' = "received"
  /\ UNCHANGED <<proto, advertised, query, reply, opened>>

ServerOpens ==
  /\ at = "received"
  /\ opened' = Open(QueryHeader, query)
  /\ at' = IF opened' = 0 THEN "ignored" ELSE "handle"
  /\ UNCHANGED <<proto, advertised, query, reply, wire, whole>>

dnsSize == IF proto = "udp" THEN Max({advertised, MinMsgSize}) ELSE MaxMsgSize

\* dns.Msg.Truncate does not truncate below MinMsgSize.
TruncateAt(size) == Max({size, MinMsgSize})

\* normalize: what the handler's message of n bytes, with TC set or not, may be
\* reduced to.  Over UDP a truncated message loses all its answers.
normalize(n, tc) ==
  LET limit == TruncateAt(dnsSize - 64)
  IN  IF n <= limit /\ ~(tc /\ proto = "udp")
        THEN {n} ELSE {k \in ReplyLens : k <= limit /\ k <= n}

\* The handler writes a message: WriteMsg normalizes, encrypts and sends it, over
\* TCP unless its length does not fit into the prefix.
ServerSends(n, tc) ==
  /\ at = "handle"
  /\ reply' \in normalize(n, tc)
  /\ wire' = Seal(ResponseHeader, reply')
  /\ at' = IF proto = "tcp" /\ wire' > MaxMsgSize THEN "unsent" ELSE "replied"
  /\ whole' = TRUE /\ opened' = 0
  /\ UNCHANGED <<proto, advertised, query>>

ClientReads ==
  /\ at = "replied"
  /\ Receive(clientUDPSize)
  /\ at' = "read"
  /\ UNCHANGED <<proto, advertised, query, reply, opened>>

ClientOpens ==
  /\ at = "read"
  /\ opened' = Open(ResponseHeader, reply)
  /\ at' = IF opened' = 0 THEN "failed" ELSE "answered"
  /\ UNCHANGED <<proto, advertised, query, reply, wire, whole>>

MsgNext ==
  \/ ClientSends \/ ServerReads \/ ServerOpens
  \/ \E n \in ReplyLens, tc \in BOOLEAN : ServerSends(n, tc)
  \/ ClientReads \/ ClientOpens

-----------------------------------------------------------------------------
\* The padding of encryption.go's comment: the padded length is a multiple of 64
\* and at least 256, and the padding has 1 to 256 bytes.
PaddingIsISO ==
  \A n \in QueryLens \cup ReplyLens :
    pad(n) % 64 = 0 /\ pad(n) >= minUDPQuestionSize /\ pad(n) - n \in 1 .. 256

\* Every query that the client does not refuse reaches the handler unchanged, and
\* every response that fits the client's buffer after encryption opens: the
\* limits of the two sides, and their minimum lengths, agree.
PeersAgree ==
  /\ PaddingIsISO
  /\ at = "received" => whole
  /\ at # "ignored"
  /\ at = "failed" => ~whole
  /\ at = "answered" => opened = reply

\* dns.go, on the truncation: "DNSCrypt encryption adds a header to each message,
\* we should consider this when truncating a message.  64 should cover all cases."
\* A response is then never longer than the client has room for.
RepliesFit == at = "replied" => wire <= dnsSize
=============================================================================
