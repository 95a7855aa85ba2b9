-------------------------- MODULE DNSCryptExchange --------------------------
(***************************************************************************)
(* upstream/dnscrypt.go and dnscrypt/client.go: one exchange with a        *)
(* DNSCrypt server, composed with the receipt it reports to                *)
(* (ExchangeState).  The exchange obtains the server's certificate, asks   *)
(* over UDP, and asks again over TCP if the reply is truncated.  How       *)
(* several exchanges share the certificate is in DNSCryptCertificate.      *)
(*                                                                         *)
(* The network is the environment: a dial, a write or a read fails (its    *)
(* deadline and a cancelled context, which closes the socket, included) or *)
(* not.  A ciphertext is seen as a whole by Received before Decoded learns *)
(* what is in it: whether it opens and unpacks, QR, the identifier, the    *)
(* question and TC.                                                        *)
(***************************************************************************)
EXTENDS ExchangeState, Sequences

CONSTANTS Records,    \* answer records: see Usable
          MaxRecords, \* bound of the records in a certificate answer
          MaxStrays,  \* bound of the stray datagrams before it
          Today       \* time.Now() of the certificate's dates

VARIABLES at,         \* where the worker is, see the actions
          udp,        \* dnsCryptReceipt.udp: the exchange is not yet over TCP
          strays,     \* datagrams with another identifier that fetchCert skipped
          offered,    \* the records parseAnswer is given
          cert,       \* the certificate it returns
          held,       \* dnsCryptReceipt.ticket
          resp, err,  \* what ExchangeContext and Exchange return
          sockets,    \* open sockets
          dropped     \* history: Abandon was called

stepVars == <<at, udp, strays, offered, cert, held, resp, err, sockets>>
exchangeVars == <<vars, stepVars, dropped>>

Nil == "nil"
NoMsg == [none |-> TRUE]
NoCert == [serial |-> 0]
Msgs == [opens : BOOLEAN, qr : BOOLEAN, sameId : BOOLEAN, question : BOOLEAN, tc : BOOLEAN]
IOErrors == {"timeout", "conn"}

CryptInit ==
  /\ Init
  /\ at = "call" /\ udp = TRUE /\ strays = 0 /\ offered = <<>> /\ cert = NoCert
  /\ held = 0 /\ resp = NoMsg /\ err = Nil /\ sockets = 0 /\ dropped = FALSE

Fails(e, to) == at' = to /\ err' = e /\ resp' = NoMsg

ExchangeCall ==
  /\ at = "call"
  /\ \E id \in Ids : start(id)
  /\ at' = "certificate"
  /\ UNCHANGED <<udp, strays, offered, cert, held, resp, err, sockets, dropped>>

-----------------------------------------------------------------------------
\* certificate: a shared one is used, the context is done, or one is fetched:
\* fetchCert dials, asks for the TXT records and closes its socket on return.
UseShared ==
  /\ at = "certificate"
  /\ at' = "dial"
  /\ UNCHANGED <<vars, udp, strays, offered, cert, held, resp, err, sockets, dropped>>

NoCertificate ==
  /\ at = "certificate"
  /\ \E e \in IOErrors : Fails(e, "finish")
  /\ UNCHANGED <<vars, udp, strays, offered, cert, held, sockets, dropped>>

FetchCert ==
  /\ at = "certificate"
  /\ at' = "fetch" /\ sockets' = sockets + 1
  /\ UNCHANGED <<vars, udp, strays, offered, cert, held, resp, err, dropped>>

\* A datagram with another identifier is skipped, the socket's deadline stands.
SkipStray ==
  /\ at = "fetch" /\ strays < MaxStrays
  /\ strays' = strays + 1
  /\ UNCHANGED <<vars, at, udp, offered, cert, held, resp, err, sockets, dropped>>

\* The write or the read fails, or the server answers with an error code.
FetchFails ==
  /\ at = "fetch"
  /\ \E e \in IOErrors \cup {"other"} : Fails(e, "finish")
  /\ sockets' = sockets - 1
  /\ UNCHANGED <<vars, udp, strays, offered, cert, held, dropped>>

verifyDate(c) == c.from < c.to /\ Today \in c.from .. c.to
Usable(r) == r.txt /\ r.unmarshals /\ verifyDate(r) /\ r.signed

SerialOnly(prev, cur) == prev.serial <= cur.serial

certHasHigherPriority(prev, cur) ==
  \/ prev.serial < cur.serial
  \/ prev.serial = cur.serial /\ cur.es > prev.es

\* The certificate after the first i records.
parseAnswer(answer) ==
  LET best[i \in 0 .. Len(answer)] ==
        IF i = 0 THEN NoCert
        ELSE IF /\ Usable(answer[i])
                /\ best[i - 1] = NoCert \/ certHasHigherPriority(best[i - 1], answer[i])
        THEN answer[i] ELSE best[i - 1]
  IN  best[Len(answer)]

AnswersOf == UNION {[1 .. n -> Records] : n \in 0 .. MaxRecords}

ReadAnswer(answer) ==
  /\ at = "fetch"
  /\ offered' = answer /\ cert' = parseAnswer(answer)
  /\ at' = "chosen" /\ sockets' = sockets - 1
  /\ UNCHANGED <<vars, udp, strays, held, resp, err, dropped>>

\* No valid record, or the verification callback's choice.
VerifyCert ==
  /\ at = "chosen"
  /\ \/ cert # NoCert /\ at' = "dial" /\ UNCHANGED <<resp, err>>
     \/ Fails("other", "finish")
  /\ offered' = <<>> /\ cert' = NoCert
  /\ UNCHANGED <<vars, udp, strays, held, sockets, dropped>>

-----------------------------------------------------------------------------
\* ExchangeContext with a socket of its own.
Dial ==
  /\ at = "dial"
  /\ \/ at' = "write" /\ sockets' = sockets + 1 /\ UNCHANGED <<resp, err>>
     \/ \E e \in IOErrors : Fails(e, "finish") /\ UNCHANGED sockets
  /\ UNCHANGED <<vars, udp, strays, offered, cert, held, dropped>>

\* ExchangeConnContext: the context, the encryption (a query may be too large)
\* and the write.
Write ==
  /\ at = "write"
  /\ \/ at' = "read" /\ UNCHANGED <<resp, err>>
     \/ \E e \in IOErrors \cup {"other"} : Fails(e, "close")
  /\ UNCHANGED <<vars, udp, strays, offered, cert, held, sockets, dropped>>

ReadError ==
  /\ at = "read"
  /\ \E e \in IOErrors : Fails(e, "close")
  /\ UNCHANGED <<vars, udp, strays, offered, cert, held, sockets, dropped>>

\* One message is read; the candidate is reserved before it is opened.
Received ==
  /\ at = "read"
  /\ reserveCandidate
  /\ held' = Issued /\ at' = "decode"
  /\ UNCHANGED <<udp, strays, offered, cert, resp, err, sockets, dropped>>

Valid(m) == m.opens /\ m.qr /\ m.sameId /\ m.question
TruncatedIsNeverFinal(m) == Valid(m) /\ ~m.tc
Final(m) == Valid(m) /\ ~(udp /\ m.tc)
LabelOf(m) == IF ~udp THEN "tcp" ELSE IF m.tc THEN "truncated" ELSE "udp"

\* A ciphertext that fails to open, or a reply to something else, ends the
\* exchange: there is no second read.
Decoded(m) ==
  /\ at = "decode"
  /\ IF held = 0 THEN UNCHANGED vars
     ELSE IF Final(m) THEN accept(held, LabelOf(m)) ELSE reject(held)
  /\ held' = 0
  /\ IF Valid(m) THEN at' = "close" /\ resp' = m /\ UNCHANGED err
                 ELSE Fails("protocol", "close")
  /\ UNCHANGED <<udp, strays, offered, cert, sockets, dropped>>

\* The deferred Close of ExchangeContext: its error joins the result's.
CloseConn ==
  /\ at = "close"
  /\ sockets' = sockets - 1
  /\ at' = "fallback"
  /\ \/ UNCHANGED err
     \/ err = Nil /\ err' = "conn"
  /\ UNCHANGED <<vars, udp, strays, offered, cert, held, resp, dropped>>

ContinuesOverTCP == udp /\ err = Nil /\ resp \in Msgs /\ resp.tc

Fallback ==
  /\ at = "fallback"
  /\ IF ContinuesOverTCP
       THEN at' = "dial" /\ udp' = FALSE /\ resp' = NoMsg
       ELSE at' = "finish" /\ UNCHANGED <<udp, resp>>
  /\ UNCHANGED <<vars, strays, offered, cert, held, err, sockets, dropped>>

Finish ==
  /\ at = "finish"
  /\ finish(err)
  /\ at' = "returned"
  /\ UNCHANGED <<udp, strays, offered, cert, held, resp, err, sockets, dropped>>

Worker ==
  \/ ExchangeCall \/ UseShared \/ NoCertificate \/ FetchCert \/ SkipStray \/ FetchFails
  \/ \E answer \in AnswersOf : ReadAnswer(answer)
  \/ VerifyCert \/ Dial \/ Write \/ ReadError \/ Received
  \/ \E m \in Msgs : Decoded(m)
  \/ CloseConn \/ Fallback \/ Finish

\* The group and the clock.
Others ==
  \/ (Expire \/ Tick) /\ UNCHANGED <<stepVars, dropped>>
  \/ Abandon /\ dropped' = TRUE /\ UNCHANGED stepVars

CryptNext == Worker \/ Others

CryptSpec == CryptInit /\ [][CryptNext]_exchangeVars

-----------------------------------------------------------------------------
\* Where the worker can be and what it can hold.
CryptTypeOK ==
  /\ at \in {"call", "certificate", "fetch", "chosen", "dial", "write", "read", "decode",
             "close", "fallback", "finish", "returned"}
  /\ udp \in BOOLEAN /\ strays \in 0 .. MaxStrays /\ held \in 0 .. MaxTickets
  /\ offered \in AnswersOf /\ cert \in Records \cup {NoCert}
  /\ resp \in Msgs \cup {NoMsg} /\ err \in IOErrors \cup {Nil, "other", "protocol"}
  /\ sockets \in 0 .. 1 /\ dropped \in BOOLEAN

\* The certificate that parseAnswer is to choose: the first of the valid ones with
\* the highest serial and, among these, the highest version of the construction.
Preferred(answer) ==
  LET valid == {i \in DOMAIN answer : Usable(answer[i])}
      latest == {i \in valid : \A j \in valid : answer[j].serial <= answer[i].serial}
      newest == {i \in latest : \A j \in latest : answer[j].es <= answer[i].es}
  IN  IF valid = {} THEN NoCert ELSE answer[CHOOSE i \in newest : \A j \in newest : i <= j]

\* certificate.go, on Serial: "If more than one certificates are valid, the client
\* must prefer the certificate with a higher serial number", in whatever order the
\* server lists them and whatever invalid ones are among them.
ChoosesPreferred == at = "chosen" => cert = Preferred(offered)

\* client.go, on ResponseObserver: Decoded always follows Received, "even on
\* failure, before connection cleanup", and "a rejected candidate cannot cover
\* another read or retry": a reservation exists only while its ciphertext is opened.
ReservedOnlyWhileOpening == reserved => at = "decode" /\ held = ticket

\* The receipt has an answer only if Exchange returns that message, which passed
\* every check; and a success that Exchange returns, never a truncated datagram,
\* was published unless the group or the cutoff ended the exchange before it.
CryptReceiptAgrees ==
  at = "returned" =>
    /\ result.answer # NoAnswer =>
         resp \in Msgs /\ Final(resp) /\ result.answer = LabelOf(resp)
    /\ err = Nil =>
         /\ resp \in Msgs /\ Final(resp)
         /\ ~sealed /\ ~dropped /\ ~PastCutoff => result.answer # NoAnswer

\* The exchange has its decision, the call has returned, no socket is open.
ExchangeEnded == at = "returned" /\ finished /\ sockets = 0
=============================================================================
