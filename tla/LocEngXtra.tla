----------------------------- MODULE LocEngXtra -----------------------------
(***************************************************************************)
(* The data the framework and the modem exchange through the HAL: time,    *)
(* positions, XTRA files and certificates on their way in, and the modem's *)
(* requests for them on their way out (loc.cpp, loc_eng.cpp,               *)
(* loc_eng_xtra.cpp, LocEngAdapter.cpp), with the user agent of the XTRA   *)
(* downloads.                                                              *)
(*                                                                         *)
(* loc_init creates the adapter, which the modem may call from then on,    *)
(* and only then sets its flags.  The adapter is never destroyed: a later  *)
(* loc_init keeps it, and sets the flags again.  Items of data are         *)
(* counted; a string is a sequence of "a", a plain character, and "/", one *)
(* that is encoded.  The three XTRA servers go by their number, and xtra1  *)
(* says which of them are at xtra1.gpsonextra.net.                         *)
(***************************************************************************)
EXTENDS Integers, Sequences, SequencesExt

CONSTANTS Slots,          \* the slots of AGPS_CERT_WRITABLE_MASK
          SizeOf,         \* bound: bytes of a property value, PROPERTY_VALUE_MAX
          MaxData,        \* bound: items of data the framework gives
          MaxAsked,       \* bound: requests of the modem
          MaxInits        \* bound: calls of loc_init

VARIABLES phase,          \* of loc_init: "none", "adapter", "done"
          inits,          \* calls of loc_init
          extended,       \* the LBS library has the CPI and AGPS capabilities
          mSupportsAgpsRequests, mSupportsPositionInjection, mSupportsTimeInjection,
          download_request_cb,
          xq,             \* the MsgTask queue
          gave, has,      \* per kind, items given by the framework, and got by the modem
          installed,      \* number of certificates the modem was given at once
          taken, told,    \* requests the adapter took, and the framework heard of
          mServers,       \* what was reported and what the forwarding buffer holds
          userAgent       \* a property, and its place in the user agent

flags == <<mSupportsAgpsRequests, mSupportsPositionInjection, mSupportsTimeInjection>>
data == <<gave, has, installed>>
asked == <<taken, told, mServers>>
vars == <<phase, inits, extended, flags, download_request_cb, xq, data, asked, userAgent>>

Kinds == {"time", "location", "xtra", "certs"}
Strings == UNION {[1..n -> {"a", "/"}] : n \in 0..(SizeOf - 1)}
Empty == [s |-> <<>>, out |-> <<>>]

Item(k) == [op |-> "Item", kind |-> k]
Certs(n) == [op |-> "Certs", n |-> n]
Servers(s) == [op |-> "Servers", xtra1 |-> s]
Msg(o) == [op |-> o]

TypeOK == /\ phase \in {"none", "adapter", "done"} /\ inits \in 0..MaxInits
          /\ {extended, download_request_cb} \subseteq BOOLEAN
          /\ flags \in BOOLEAN \X BOOLEAN \X BOOLEAN
          /\ gave \in [Kinds -> 0..MaxData] /\ has \in [Kinds -> 0..MaxData]
          /\ installed \in 0..Slots
          /\ taken \in 0..MaxAsked /\ told \in 0..MaxAsked

Init == /\ phase = "none" /\ inits = 0 /\ extended \in BOOLEAN
        /\ mSupportsAgpsRequests = FALSE /\ mSupportsPositionInjection = FALSE
        /\ mSupportsTimeInjection = FALSE /\ download_request_cb = FALSE
        /\ xq = <<>>
        /\ gave = [k \in Kinds |-> 0] /\ has = [k \in Kinds |-> 0] /\ installed = 0
        /\ taken = 0 /\ told = 0
        /\ mServers = [xtra1 |-> {}, buffer |-> <<1, 2, 3>>]
        /\ userAgent = Empty

Sum(f) == f["time"] + f["location"] + f["xtra"] + f["certs"]

-----------------------------------------------------------------------------
(* The framework.                                                          *)

loc_eng_init == /\ phase = "none" /\ phase' = "adapter"
                /\ UNCHANGED <<inits, extended, flags, download_request_cb, xq, data, asked,
                               userAgent>>

\* The rest of loc_init, and the whole of a later one, for which loc_eng_init
\* returns 0 at once: loc_cleanup has left the adapter there.
loc_init == /\ phase \in {"adapter", "done"} /\ inits < MaxInits
            /\ phase' = "done" /\ inits' = inits + 1
            /\ mSupportsAgpsRequests' = ~extended
            /\ mSupportsPositionInjection' = ~extended
            /\ mSupportsTimeInjection' = ~extended
            /\ xq' = Append(xq, Msg("UserAgent"))
            /\ UNCHANGED <<extended, download_request_cb, data, asked, userAgent>>

loc_xtra_init == /\ phase = "done" /\ download_request_cb' = TRUE
                 /\ UNCHANGED <<phase, inits, extended, flags, xq, data, asked, userAgent>>

Gives(k, sent) == /\ phase = "done" /\ Sum(gave) < MaxData
                  /\ gave' = [gave EXCEPT ![k] = @ + 1]
                  /\ xq' = IF sent THEN Append(xq, Item(k)) ELSE xq
                  /\ UNCHANGED <<phase, inits, extended, flags, download_request_cb, has, installed,
                                 asked, userAgent>>

loc_eng_inject_time == Gives("time", TRUE)

loc_eng_inject_location == Gives("location", mSupportsPositionInjection)

\* Data of a length from 0 to XTRA_DATA_MAX_SIZE; the rest is refused.
loc_xtra_inject_data == Gives("xtra", TRUE)

\* Some certificates, enough slots, none too long: otherwise nothing is sent.
loc_eng_agps_install_certificates(n, tooLong) ==
  /\ phase = "done" /\ n <= Slots /\ ~tooLong
  /\ Sum(gave) < MaxData
  /\ gave' = [gave EXCEPT !["certs"] = @ + 1]
  /\ xq' = Append(xq, Certs(n))
  /\ UNCHANGED <<phase, inits, extended, flags, download_request_cb, has, installed, asked,
                 userAgent>>

-----------------------------------------------------------------------------
(* The modem's requests; an adapter that does not take one leaves it to    *)
(* the others.                                                             *)

Requests(m) == /\ phase # "none" /\ taken < MaxAsked
               /\ mSupportsAgpsRequests
               /\ taken' = taken + 1
               /\ xq' = Append(xq, m)
               /\ UNCHANGED <<phase, inits, extended, flags, download_request_cb, data, told,
                              mServers, userAgent>>

requestXtraData == Requests(Msg("RequestXtra"))
requestTime == Requests(Msg("RequestTime"))
reportXtraServer(xtra1) == Requests(Servers(xtra1))

-----------------------------------------------------------------------------
(* The MsgTask thread.                                                     *)

Takes(o) == xq # <<>> /\ Head(xq).op = o /\ xq' = Tail(xq)

\* A setTime that leaves the flag as it is.
setTimeFlagKept == [flag |-> mSupportsTimeInjection, injects |-> mSupportsTimeInjection]

\* The adapter's setTime: the first time after an extended CPI is not
\* injected, the ones after it are.
setTime == [flag |-> TRUE, injects |-> mSupportsTimeInjection]

LocEngSetTime ==
  /\ Takes("Item") /\ Head(xq).kind = "time"
  /\ mSupportsTimeInjection' = setTime.flag
  /\ has' = IF setTime.injects THEN [has EXCEPT !["time"] = @ + 1] ELSE has
  /\ UNCHANGED <<phase, inits, extended, mSupportsAgpsRequests, mSupportsPositionInjection,
                 download_request_cb, gave, installed, asked, userAgent>>

\* LocEngInjectLocation and LocEngInjectXtraData.
LocEngInject ==
  /\ Takes("Item") /\ Head(xq).kind # "time"
  /\ has' = [has EXCEPT ![Head(xq).kind] = @ + 1]
  /\ UNCHANGED <<phase, inits, extended, flags, download_request_cb, gave, installed, asked,
                 userAgent>>

LocEngInstallAGpsCert ==
  /\ Takes("Certs") /\ installed' = Head(xq).n
  /\ has' = [has EXCEPT !["certs"] = @ + 1]
  /\ UNCHANGED <<phase, inits, extended, flags, download_request_cb, gave, asked, userAgent>>

LocEngRequestXtra ==
  /\ Takes("RequestXtra")
  /\ told' = IF download_request_cb THEN told + 1 ELSE told
  /\ UNCHANGED <<phase, inits, extended, flags, download_request_cb, data, taken, mServers,
                 userAgent>>

\* The framework is asked if gps_conf has GPS_CAPABILITY_ON_DEMAND_TIME.
LocEngRequestTime ==
  /\ Takes("RequestTime")
  /\ told' \in {told, told + 1}
  /\ UNCHANGED <<phase, inits, extended, flags, download_request_cb, data, taken, mServers,
                 userAgent>>

\* Each URL into the next free place, but for those of xtra1.gpsonextra.net.
Forwarded(xtra1) ==
  LET place(cptr, u) == IF u \in xtra1 THEN cptr ELSE Append(cptr, u)
  IN  place(place(place(<<>>, 1), 2), 3)

\* loc_xtra_init leaves report_xtra_server_cb NULL, so nobody hears of it.
LocEngReportXtraServer ==
  /\ Takes("Servers")
  /\ mServers' = [xtra1 |-> Head(xq).xtra1, buffer |-> Forwarded(Head(xq).xtra1)]
  /\ UNCHANGED <<phase, inits, extended, flags, download_request_cb, data, taken, told, userAgent>>

Code == <<"%", "2", "F">>
Encoded(ch) == IF ch = "/" THEN Code ELSE <<ch>>

\* A test for room that is off by one: the code is cut where the value ends.
EncodeCut(out, ch, size) ==
  LET whole == out \o Encoded(ch)
  IN  IF Len(out) >= size - 1 \/ Len(whole) > size
      THEN [out |-> out, stop |-> TRUE]
      ELSE [out |-> IF Len(whole) = size THEN SubSeq(whole, 1, size - 1) ELSE whole, stop |-> FALSE]

\* One turn of the loop of encodeInPlace, which ends when there is no room.
Encode(out, ch, size) ==
  IF Len(out) >= size - 1 \/ (ch = "/" /\ Len(out) + Len(Code) >= size)
  THEN [out |-> out, stop |-> TRUE]
  ELSE [out |-> out \o Encoded(ch), stop |-> FALSE]

\* The loop: after turn i the first i characters are read, or it was left.
encodeInPlace(value, size) ==
  LET turn[i \in 0..Len(value)] ==
        IF i = 0 THEN [out |-> <<>>, stop |-> FALSE]
        ELSE IF turn[i - 1].stop THEN turn[i - 1] ELSE Encode(turn[i - 1].out, value[i], size)
  IN  turn[Len(value)].out

\* A property is read, encoded in place and put into the user agent; the file
\* may not be written, which nobody hears of.
LocSetXtraUserAgent ==
  /\ Takes("UserAgent")
  /\ \E s \in Strings : userAgent' = [s |-> s, out |-> encodeInPlace(s, SizeOf)]
  /\ UNCHANGED <<phase, inits, extended, flags, download_request_cb, data, asked>>

-----------------------------------------------------------------------------
Next == \/ loc_eng_init \/ loc_init \/ loc_xtra_init
        \/ loc_eng_inject_time \/ loc_eng_inject_location \/ loc_xtra_inject_data
        \/ \E n \in 1..(Slots + 1), tooLong \in BOOLEAN : loc_eng_agps_install_certificates(n, tooLong)
        \/ requestXtraData \/ requestTime \/ \E s \in SUBSET (1..3) : reportXtraServer(s)
        \/ LocEngSetTime \/ LocEngInject \/ LocEngInstallAGpsCert
        \/ LocEngRequestXtra \/ LocEngRequestTime \/ LocEngReportXtraServer \/ LocSetXtraUserAgent

Spec == Init /\ [][Next]_vars

-----------------------------------------------------------------------------
(* What a reader of the user agent decodes: the longest part of the        *)
(* property that fits its place with every code whole (encodeInPlace).     *)
Encoding(s) ==
  LET first[n \in 0..Len(s)] ==
        IF n = 0 THEN <<>> ELSE first[n - 1] \o Encoded(s[n])
  IN  first

LongestFit(first, size) ==
  LET fit == {n \in DOMAIN first : Len(first[n]) < size}
  IN  first[CHOOSE n \in fit : \A m \in fit : m <= n]

AgentIsWhole == userAgent.out = LongestFit(Encoding(userAgent.s), SizeOf)

\* The servers other than xtra1 are all there, in their order.
ServersAreKept ==
  /\ ToSet(mServers.buffer) = (1..3) \ mServers.xtra1
  /\ \A i, j \in DOMAIN mServers.buffer : i < j => mServers.buffer[i] < mServers.buffer[j]

\* With nothing queued the modem has all XTRA data and certificates, and the
\* times and positions.  With an extended CPI it takes no positions, and of the
\* times all but at most one per loc_init, the first of all among them (setTime).
EverythingArrives ==
  xq = <<>> =>
    /\ has["xtra"] = gave["xtra"] /\ has["certs"] = gave["certs"]
    /\ has["location"] = IF extended THEN 0 ELSE gave["location"]
    /\ gave["time"] - has["time"] \in
         IF extended /\ gave["time"] > 0 THEN 1..inits ELSE {0}

(***************************************************************************)
(* What the HAL is given it passes on: with nothing queued the modem has   *)
(* what it was sent (LocEngInject, LocEngSetTime), and the user agent and  *)
(* the XTRA servers come out whole.                                        *)
(***************************************************************************)
DataIsPassedOn == EverythingArrives /\ AgentIsWhole /\ ServersAreKept
=============================================================================
