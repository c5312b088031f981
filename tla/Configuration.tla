--------------------------- MODULE Configuration ---------------------------
(***************************************************************************)
(* What the environment or a Config struct says about the endpoints to     *)
(* advertise, and what ConfigFromEnv and withDefaults make of it           *)
(* (src/config.go). The other fields of Config are left out: each has one  *)
(* source, and a default when that is empty.                               *)
(*                                                                         *)
(* A number in text is a sequence of at most one element, and the empty    *)
(* sequence is the empty text. An address is a host, possibly written as a *)
(* URL with a scheme and a port; a URL may have no host ("https://:443").  *)
(***************************************************************************)
EXTENDS Integers, Sequences

CONSTANTS
    Addrs, Ports, Schemes,
    Junk             \* text that is no number

Blank    == ""      \* empty text
Text(S)  == S \cup {Blank}
AnyPort  == Ports \cup {0}
PortText == {<<>>} \cup {<<n>> : n \in AnyPort \cup {Junk}}

Plain(host) == [scheme |-> Blank, host |-> host, port |-> <<>>]
Unset       == Plain(Blank)

Written ==
    {Plain(h) : h \in Text(Addrs)}
        \cup [scheme : Schemes, host : Text(Addrs),
              port : {<<>>} \cup {<<n>> : n \in Ports}]

\* The variables in order of precedence: SD_EXTERNAL_*, SD_ADVERTISE_*,
\* SERVICE_ADVERTISE_*; SD_INTERNAL_*.
Env ==
    [externalAddress : [1..3 -> Written], externalPort : [1..3 -> PortText],
     internalAddress : Written, internalPort : PortText,
     internalScheme  : Text(Schemes)]

Config ==
    [AdvertiseAddr : Written, AdvertisePort : AnyPort,
     AdvertiseScheme : Text(Schemes), AdvertiseInternalAddr : Written,
     AdvertiseInternalPort : AnyPort, AdvertiseInternalScheme : Text(Schemes)]

IsNumber(t) == t # <<>> /\ t # <<Junk>>

\* The loops over the names: from name k on, the first value that is set.
firstEnv(vals) ==
    LET first[k \in 1..Len(vals) + 1] ==
            IF k > Len(vals) THEN Unset
            ELSE IF vals[k] # Unset THEN vals[k] ELSE first[k + 1]
    IN  first[1]

\* Malformed text gives way to the next name.
firstEnvInt(vals) ==
    LET first[k \in 1..Len(vals) + 1] ==
            IF k > Len(vals) THEN 0
            ELSE IF IsNumber(vals[k]) THEN vals[k][1] ELSE first[k + 1]
    IN  first[1]

\* A URL's scheme and port fill the fields that are empty, its host stays.
SchemeOr(scheme, addr) == IF scheme = Blank THEN addr.scheme ELSE scheme

PortOr_Drops(port, addr) == port                                    \* mutant
PortOr(port, addr) ==
    IF port = 0 /\ addr.port # <<>> THEN addr.port[1] ELSE port

parseAdvertiseAddrs(c) ==
    [AdvertiseAddr           |-> Plain(c.AdvertiseAddr.host),
     AdvertisePort           |-> PortOr(c.AdvertisePort, c.AdvertiseAddr),
     AdvertiseScheme         |-> SchemeOr(c.AdvertiseScheme, c.AdvertiseAddr),
     AdvertiseInternalAddr   |-> Plain(c.AdvertiseInternalAddr.host),
     AdvertiseInternalPort   |-> PortOr(c.AdvertiseInternalPort,
                                        c.AdvertiseInternalAddr),
     AdvertiseInternalScheme |-> SchemeOr(c.AdvertiseInternalScheme,
                                          c.AdvertiseInternalAddr)]

\* No variable sets AdvertiseScheme.
ConfigFromEnv(env) ==
    parseAdvertiseAddrs(
        [AdvertiseAddr           |-> firstEnv(env.externalAddress),
         AdvertisePort           |-> firstEnvInt(env.externalPort),
         AdvertiseScheme         |-> Blank,
         AdvertiseInternalAddr   |-> env.internalAddress,
         AdvertiseInternalPort   |-> firstEnvInt(<<env.internalPort>>),
         AdvertiseInternalScheme |-> env.internalScheme])

\* New parses once more what ConfigFromEnv has parsed.
withDefaults(c) == parseAdvertiseAddrs(c)
=============================================================================
