---------------------------- MODULE MCEndpoints ----------------------------
(* Providers, callers and foreign entries for checking Endpoints.          *)
EXTENDS Endpoints

CONSTANTS extHost, intHost, otherHost, https

MCAddrs   == {extHost, intHost, otherHost}
MCPorts   == {80, 443}
MCSchemes == {Http, https}

Url(scheme, host, port) == [scheme |-> scheme, host |-> host, port |-> port]

\* The ways to write each setting: unset, plain, a URL with and without a port
\* or a host; unset, 0, a number, no number.
ExtAddrs == {Unset, Plain(extHost), Url(https, extHost, <<443>>)}
IntAddrs == {Unset, Plain(intHost), Url(https, intHost, <<80>>)}

\* Every preference among the external variables.
EnvsExternal ==
    [externalAddress : {<<a, b, c>> : a \in ExtAddrs \cup {Url(https, "", <<80>>)},
                           b \in {Unset, Url(Http, otherHost, <<80>>)},
                           c \in {Unset, Url(Http, extHost, <<>>)}},
     externalPort : {<<a, b, c>> : a \in {<<>>, <<0>>, <<443>>, <<Junk>>},
                        b \in {<<>>, <<80>>, <<Junk>>}, c \in {<<>>, <<443>>}},
     internalAddress : {Unset}, internalPort : {<<>>}, internalScheme : {""}]

\* Every combination of the internal variables, with and without external ones.
EnvsInternal ==
    [externalAddress : {<<a, Unset, Unset>> : a \in ExtAddrs},
     externalPort : {<<<<>>, <<>>, <<>>>>},
     internalAddress : IntAddrs \cup {Url(Http, "", <<443>>)},
     internalPort : {<<>>, <<0>>, <<443>>, <<Junk>>}, internalScheme : {"", Http}]

Structs ==
    [AdvertiseAddr : ExtAddrs, AdvertisePort : {0, 80},
     AdvertiseScheme : {"", Http}, AdvertiseInternalAddr : IntAddrs,
     AdvertiseInternalPort : {0, 443}, AdvertiseInternalScheme : {"", Http}]

\* A Service built for Register, and ones that were read from the catalog or
\* copied from another, with endpoints and reserved keys of their own.
Stale == [addr |-> otherHost, port |-> 80, scheme |-> https]

Leftovers ==
    {[External |-> <<>>, Internal |-> <<>>, meta |-> NoReservedKeys],
     [External |-> <<Stale>>, Internal |-> <<>>,
      meta |-> [NoReservedKeys EXCEPT !.scheme = https,
                  !.external_address = otherHost, !.external_port = <<80>>]],
     [External |-> <<>>, Internal |-> <<Stale>>,
      meta |-> [NoReservedKeys EXCEPT !.internal_address = otherHost,
                  !.internal_port = <<Junk>>, !.internal_scheme = Http]]}

Given(flats, leftovers, checks) ==
    {[flat |-> f, External |-> l.External, Internal |-> l.Internal,
      meta |-> l.meta, check |-> c] : f \in flats, l \in leftovers, c \in checks}

Flats   == [addr : {otherHost}, port : {0, 80}, scheme : {"", Http}]
HTTP    == [mode |-> "http", ttl |-> <<>>]
AFlat   == [addr |-> otherHost, port |-> 80, scheme |-> ""]
Fresh   == {l \in Leftovers : l.meta = NoReservedKeys}

\* Blank and malformed text, a negative duration, and durations around the
\* heartbeat's floor and the TTL's.
TTLs == [mode : {"ttl"},
         ttl : {<<>>, <<Junk>>} \cup {<<d>> : d \in {-5000, 0, 999, 1999, 2000,
                                      14999, 15000, 15001, 60000}}]

MCRegistrations ==
    [from : {"env"}, env : EnvsExternal \cup EnvsInternal,
     given : Given({AFlat}, Fresh, {NoCheck})]
    \cup [from : {"struct"}, config : Structs,
          given : Given(Flats, Leftovers, {HTTP})]
    \cup [from : {"struct"}, config : {c \in Structs : c.AdvertisePort = 80},
          given : Given({AFlat}, Fresh, TTLs)]
    \cup [from : {"other"}, entry :
            [addr : {otherHost}, port : {80},
             meta : [scheme : {"", https}, external_address : {"", extHost},
                     external_port : {<<>>, <<Junk>>}, external_scheme : {""},
                     internal_address : {"", intHost}, internal_port : {<<443>>},
                     internal_scheme : {Http}]
                    \cup {[NoReservedKeys EXCEPT !.scheme = x] : x \in {"", https}}]]
=============================================================================
