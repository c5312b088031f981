----------------------------- MODULE Endpoints -----------------------------
(***************************************************************************)
(* The way of an endpoint from a provider's configuration to a consumer:   *)
(* New completes the configuration, Manager.Register derives the endpoints *)
(* and the health check, serviceMeta writes the endpoints into a catalog   *)
(* entry, serviceFromEntry reads them back, and resolveEndpoint projects a *)
(* view (src/manager.go, src/consul.go, src/types.go).                     *)
(*                                                                         *)
(* A pointer is a sequence of at most one element, the empty one being     *)
(* nil. A Meta key that is absent reads as empty text in Go, and is so     *)
(* here.                                                                   *)
(***************************************************************************)
EXTENDS Configuration, Timing

CONSTANTS
    Registrations,   \* who writes catalog entries
    Http             \* the scheme "http"

Endpoint == [addr : Text(Addrs), port : AnyPort, scheme : Text(Schemes)]
Pointer  == {<<>>} \cup {<<e>> : e \in Endpoint}
Zero     == [addr |-> Blank, port |-> 0, scheme |-> Blank]

\* The reserved keys of Service.Meta.
Meta ==
    [scheme           : Text(Schemes),
     external_address : Text(Addrs),
     external_port    : PortText,
     external_scheme  : Text(Schemes),
     internal_address : Text(Addrs),
     internal_port    : PortText,
     internal_scheme  : Text(Schemes)]

NoReservedKeys ==
    [scheme |-> Blank,
     external_address |-> Blank, external_port |-> <<>>, external_scheme |-> Blank,
     internal_address |-> Blank, internal_port |-> <<>>, internal_scheme |-> Blank]

\* Service: the deprecated flat fields, the two endpoints, the reserved keys and
\* the health check, of which the TTL is a text.
TTLText     == {t \in Seq(Int \cup {Junk}) : Len(t) <= 1}
HealthCheck == [mode : {"none", "http", "ttl"}, ttl : TTLText]
NoCheck     == [mode |-> "none", ttl |-> <<>>]

Service == [flat : Endpoint, External : Pointer, Internal : Pointer, meta : Meta,
            check : HealthCheck]

\* What Consul keeps: the registrable address and Meta.
Entry == [addr : Text(Addrs), port : AnyPort, meta : Meta]

\* A provider, with its configuration, from the environment or as a Config
\* struct, and the Service it passes to Register; or a catalog entry that v0.6.0
\* or other software wrote.
Registration ==
    [from : {"env"}, env : Env, given : Service]
        \cup [from : {"struct"}, config : Config, given : Service]
        \cup [from : {"other"}, entry : Entry]

ASSUME ConstantsAssumption ==
    /\ Ports \subseteq Nat \ {0}
    /\ Http \in Schemes
    /\ Junk \notin Nat
    /\ Blank \notin Addrs
    /\ Blank \notin Schemes
    /\ Registrations \subseteq Registration

-----------------------------------------------------------------------------
(* Write path. An operator marked as a mutant is the one below it with a   *)
(* bug.                                                                    *)

rootEndpoint(svc) == IF svc.External # <<>> THEN svc.External ELSE svc.Internal

mirrorFlat(svc) ==
    [svc EXCEPT !.flat = IF rootEndpoint(svc) = <<>> THEN Zero
                         ELSE rootEndpoint(svc)[1]]

\* A caller that set only the flat fields is an external registration.
normalizeEndpoints(svc) ==
    mirrorFlat(IF /\ svc.External = <<>>
                  /\ svc.Internal = <<>>
                  /\ svc.flat # Zero
               THEN [svc EXCEPT !.External = <<svc.flat>>]
               ELSE svc)

\* Manager.Register: the endpoints come from the configuration alone.
ExternalPort(cfg, svc) ==
    IF cfg.AdvertisePort > 0 THEN cfg.AdvertisePort ELSE svc.flat.port

ExternalFor(cfg, svc) ==
    IF cfg.AdvertiseAddr = Unset THEN <<>>
    ELSE <<[addr   |-> cfg.AdvertiseAddr.host,
            port   |-> ExternalPort(cfg, svc),
            scheme |-> IF svc.flat.scheme # Blank THEN svc.flat.scheme
                       ELSE cfg.AdvertiseScheme]>>

InternalFor(cfg, svc) ==
    IF cfg.AdvertiseInternalAddr = Unset THEN <<>>
    ELSE <<[addr   |-> cfg.AdvertiseInternalAddr.host,
            port   |-> IF cfg.AdvertiseInternalPort # 0
                       THEN cfg.AdvertiseInternalPort
                       ELSE IF cfg.AdvertiseAddr # Unset
                       THEN ExternalPort(cfg, svc)
                       ELSE svc.flat.port,
            scheme |-> IF cfg.AdvertiseInternalScheme # Blank
                       THEN cfg.AdvertiseInternalScheme ELSE Http]>>

Advertised_KeepsCallers(cfg, svc) ==                                \* mutant
    normalizeEndpoints(
        [svc EXCEPT !.flat = Zero,
                    !.External = IF cfg.AdvertiseAddr = Unset THEN @
                                 ELSE ExternalFor(cfg, svc),
                    !.Internal = InternalFor(cfg, svc)])
Advertised(cfg, svc) ==
    normalizeEndpoints(
        [svc EXCEPT !.flat = Zero,
                    !.External = ExternalFor(cfg, svc),
                    !.Internal = InternalFor(cfg, svc)])

\* serviceMeta strips every reserved key of the caller and writes those of the
\* endpoints there are; "scheme" repeats the external scheme for old readers.
Stripped_Not(meta) == meta                                          \* mutant
Stripped(meta) == NoReservedKeys

WithExternal_NoScheme(meta, e) ==                                   \* mutant
    [meta EXCEPT !.external_address = e.addr, !.external_port = <<e.port>>,
                 !.external_scheme = e.scheme]
WithExternal(meta, e) ==
    [meta EXCEPT !.external_address = e.addr,
                 !.external_port    = <<e.port>>,
                 !.external_scheme  = IF e.scheme # Blank THEN e.scheme ELSE @,
                 !.scheme           = IF e.scheme # Blank THEN e.scheme ELSE @]

WithInternal(meta, e) ==
    [meta EXCEPT !.internal_address = e.addr,
                 !.internal_port    = <<e.port>>,
                 !.internal_scheme  = IF e.scheme # Blank THEN e.scheme ELSE @]

serviceMeta(svc) ==
    LET m0 == Stripped(svc.meta)
        m1 == IF svc.External = <<>> THEN m0 ELSE WithExternal(m0, svc.External[1])
    IN  IF svc.Internal = <<>> THEN m1 ELSE WithInternal(m1, svc.Internal[1])

\* consulRegistry.Register, for a Service that has an endpoint.
EntryOf(svc) ==
    LET root == rootEndpoint(svc)[1]
    IN  [addr |-> root.addr, port |-> root.port, meta |-> serviceMeta(svc)]

-----------------------------------------------------------------------------
(* Read path.                                                              *)

atoiSafe_Raw(t) == IF t = <<>> THEN 0 ELSE t[1]                     \* mutant
atoiSafe(t) == IF t \in {<<n>> : n \in AnyPort} THEN t[1] ELSE 0

\* An entry of v0.6.0 has neither endpoint's keys: its root is the external one.
ExternalIn_NoLegacy(e) ==                                           \* mutant
    IF e.meta.external_address = Blank THEN <<>>
    ELSE <<[addr   |-> e.meta.external_address,
            port   |-> atoiSafe(e.meta.external_port),
            scheme |-> e.meta.external_scheme]>>
ExternalIn(e) ==
    IF e.meta.external_address # Blank
    THEN <<[addr   |-> e.meta.external_address,
            port   |-> atoiSafe(e.meta.external_port),
            scheme |-> e.meta.external_scheme]>>
    ELSE IF e.meta.internal_address = Blank
    THEN <<[addr |-> e.addr, port |-> e.port, scheme |-> e.meta.scheme]>>
    ELSE <<>>

InternalIn(e) ==
    IF e.meta.internal_address = Blank THEN <<>>
    ELSE <<[addr   |-> e.meta.internal_address,
            port   |-> atoiSafe(e.meta.internal_port),
            scheme |-> e.meta.internal_scheme]>>

serviceFromEntry(e) ==
    mirrorFlat([flat |-> Zero, External |-> ExternalIn(e),
                Internal |-> InternalIn(e), meta |-> e.meta,
                check |-> NoCheck])

\* Service.EndpointFor: <<>> is ErrEndpointViewUnavailable.
EndpointFor_Flat(svc, view) ==                                      \* mutant
    IF view = "internal" /\ svc.Internal # <<>> THEN svc.Internal ELSE <<svc.flat>>
EndpointFor(svc, view) ==
    IF view = "internal" /\ svc.Internal # <<>> THEN svc.Internal ELSE svc.External

\* resolveEndpoint on a cached Service: the endpoint, as an address or as a URL
\* with its scheme, else the fallback, else the error.
Outcome(svc, view, asURL, fallback) ==
    LET e    == EndpointFor(svc, view)
        miss == e = <<>> \/ (asURL /\ e[1].scheme = Blank)
    IN  IF ~miss
        THEN [from |-> "endpoint", url |-> asURL,
              addr |-> e[1].addr, port |-> e[1].port,
              scheme |-> IF asURL THEN e[1].scheme ELSE Blank]
        ELSE [from |-> IF fallback THEN "fallback" ELSE "ErrEndpointViewUnavailable",
              url |-> asURL, addr |-> Blank, port |-> 0, scheme |-> Blank]

\* applyHealthCheck. HTTP mode: the endpoint Consul probes; TTL mode: the TTL
\* that is registered, <<>> standing for ErrInvalidTTL.
Probe(svc) == IF svc.check.mode = "http" THEN EndpointFor(svc, "internal") ELSE <<>>

TTLOf(check) ==
    IF check.ttl = <<>> THEN <<defaultTTL>>
    ELSE IF check.ttl = <<Junk>> THEN <<>>
    ELSE <<ttlWithDefaults(check.ttl[1])>>

-----------------------------------------------------------------------------
VARIABLES
    reg,     \* who writes the catalog entry
    stage,   \* how far the pipeline has come
    conf,    \* the configuration of the provider's Manager
    entry,   \* the catalog entry
    probed,  \* the endpoint Consul probes
    ttl,     \* the TTL of its check, 0 when that is not a TTL check
    cached,  \* the Service a consumer has cached
    asked,   \* what the consumer's last call asked for
    out      \* what it returned

vars == <<reg, stage, conf, entry, probed, ttl, cached, asked, out>>

TypeOK ==
    /\ reg \in Registrations
    /\ stage \in {"written", "provider", "ErrNoEndpoint", "ErrInvalidTTL",
                  "published", "foreign", "read", "foreignRead"}
    /\ conf \in Config
    /\ entry \in Entry
    /\ probed \in Pointer
    /\ ttl \in Nat
    /\ cached \in Service
    /\ asked \in [view : {"external", "internal"}, asURL : BOOLEAN,
                  fallback : BOOLEAN]
    /\ out \in [from : {"nothing", "endpoint", "fallback",
                        "ErrEndpointViewUnavailable"},
                url : BOOLEAN, addr : Text(Addrs), port : AnyPort,
                scheme : Text(Schemes)]

Init ==
    /\ reg \in Registrations
    /\ stage = "written"
    /\ conf = [AdvertiseAddr |-> Unset, AdvertisePort |-> 0, AdvertiseScheme |-> Blank,
               AdvertiseInternalAddr |-> Unset, AdvertiseInternalPort |-> 0,
               AdvertiseInternalScheme |-> Blank]
    /\ entry = [addr |-> Blank, port |-> 0, meta |-> NoReservedKeys]
    /\ probed = <<>>
    /\ ttl = 0
    /\ cached = [flat |-> Zero, External |-> <<>>, Internal |-> <<>>,
                 meta |-> NoReservedKeys, check |-> NoCheck]
    /\ asked = [view |-> "external", asURL |-> FALSE, fallback |-> FALSE]
    /\ out = [from |-> "nothing", url |-> FALSE, addr |-> Blank, port |-> 0,
              scheme |-> Blank]

\* New(ConfigFromEnv()), or New of a Config struct.
New ==
    /\ stage = "written"
    /\ \/ reg.from = "env" /\ conf' = withDefaults(ConfigFromEnv(reg.env))
       \/ reg.from = "struct" /\ conf' = withDefaults(reg.config)
    /\ stage' = "provider"
    /\ UNCHANGED <<reg, entry, probed, ttl, cached, asked, out>>

Register ==
    /\ stage = "provider"
    /\ LET svc   == Advertised(conf, reg.given)
           isTTL == svc.check.mode = "ttl"
       IN  IF svc.External = <<>> /\ svc.Internal = <<>>
           THEN stage' = "ErrNoEndpoint" /\ UNCHANGED <<entry, probed, ttl>>
           ELSE IF isTTL /\ TTLOf(svc.check) = <<>>
           THEN stage' = "ErrInvalidTTL" /\ UNCHANGED <<entry, probed, ttl>>
           ELSE /\ stage' = "published"
                /\ entry' = EntryOf(svc)
                /\ probed' = Probe(svc)
                /\ ttl' = IF isTTL THEN TTLOf(svc.check)[1] ELSE 0
    /\ UNCHANGED <<reg, conf, cached, asked, out>>

\* The entry is not one of Register's.
ForeignRegister ==
    /\ stage = "written"
    /\ reg.from = "other"
    /\ entry' = reg.entry
    /\ stage' = "foreign"
    /\ UNCHANGED <<reg, conf, probed, ttl, cached, asked, out>>

\* A seed or a watch refresh caches what the entry holds.
Refresh ==
    /\ stage \in {"published", "foreign"}
    /\ cached' = serviceFromEntry(entry)
    /\ stage' = IF stage = "published" THEN "read" ELSE "foreignRead"
    /\ UNCHANGED <<reg, conf, entry, probed, ttl, asked, out>>

ResolveEndpoint(view, asURL, fallback) ==
    /\ stage \in {"read", "foreignRead"}
    /\ asked' = [view |-> view, asURL |-> asURL, fallback |-> fallback]
    /\ out' = Outcome(cached, view, asURL, fallback)
    /\ UNCHANGED <<reg, stage, conf, entry, probed, ttl, cached>>

Next ==
    \/ New
    \/ Register
    \/ ForeignRegister
    \/ Refresh
    \/ \E view \in {"external", "internal"}, asURL, fallback \in BOOLEAN :
          ResolveEndpoint(view, asURL, fallback)

Spec == Init /\ [][Next]_vars

-----------------------------------------------------------------------------
(* What an operator meant, read off what was written.                      *)

\* The first value of a sequence of candidates that is not unset.
Preferred(candidates, unset) ==
    LET set == {k \in DOMAIN candidates : candidates[k] # unset}
    IN  IF set = {} THEN unset
        ELSE candidates[CHOOSE k \in set : \A l \in set : k <= l]

Number(text) == IF IsNumber(text) THEN text[1] ELSE Junk

\* One endpoint as meant: where it is written, and its own port and scheme.
Meant(addr, port, scheme) ==
    [host   |-> addr.host,
     port   |-> Preferred(<<port, IF addr.port = <<>> THEN 0 ELSE addr.port[1]>>, 0),
     scheme |-> Preferred(<<scheme, addr.scheme>>, Blank)]

FirstNumber(texts) ==
    LET n == Preferred([k \in DOMAIN texts |-> Number(texts[k])], Junk)
    IN  IF n = Junk THEN 0 ELSE n

MeantExternal ==
    IF reg.from = "env"
    THEN Meant(Preferred(reg.env.externalAddress, Unset),
               FirstNumber(reg.env.externalPort), Blank)
    ELSE Meant(reg.config.AdvertiseAddr, reg.config.AdvertisePort,
               reg.config.AdvertiseScheme)

MeantInternal ==
    IF reg.from = "env"
    THEN Meant(reg.env.internalAddress, FirstNumber(<<reg.env.internalPort>>),
               reg.env.internalScheme)
    ELSE Meant(reg.config.AdvertiseInternalAddr, reg.config.AdvertiseInternalPort,
               reg.config.AdvertiseInternalScheme)

\* The ports an internal endpoint may have.
InternalPorts(ext, int, given) ==
    IF int.port # 0 THEN {int.port}
    ELSE IF ext.host # Blank /\ ext.port # 0 THEN {ext.port, given.port}
    ELSE {given.port}

\* A provider advertises what its operator wrote, whichever way it was written:
\* a newer variable name before an older one, a malformed number ignored, a
\* port or a scheme of its own before the one in a URL, and what the caller of
\* Register gave as the last resort for a port and the first choice for the
\* external scheme. Parsing twice, in ConfigFromEnv and in New, changes nothing.
\* One default is left open. An internal endpoint without a port, beside an
\* external one whose port is configured, gets that port from the code
\* (src/manager.go:227-229) and the port given to Register by the documents
\* (src/config.go:99-100 and 186, src/doc.go:139, src/README.md:240): either does.
AdvertisedAsWritten ==
    stage = "provider" =>
        LET ext   == MeantExternal
            int   == MeantInternal
            given == reg.given.flat
        IN  /\ ExternalFor(conf, reg.given) =
                 IF ext.host = Blank THEN <<>>
                 ELSE <<[addr   |-> ext.host,
                         port   |-> Preferred(<<ext.port, given.port>>, 0),
                         scheme |-> Preferred(<<given.scheme, ext.scheme>>, Blank)]>>
            /\ InternalFor(conf, reg.given) \in
                 IF int.host = Blank THEN {<<>>}
                 ELSE {<<[addr   |-> int.host,
                          port   |-> p,
                          scheme |-> Preferred(<<int.scheme, Http>>, Blank)]>> :
                         p \in InternalPorts(ext, int, given)}

\* A consumer gets exactly the endpoints of the configuration: what the caller
\* of Register left in the flat fields, in the endpoints or under the reserved
\* Meta keys of its Service makes no endpoint appear, and none is lost on the
\* way through Meta. The endpoint Consul probes is the in-cluster one of these,
\* where there is one, and never one of the caller's.
RoundTrip ==
    stage = "read" =>
        /\ cached.External = ExternalFor(conf, reg.given)
        /\ cached.Internal = InternalFor(conf, reg.given)
        /\ reg.given.check.mode = "http" =>
              probed = IF cached.Internal # <<>> THEN cached.Internal
                                                 ELSE cached.External

\* The external view never hands out an in-cluster address: an external-view
\* call returns the configured external host, or no endpoint at all.
ExternalViewIsExternal ==
    stage = "read" /\ asked.view = "external" /\ out.from = "endpoint" =>
        conf.AdvertiseAddr # Unset /\ out.addr = conf.AdvertiseAddr.host

\* A reader of v0.6.0, which knows the entry's address and Meta["scheme"] only,
\* finds the external endpoint with its scheme, and the internal one without any
\* when it is the only one.
OldReadersFindRoot ==
    stage \in {"published", "read"} =>
        LET root == IF conf.AdvertiseAddr # Unset THEN ExternalFor(conf, reg.given)[1]
                    ELSE [InternalFor(conf, reg.given)[1] EXCEPT !.scheme = Blank]
        IN  [addr |-> entry.addr, port |-> entry.port,
             scheme |-> entry.meta.scheme] = root

\* An entry of v0.6.0 is read as an external endpoint.
OldEntriesAreExternal ==
    stage = "foreignRead"
      /\ entry.meta = [NoReservedKeys EXCEPT !.scheme = entry.meta.scheme] =>
        /\ cached.External = <<[addr |-> entry.addr, port |-> entry.port,
                               scheme |-> entry.meta.scheme]>>
        /\ cached.Internal = <<>>

\* A live provider is not taken for dead: its heartbeats, one every
\* heartbeatInterval, come at least twice per TTL however short a TTL it asked
\* for, and the TTL it gets is no shorter than that (ttlFloor's comment).
BeatsTwicePerTTL ==
    stage = "published" /\ ttl > 0 =>
        /\ 2 * heartbeatInterval(ttl) <= ttl
        /\ \A d \in {reg.given.check.ttl[k] : k \in DOMAIN reg.given.check.ttl} :
              d <= ttl
=============================================================================
