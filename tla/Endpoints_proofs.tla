--------------------------- MODULE Endpoints_proofs ---------------------------
(***************************************************************************)
(* Proofs about Endpoints, for any hosts, ports, schemes and registrations:*)
(* what an operator wrote is what is advertised, and what is advertised is *)
(* what a consumer gets.                                                   *)
(***************************************************************************)
EXTENDS Endpoints, Timing_proofs, SequenceTheorems

-----------------------------------------------------------------------------
(* The two ways to say which value is preferred: the loops of the code, and *)
(* the least index that is set.                                            *)

\* Two and three candidates: the first that is set.
LEMMA PreferredOf2 ==
  ASSUME NEW f, DOMAIN f = 1..2, NEW unset
  PROVE  Preferred(f, unset) = IF f[1] # unset THEN f[1] ELSE IF f[2] # unset THEN f[2]
                               ELSE unset
<1> DEFINE S == {k \in DOMAIN f : f[k] # unset}
           Least(k) == \A l \in S : k <= l
<1>1. CASE S = {}
  BY <1>1 DEF Preferred
<1>2. ASSUME S # {} PROVE \E k \in S : Least(k)
  <2>1. CASE 1 \in S
    BY <2>1
  <2>2. CASE 1 \notin S
    <3>1. S = {2}
      BY <1>2, <2>2
    <3> QED
      BY <3>1
  <2> QED
    BY <2>1, <2>2
<1>3. ASSUME S # {} PROVE (CHOOSE k \in S : Least(k)) \in S
                          /\ Least(CHOOSE k \in S : Least(k))
  BY <1>2, <1>3
<1>4. S # {} => Preferred(f, unset) = f[CHOOSE k \in S : Least(k)]
  BY DEF Preferred
<1>5. ASSUME NEW k \in S, Least(k)
      PROVE  f[k] = IF f[1] # unset THEN f[1] ELSE IF f[2] # unset THEN f[2] ELSE unset
  BY <1>5
<1> QED
  BY <1>1, <1>3, <1>4, <1>5

\* The same of three values.
LEMMA PreferredOf3 ==
  ASSUME NEW f, DOMAIN f = 1..3, NEW unset
  PROVE  Preferred(f, unset) = IF f[1] # unset THEN f[1] ELSE IF f[2] # unset THEN f[2]
                               ELSE IF f[3] # unset THEN f[3] ELSE unset
<1> DEFINE S == {k \in DOMAIN f : f[k] # unset}
           Least(k) == \A l \in S : k <= l
<1>1. CASE S = {}
  BY <1>1 DEF Preferred
<1>2. ASSUME S # {} PROVE \E k \in S : Least(k)
  <2>1. CASE 1 \in S
    BY <2>1
  <2>2. CASE 1 \notin S /\ 2 \in S
    BY <2>2
  <2>3. CASE 1 \notin S /\ 2 \notin S
    <3>1. S = {3}
      BY <1>2, <2>3
    <3> QED
      BY <3>1
  <2> QED
    BY <2>1, <2>2, <2>3
<1>3. ASSUME S # {} PROVE (CHOOSE k \in S : Least(k)) \in S
                          /\ Least(CHOOSE k \in S : Least(k))
  BY <1>2, <1>3
<1>4. S # {} => Preferred(f, unset) = f[CHOOSE k \in S : Least(k)]
  BY DEF Preferred
<1>5. ASSUME NEW k \in S, Least(k)
      PROVE  f[k] = IF f[1] # unset THEN f[1] ELSE IF f[2] # unset THEN f[2]
                    ELSE IF f[3] # unset THEN f[3] ELSE unset
  BY <1>5
<1> QED
  BY <1>1, <1>3, <1>4, <1>5

\* firstEnv over the three names of a setting.
LEMMA FirstOf3 ==
  ASSUME NEW S, NEW vals \in [1..3 -> S]
  PROVE  firstEnv(vals) = IF vals[1] # Unset THEN vals[1]
                          ELSE IF vals[2] # Unset THEN vals[2]
                          ELSE IF vals[3] # Unset THEN vals[3] ELSE Unset
<1> DEFINE Loop(f) == f = [k \in 1..Len(vals) + 1 |->
                             IF k > Len(vals) THEN Unset
                             ELSE IF vals[k] # Unset THEN vals[k] ELSE f[k + 1]]
<1>1. Len(vals) = 3
  OBVIOUS
<1>2. \E f : Loop(f)
  <2> DEFINE from3 == IF vals[3] # Unset THEN vals[3] ELSE Unset
             from2 == IF vals[2] # Unset THEN vals[2] ELSE from3
             from1 == IF vals[1] # Unset THEN vals[1] ELSE from2
             g == [k \in 1..4 |-> IF k = 1 THEN from1 ELSE IF k = 2 THEN from2
                                  ELSE IF k = 3 THEN from3 ELSE Unset]
  <2>1. Loop(g)
    BY <1>1
  <2> QED
    BY <2>1
<1> DEFINE loop == CHOOSE f : Loop(f)
<1>3. Loop(loop)
  BY <1>2
<1>4. firstEnv(vals) = loop[1]
  BY DEF firstEnv
<1> HIDE DEF loop
<1> QED
  BY <1>1, <1>3, <1>4

\* firstEnvInt over the names of a setting, three or one.
LEMMA FirstIntOf3 ==
  ASSUME NEW S, NEW vals \in [1..3 -> S]
  PROVE  firstEnvInt(vals) = IF IsNumber(vals[1]) THEN vals[1][1]
                             ELSE IF IsNumber(vals[2]) THEN vals[2][1]
                             ELSE IF IsNumber(vals[3]) THEN vals[3][1] ELSE 0
<1> DEFINE Loop(f) == f = [k \in 1..Len(vals) + 1 |->
                             IF k > Len(vals) THEN 0
                             ELSE IF IsNumber(vals[k]) THEN vals[k][1] ELSE f[k + 1]]
<1>1. Len(vals) = 3
  OBVIOUS
<1>2. \E f : Loop(f)
  <2> DEFINE from3 == IF IsNumber(vals[3]) THEN vals[3][1] ELSE 0
             from2 == IF IsNumber(vals[2]) THEN vals[2][1] ELSE from3
             from1 == IF IsNumber(vals[1]) THEN vals[1][1] ELSE from2
             g == [k \in 1..4 |-> IF k = 1 THEN from1 ELSE IF k = 2 THEN from2
                                  ELSE IF k = 3 THEN from3 ELSE 0]
  <2>1. Loop(g)
    BY <1>1
  <2> QED
    BY <2>1
<1> DEFINE loop == CHOOSE f : Loop(f)
<1>3. Loop(loop)
  BY <1>2
<1>4. firstEnvInt(vals) = loop[1]
  BY DEF firstEnvInt
<1> HIDE DEF loop
<1> QED
  BY <1>1, <1>3, <1>4

\* firstEnvInt of one variable.
LEMMA FirstIntOf1 ==
  ASSUME NEW t
  PROVE  firstEnvInt(<<t>>) = IF IsNumber(t) THEN t[1] ELSE 0
<1> DEFINE vals == <<t>>
           Loop(f) == f = [k \in 1..Len(vals) + 1 |->
                             IF k > Len(vals) THEN 0
                             ELSE IF IsNumber(vals[k]) THEN vals[k][1] ELSE f[k + 1]]
<1>1. Len(vals) = 1 /\ vals[1] = t
  OBVIOUS
<1>2. firstEnvInt(vals) = (CHOOSE f : Loop(f))[1]
  BY DEF firstEnvInt
<1> HIDE DEF vals
<1>3. \E f : Loop(f)
  <2> DEFINE g == [k \in 1..2 |-> IF k = 1 /\ IsNumber(t) THEN t[1] ELSE 0]
  <2>1. Loop(g)
    BY <1>1
  <2> QED
    BY <2>1
<1> DEFINE loop == CHOOSE f : Loop(f)
<1>4. Loop(loop)
  BY <1>3
<1> HIDE DEF loop
<1>5. loop[1] = IF IsNumber(t) THEN t[1] ELSE 0
  BY <1>1, <1>4
<1> QED
  BY <1>2, <1>5 DEF vals, loop

-----------------------------------------------------------------------------
(* What New makes of what was written.                                     *)

\* A text is a port when it is a number, and a malformed one gives way.
LEMMA NumberIs ==
  ASSUME NEW t \in PortText
  PROVE  /\ IsNumber(t) => t[1] \in AnyPort /\ t[1] # Junk /\ Number(t) = t[1]
         /\ ~IsNumber(t) => Number(t) = Junk
<1>1. CASE t = <<>>
  BY <1>1 DEF IsNumber, Number
<1>2. ASSUME NEW n \in AnyPort \cup {Junk}, t = <<n>>
      PROVE  /\ IsNumber(t) => t[1] \in AnyPort /\ t[1] # Junk /\ Number(t) = t[1]
             /\ ~IsNumber(t) => Number(t) = Junk
  BY <1>2 DEF IsNumber, Number
<1> QED
  BY <1>1, <1>2 DEF PortText

\* A text that is no number is no port.
LEMMA JunkIsNoPort == Junk \notin AnyPort /\ AnyPort \subseteq Nat /\ 0 \in AnyPort
<1>1. Ports \subseteq Nat \ {0} /\ Junk \notin Nat
  BY ConstantsAssumption
<1>2. AnyPort \subseteq Nat
  BY <1>1 DEF AnyPort
<1> QED
  BY <1>1, <1>2 DEF AnyPort

\* firstEnvInt finds the first number of three texts, as FirstNumber says.
LEMMA FirstNumber3 ==
  ASSUME NEW texts \in [1..3 -> PortText]
  PROVE  firstEnvInt(texts) \in AnyPort /\ FirstNumber(texts) = firstEnvInt(texts)
<1> DEFINE f == [k \in DOMAIN texts |-> Number(texts[k])]
<1>1. DOMAIN f = 1..3 /\ \A k \in 1..3 : f[k] = Number(texts[k]) /\ texts[k] \in PortText
  OBVIOUS
<1>2. FirstNumber(texts) = IF Preferred(f, Junk) = Junk THEN 0 ELSE Preferred(f, Junk)
  BY DEF FirstNumber
<1> HIDE DEF f
<1>3. Preferred(f, Junk) = IF f[1] # Junk THEN f[1] ELSE IF f[2] # Junk THEN f[2]
                           ELSE IF f[3] # Junk THEN f[3] ELSE Junk
  BY <1>1, PreferredOf3
<1>4. firstEnvInt(texts) = IF IsNumber(texts[1]) THEN texts[1][1]
                           ELSE IF IsNumber(texts[2]) THEN texts[2][1]
                           ELSE IF IsNumber(texts[3]) THEN texts[3][1] ELSE 0
  BY FirstIntOf3
<1> QED
  BY <1>1, <1>2, <1>3, <1>4, NumberIs, JunkIsNoPort

\* The same of one text.
LEMMA FirstNumber1 ==
  ASSUME NEW t \in PortText
  PROVE  firstEnvInt(<<t>>) \in AnyPort /\ FirstNumber(<<t>>) = firstEnvInt(<<t>>)
<1> DEFINE texts == <<t>>
           f     == [k \in DOMAIN texts |-> Number(texts[k])]
<1>1. DOMAIN f = {1} /\ f[1] = Number(t)
  OBVIOUS
<1>2. FirstNumber(texts) = IF Preferred(f, Junk) = Junk THEN 0 ELSE Preferred(f, Junk)
  BY DEF FirstNumber
<1> HIDE DEF f, texts
<1>3. Preferred(f, Junk) = f[1]
  <2>1. {k \in DOMAIN f : f[k] # Junk} = IF f[1] = Junk THEN {} ELSE {1}
    BY <1>1
  <2> QED
    BY <2>1 DEF Preferred
<1>4. firstEnvInt(texts) = IF IsNumber(t) THEN t[1] ELSE 0
  BY FirstIntOf1 DEF texts
<1> QED
  BY <1>1, <1>2, <1>3, <1>4, NumberIs, JunkIsNoPort DEF texts

\* An address as it is written: its host, and what a URL carries.
LEMMA WrittenIs ==
  ASSUME NEW a \in Written
  PROVE  /\ a.host \in Text(Addrs) /\ a.scheme \in Text(Schemes)
         /\ a.port = <<>> \/ (a.port[1] \in Ports /\ a.port # <<>>)
         /\ Plain(a.host) \in Written
         /\ Plain(a.host).host = a.host /\ Plain(a.host).port = <<>>
         /\ Plain(a.host).scheme = Blank
         /\ Plain(a.host) = Unset <=> a.host = Blank
<1>0. \A h \in Text(Addrs) : /\ Plain(h) \in Written
                             /\ Plain(h).host = h /\ Plain(h).port = <<>>
                             /\ Plain(h).scheme = Blank
                             /\ Plain(h) = Unset <=> h = Blank
  BY DEF Written, Plain, Unset
<1>1. CASE a \in {Plain(h) : h \in Text(Addrs)}
  BY <1>0, <1>1 DEF Text
<1>2. CASE a \in [scheme : Schemes, host : Text(Addrs),
                  port : {<<>>} \cup {<<n>> : n \in Ports}]
  <2>1. a.host \in Text(Addrs) /\ a.scheme \in Schemes
        /\ a.port \in {<<>>} \cup {<<n>> : n \in Ports}
    BY <1>2
  <2>2. a.port = <<>> \/ (a.port[1] \in Ports /\ a.port # <<>>)
    BY <2>1
  <2> QED
    BY <1>0, <2>1, <2>2 DEF Text
<1> QED
  BY <1>1, <1>2 DEF Written

\* Parsing: an own port or scheme wins, a URL's fills in, and the host stays.
LEMMA ParsedIs ==
  ASSUME NEW c \in Config
  PROVE  LET p == parseAdvertiseAddrs(c)
         IN  /\ p \in Config
             /\ p.AdvertiseAddr = Plain(c.AdvertiseAddr.host)
             /\ p.AdvertiseInternalAddr = Plain(c.AdvertiseInternalAddr.host)
             /\ p.AdvertisePort = PortOr(c.AdvertisePort, c.AdvertiseAddr)
             /\ p.AdvertiseInternalPort
                   = PortOr(c.AdvertiseInternalPort, c.AdvertiseInternalAddr)
             /\ p.AdvertiseScheme = SchemeOr(c.AdvertiseScheme, c.AdvertiseAddr)
             /\ p.AdvertiseInternalScheme
                   = SchemeOr(c.AdvertiseInternalScheme, c.AdvertiseInternalAddr)
<1>1. \A port \in AnyPort, a \in Written : PortOr(port, a) \in AnyPort
  BY WrittenIs DEF PortOr, AnyPort
<1>2. \A s \in Text(Schemes), a \in Written : SchemeOr(s, a) \in Text(Schemes)
  BY WrittenIs DEF SchemeOr
<1>3. /\ c.AdvertiseAddr \in Written /\ c.AdvertiseInternalAddr \in Written
      /\ c.AdvertisePort \in AnyPort /\ c.AdvertiseInternalPort \in AnyPort
      /\ c.AdvertiseScheme \in Text(Schemes)
      /\ c.AdvertiseInternalScheme \in Text(Schemes)
  BY DEF Config
<1>4. parseAdvertiseAddrs(c) \in Config
  BY <1>1, <1>2, <1>3, WrittenIs DEF parseAdvertiseAddrs, Config
<1> QED
  BY <1>4 DEF parseAdvertiseAddrs

\* The second parse changes nothing.
LEMMA ParsedTwice ==
  ASSUME NEW c \in Config
  PROVE  parseAdvertiseAddrs(parseAdvertiseAddrs(c)) = parseAdvertiseAddrs(c)
<1> DEFINE p == parseAdvertiseAddrs(c)
<1>1. p \in Config /\ parseAdvertiseAddrs(p) \in Config
  BY ParsedIs
<1>2. c.AdvertiseAddr \in Written /\ c.AdvertiseInternalAddr \in Written
  BY DEF Config
<1>3. /\ p.AdvertiseAddr = Plain(c.AdvertiseAddr.host)
      /\ p.AdvertiseInternalAddr = Plain(c.AdvertiseInternalAddr.host)
  BY ParsedIs
<1>4. /\ p.AdvertiseAddr.host = c.AdvertiseAddr.host
      /\ p.AdvertiseAddr.port = <<>> /\ p.AdvertiseAddr.scheme = Blank
      /\ p.AdvertiseInternalAddr.host = c.AdvertiseInternalAddr.host
      /\ p.AdvertiseInternalAddr.port = <<>> /\ p.AdvertiseInternalAddr.scheme = Blank
  BY <1>2, <1>3, WrittenIs
<1>5. \A port : PortOr(port, p.AdvertiseAddr) = port
                /\ PortOr(port, p.AdvertiseInternalAddr) = port
  BY <1>4 DEF PortOr
<1>6. \A s : SchemeOr(s, p.AdvertiseAddr) = s /\ SchemeOr(s, p.AdvertiseInternalAddr) = s
  BY <1>4 DEF SchemeOr
<1>7. parseAdvertiseAddrs(p) = [AdvertiseAddr           |-> p.AdvertiseAddr,
                                AdvertisePort           |-> p.AdvertisePort,
                                AdvertiseScheme         |-> p.AdvertiseScheme,
                                AdvertiseInternalAddr   |-> p.AdvertiseInternalAddr,
                                AdvertiseInternalPort   |-> p.AdvertiseInternalPort,
                                AdvertiseInternalScheme |-> p.AdvertiseInternalScheme]
  <2> HIDE DEF p
  <2> QED
    BY <1>3, <1>4, <1>5, <1>6 DEF parseAdvertiseAddrs
<1> HIDE DEF p
<1> QED
  BY <1>1, <1>7 DEF Config, p

\* What a registration holds, by whom it is.
LEMMA RegistrationIs ==
  ASSUME NEW r \in Registrations
  PROVE  /\ r.from \in {"env", "struct", "other"}
         /\ r.from = "env" => r.env \in Env /\ r.given \in Service
         /\ r.from = "struct" => r.config \in Config /\ r.given \in Service
         /\ r.from = "other" => r.entry \in Entry
<1>1. r \in Registration
  BY ConstantsAssumption
<1>2. CASE r \in [from : {"env"}, env : Env, given : Service]
  BY <1>2
<1>3. CASE r \in [from : {"struct"}, config : Config, given : Service]
  BY <1>3
<1>4. CASE r \in [from : {"other"}, entry : Entry]
  BY <1>4
<1> QED
  BY <1>1, <1>2, <1>3, <1>4 DEF Registration

\* The configuration before any parsing, whichever way it was written.
Raw(r) ==
    IF r.from = "struct" THEN r.config
    ELSE [AdvertiseAddr           |-> firstEnv(r.env.externalAddress),
          AdvertisePort           |-> firstEnvInt(r.env.externalPort),
          AdvertiseScheme         |-> Blank,
          AdvertiseInternalAddr   |-> r.env.internalAddress,
          AdvertiseInternalPort   |-> firstEnvInt(<<r.env.internalPort>>),
          AdvertiseInternalScheme |-> r.env.internalScheme]

\* What New makes of it.
Made(r) == parseAdvertiseAddrs(Raw(r))

\* The settings before parsing are those the operator wrote, one source each.
LEMMA RawIs ==
  ASSUME NEW r \in Registrations, r.from \in {"env", "struct"}
  PROVE  /\ Raw(r) \in Config
         /\ r.from = "env" =>
              /\ Raw(r).AdvertiseAddr = Preferred(r.env.externalAddress, Unset)
              /\ Raw(r).AdvertisePort = FirstNumber(r.env.externalPort)
              /\ Raw(r).AdvertiseScheme = Blank
              /\ Raw(r).AdvertiseInternalAddr = r.env.internalAddress
              /\ Raw(r).AdvertiseInternalPort = FirstNumber(<<r.env.internalPort>>)
              /\ Raw(r).AdvertiseInternalScheme = r.env.internalScheme
<1>1. CASE r.from = "struct"
  BY <1>1, RegistrationIs DEF Raw
<1>2. CASE r.from = "env"
  <2>1. /\ r.env.externalAddress \in [1..3 -> Written]
        /\ r.env.externalPort \in [1..3 -> PortText]
        /\ r.env.internalAddress \in Written /\ r.env.internalPort \in PortText
        /\ r.env.internalScheme \in Text(Schemes)
    BY <1>2, RegistrationIs DEF Env
  <2>2. Unset \in Written
    BY DEF Written, Unset, Text
  <2>3. /\ firstEnv(r.env.externalAddress) = Preferred(r.env.externalAddress, Unset)
        /\ firstEnv(r.env.externalAddress) \in Written
    BY <2>1, <2>2, FirstOf3, PreferredOf3
  <2>4. /\ firstEnvInt(r.env.externalPort) = FirstNumber(r.env.externalPort)
        /\ firstEnvInt(r.env.externalPort) \in AnyPort
    BY <2>1, FirstNumber3
  <2>5. /\ firstEnvInt(<<r.env.internalPort>>) = FirstNumber(<<r.env.internalPort>>)
        /\ firstEnvInt(<<r.env.internalPort>>) \in AnyPort
    BY <2>1, FirstNumber1
  <2>6. Blank \in Text(Schemes)
    BY DEF Text
  <2> DEFINE exAddr     == firstEnv(r.env.externalAddress)
             exPort == firstEnvInt(r.env.externalPort)
             inAddr     == r.env.internalAddress
             inPort == firstEnvInt(<<r.env.internalPort>>)
             scheme  == r.env.internalScheme
  <2>7. Raw(r) = [AdvertiseAddr           |-> exAddr,
                  AdvertisePort           |-> exPort,
                  AdvertiseScheme         |-> Blank,
                  AdvertiseInternalAddr   |-> inAddr,
                  AdvertiseInternalPort   |-> inPort,
                  AdvertiseInternalScheme |-> scheme]
    BY <1>2 DEF Raw
  <2>8. /\ exAddr \in Written /\ exPort \in AnyPort /\ inAddr \in Written
        /\ inPort \in AnyPort /\ scheme \in Text(Schemes)
    BY <2>1, <2>3, <2>4, <2>5
  <2>9. /\ Raw(r) \in Config
        /\ Raw(r).AdvertiseAddr = exAddr /\ Raw(r).AdvertisePort = exPort
        /\ Raw(r).AdvertiseScheme = Blank /\ Raw(r).AdvertiseInternalAddr = inAddr
        /\ Raw(r).AdvertiseInternalPort = inPort
        /\ Raw(r).AdvertiseInternalScheme = scheme
    <3> HIDE DEF exAddr, exPort, inAddr, inPort, scheme
    <3>1. /\ Raw(r).AdvertiseAddr = exAddr /\ Raw(r).AdvertisePort = exPort
          /\ Raw(r).AdvertiseScheme = Blank /\ Raw(r).AdvertiseInternalAddr = inAddr
          /\ Raw(r).AdvertiseInternalPort = inPort
          /\ Raw(r).AdvertiseInternalScheme = scheme
      BY <2>7
    <3>2. Raw(r) \in Config
      BY <2>6, <2>7, <2>8 DEF Config
    <3> QED
      BY <3>1, <3>2
  <2>10. /\ exAddr = Preferred(r.env.externalAddress, Unset)
         /\ exPort = FirstNumber(r.env.externalPort)
         /\ inPort = FirstNumber(<<r.env.internalPort>>)
    BY <2>3, <2>4, <2>5, Zenon
  <2> HIDE DEF exAddr, exPort, inPort
  <2> QED
    BY <2>9, <2>10, Zenon
<1> QED
  BY <1>1, <1>2

\* New makes the same of either way of writing a configuration.
LEMMA MadeByNew ==
  ASSUME NEW r \in Registrations
  PROVE  /\ r.from = "env" => withDefaults(ConfigFromEnv(r.env)) = Made(r)
         /\ r.from = "struct" => withDefaults(r.config) = Made(r)
<1>1. ASSUME r.from = "env" PROVE withDefaults(ConfigFromEnv(r.env)) = Made(r)
  <2>1. Raw(r) = [AdvertiseAddr           |-> firstEnv(r.env.externalAddress),
                  AdvertisePort           |-> firstEnvInt(r.env.externalPort),
                  AdvertiseScheme         |-> Blank,
                  AdvertiseInternalAddr   |-> r.env.internalAddress,
                  AdvertiseInternalPort   |-> firstEnvInt(<<r.env.internalPort>>),
                  AdvertiseInternalScheme |-> r.env.internalScheme]
    BY <1>1 DEF Raw
  <2>2. ConfigFromEnv(r.env) = parseAdvertiseAddrs(Raw(r))
    BY <2>1, Zenon DEF ConfigFromEnv
  <2>3. Raw(r) \in Config
    BY <1>1, RawIs
  <2> QED
    BY <2>2, <2>3, ParsedTwice DEF withDefaults, Made
<1>2. r.from = "struct" => withDefaults(r.config) = Made(r)
  BY DEF withDefaults, Made, Raw
<1> QED
  BY <1>1, <1>2

\* One endpoint as meant is the one that parsing makes.
LEMMA MeantIs ==
  ASSUME NEW a \in Written, NEW port \in AnyPort, NEW scheme \in Text(Schemes)
  PROVE  /\ Meant(a, port, scheme).host = a.host
         /\ Meant(a, port, scheme).port = PortOr(port, a)
         /\ Meant(a, port, scheme).scheme = SchemeOr(scheme, a)
<1>1. Preferred(<<port, IF a.port = <<>> THEN 0 ELSE a.port[1]>>, 0) = PortOr(port, a)
  <2> DEFINE f == <<port, IF a.port = <<>> THEN 0 ELSE a.port[1]>>
  <2>1. DOMAIN f = 1..2 /\ f[1] = port /\ f[2] = IF a.port = <<>> THEN 0 ELSE a.port[1]
    OBVIOUS
  <2> HIDE DEF f
  <2>2. Preferred(f, 0) = IF f[1] # 0 THEN f[1] ELSE IF f[2] # 0 THEN f[2] ELSE 0
    BY <2>1, PreferredOf2
  <2>3. Preferred(f, 0) = PortOr(port, a)
    BY <2>1, <2>2 DEF PortOr
  <2> QED
    BY <2>3 DEF f
<1>2. Preferred(<<scheme, a.scheme>>, Blank) = SchemeOr(scheme, a)
  <2> DEFINE f == <<scheme, a.scheme>>
  <2>1. DOMAIN f = 1..2 /\ f[1] = scheme /\ f[2] = a.scheme
    OBVIOUS
  <2> HIDE DEF f
  <2>2. Preferred(f, Blank) = IF f[1] # Blank THEN f[1] ELSE IF f[2] # Blank THEN f[2] ELSE Blank
    BY <2>1, PreferredOf2
  <2>3. Preferred(f, Blank) = SchemeOr(scheme, a)
    BY <2>1, <2>2 DEF SchemeOr
  <2> QED
    BY <2>3 DEF f
<1> QED
  BY <1>1, <1>2 DEF Meant

-----------------------------------------------------------------------------
(* What Register makes of the configuration.                               *)

\* A configuration that has been parsed: addresses are plain hosts.
Parsed(cfg) ==
    /\ cfg \in Config
    /\ cfg.AdvertiseAddr = Plain(cfg.AdvertiseAddr.host)
    /\ cfg.AdvertiseInternalAddr = Plain(cfg.AdvertiseInternalAddr.host)

\* A configuration that New made is parsed.
LEMMA MadeIsParsed ==
  ASSUME NEW r \in Registrations, r.from \in {"env", "struct"}
  PROVE  Parsed(Made(r))
<1> DEFINE c == Raw(r)
           p == Made(r)
<1>1. c \in Config
  BY RawIs
<1>2. /\ p \in Config
      /\ p.AdvertiseAddr = Plain(c.AdvertiseAddr.host)
      /\ p.AdvertiseInternalAddr = Plain(c.AdvertiseInternalAddr.host)
  BY <1>1, ParsedIs DEF Made
<1>3. c.AdvertiseAddr \in Written /\ c.AdvertiseInternalAddr \in Written
  BY <1>1 DEF Config
<1> QED
  BY <1>2, <1>3, WrittenIs DEF Parsed

\* The parts of a Service.
LEMMA ServiceIs ==
  ASSUME NEW svc \in Service
  PROVE  /\ svc.flat \in Endpoint /\ svc.External \in Pointer
         /\ svc.Internal \in Pointer /\ svc.meta \in Meta
         /\ svc.check \in HealthCheck
         /\ svc.flat.addr \in Text(Addrs) /\ svc.flat.port \in AnyPort
         /\ svc.flat.scheme \in Text(Schemes)
BY DEF Service, Endpoint

\* The endpoints of a configuration: one for each address, on a real host.
LEMMA EndpointsOf ==
  ASSUME NEW cfg, Parsed(cfg), NEW svc \in Service
  PROVE  /\ cfg.AdvertiseAddr = Unset <=> cfg.AdvertiseAddr.host = Blank
         /\ cfg.AdvertiseInternalAddr = Unset <=> cfg.AdvertiseInternalAddr.host = Blank
         /\ ExternalPort(cfg, svc) \in AnyPort
         /\ ExternalFor(cfg, svc) = <<>> \/
               /\ cfg.AdvertiseAddr # Unset
               /\ ExternalFor(cfg, svc)[1] \in Endpoint
               /\ ExternalFor(cfg, svc) = <<ExternalFor(cfg, svc)[1]>>
               /\ ExternalFor(cfg, svc)[1].addr \in Addrs
         /\ InternalFor(cfg, svc) = <<>> \/
               /\ InternalFor(cfg, svc)[1] \in Endpoint
               /\ InternalFor(cfg, svc) = <<InternalFor(cfg, svc)[1]>>
               /\ InternalFor(cfg, svc)[1].addr \in Addrs
<1>1. /\ cfg.AdvertiseAddr \in Written /\ cfg.AdvertiseInternalAddr \in Written
      /\ cfg.AdvertisePort \in AnyPort /\ cfg.AdvertiseInternalPort \in AnyPort
      /\ cfg.AdvertiseScheme \in Text(Schemes)
      /\ cfg.AdvertiseInternalScheme \in Text(Schemes)
  BY DEF Parsed, Config
<1>2. /\ cfg.AdvertiseAddr = Unset <=> cfg.AdvertiseAddr.host = Blank
      /\ cfg.AdvertiseInternalAddr = Unset <=> cfg.AdvertiseInternalAddr.host = Blank
      /\ cfg.AdvertiseAddr.host \in Addrs \cup {Blank}
      /\ cfg.AdvertiseInternalAddr.host \in Addrs \cup {Blank}
  BY <1>1, WrittenIs DEF Parsed, Text
<1>3. ExternalPort(cfg, svc) \in AnyPort
  BY <1>1, ServiceIs DEF ExternalPort
<1>4. ASSUME cfg.AdvertiseAddr # Unset
      PROVE  \E e \in Endpoint : ExternalFor(cfg, svc) = <<e>> /\ e.addr \in Addrs
  <2> DEFINE s == IF svc.flat.scheme # Blank THEN svc.flat.scheme
                  ELSE cfg.AdvertiseScheme
             e == [addr |-> cfg.AdvertiseAddr.host, port |-> ExternalPort(cfg, svc),
                   scheme |-> s]
  <2>1. s \in Text(Schemes)
    BY <1>1, ServiceIs
  <2>2. cfg.AdvertiseAddr.host \in Addrs
    BY <1>2, <1>4
  <2>3. ExternalFor(cfg, svc) = <<e>>
    BY <1>4 DEF ExternalFor
  <2> HIDE DEF s
  <2>4. e \in Endpoint /\ e.addr \in Addrs
    BY <1>3, <2>1, <2>2 DEF Endpoint, Text
  <2> QED
    BY <2>3, <2>4
<1>5. ASSUME cfg.AdvertiseInternalAddr # Unset
      PROVE  \E e \in Endpoint : InternalFor(cfg, svc) = <<e>> /\ e.addr \in Addrs
  <2> DEFINE p == IF cfg.AdvertiseInternalPort # 0 THEN cfg.AdvertiseInternalPort
                  ELSE IF cfg.AdvertiseAddr # Unset THEN ExternalPort(cfg, svc)
                  ELSE svc.flat.port
             s == IF cfg.AdvertiseInternalScheme # Blank
                  THEN cfg.AdvertiseInternalScheme ELSE Http
             e == [addr |-> cfg.AdvertiseInternalAddr.host, port |-> p, scheme |-> s]
  <2>1. s \in Text(Schemes)
    BY <1>1, ConstantsAssumption DEF Text
  <2>2. p \in AnyPort
    BY <1>1, <1>3, ServiceIs
  <2>3. cfg.AdvertiseInternalAddr.host \in Addrs
    BY <1>2, <1>5
  <2>4. InternalFor(cfg, svc) = <<e>>
    BY <1>5 DEF InternalFor
  <2> HIDE DEF p, s
  <2>5. e \in Endpoint /\ e.addr \in Addrs
    BY <2>1, <2>2, <2>3 DEF Endpoint, Text
  <2> QED
    BY <2>4, <2>5
<1>6. /\ cfg.AdvertiseAddr = Unset => ExternalFor(cfg, svc) = <<>>
      /\ cfg.AdvertiseInternalAddr = Unset => InternalFor(cfg, svc) = <<>>
  BY DEF ExternalFor, InternalFor
<1>7. \A e, x : x = <<e>> => x[1] = e /\ x = <<x[1]>>
  OBVIOUS
<1> QED
  BY <1>2, <1>3, <1>4, <1>5, <1>6, <1>7

\* Register keeps of the Service it is given neither endpoint nor flat field.
LEMMA AdvertisedIs ==
  ASSUME NEW cfg, Parsed(cfg), NEW svc \in Service
  PROVE  LET a == Advertised(cfg, svc)
         IN  /\ a.External = ExternalFor(cfg, svc)
             /\ a.Internal = InternalFor(cfg, svc)
             /\ a.meta = svc.meta /\ a.check = svc.check
<1> DEFINE x == ExternalFor(cfg, svc)
           y == InternalFor(cfg, svc)
           s == [svc EXCEPT !.flat = Zero, !.External = x, !.Internal = y]
<1>1. /\ s.flat = Zero /\ s.External = x /\ s.Internal = y
      /\ s.meta = svc.meta /\ s.check = svc.check
  <2> HIDE DEF x, y
  <2> QED
    BY DEF Service
<1>2. Advertised(cfg, svc) = normalizeEndpoints(s)
  BY DEF Advertised
<1> HIDE DEF x, y
<1>3. normalizeEndpoints(s) = mirrorFlat(s)
  <2> HIDE DEF s
  <2> QED
    BY <1>1 DEF normalizeEndpoints
<1>4. LET m == mirrorFlat(s)
      IN  /\ m.External = x /\ m.Internal = y
          /\ m.meta = svc.meta /\ m.check = svc.check
  <2> DEFINE root == IF rootEndpoint(s) = <<>> THEN Zero ELSE rootEndpoint(s)[1]
  <2>1. mirrorFlat(s) = [s EXCEPT !.flat = root]
    BY DEF mirrorFlat
  <2> HIDE DEF root
  <2> QED
    BY <1>1, <2>1 DEF Service
<1> QED
  BY <1>2, <1>3, <1>4 DEF x, y

\* The Meta keys of an endpoint are those that were written for it, whatever the
\* caller had left there.
LEMMA MetaIs ==
  ASSUME NEW svc, svc.External \in Pointer, svc.Internal \in Pointer
  PROVE  LET m == serviceMeta(svc)
         IN  /\ m \in Meta
             /\ IF svc.External = <<>>
                THEN m.external_address = Blank /\ m.scheme = Blank
                ELSE /\ m.external_address = svc.External[1].addr
                     /\ m.external_port = <<svc.External[1].port>>
                     /\ m.external_scheme = svc.External[1].scheme
                     /\ m.scheme = svc.External[1].scheme
             /\ IF svc.Internal = <<>> THEN m.internal_address = Blank
                ELSE /\ m.internal_address = svc.Internal[1].addr
                     /\ m.internal_port = <<svc.Internal[1].port>>
                     /\ m.internal_scheme = svc.Internal[1].scheme
<1> DEFINE m0 == Stripped(svc.meta)
           m1 == IF svc.External = <<>> THEN m0 ELSE WithExternal(m0, svc.External[1])
           m2 == IF svc.Internal = <<>> THEN m1 ELSE WithInternal(m1, svc.Internal[1])
<1>1. serviceMeta(svc) = m2
  BY DEF serviceMeta
<1>2. Blank \in Text(Addrs) /\ Blank \in Text(Schemes) /\ <<>> \in PortText
      /\ \A p \in AnyPort : <<p>> \in PortText
  BY DEF Text, PortText
<1>3. \A e \in Pointer : e # <<>> => /\ e[1].addr \in Text(Addrs)
                                    /\ e[1].port \in AnyPort
                                    /\ e[1].scheme \in Text(Schemes)
  BY DEF Pointer, Endpoint
<1>4. /\ m0 \in Meta /\ m0.scheme = Blank
      /\ m0.external_address = Blank /\ m0.external_scheme = Blank
      /\ m0.internal_address = Blank /\ m0.internal_scheme = Blank
  BY <1>2 DEF Stripped, NoReservedKeys, Meta
<1> HIDE DEF m0
<1>5. /\ m1 \in Meta
      /\ m1.internal_address = Blank /\ m1.internal_scheme = Blank
      /\ IF svc.External = <<>>
         THEN m1.external_address = Blank /\ m1.scheme = Blank
         ELSE /\ m1.external_address = svc.External[1].addr
              /\ m1.external_port = <<svc.External[1].port>>
              /\ m1.external_scheme = svc.External[1].scheme
              /\ m1.scheme = svc.External[1].scheme
  <2>1. CASE svc.External = <<>>
    BY <1>4, <2>1
  <2>2. CASE svc.External # <<>>
    <3> DEFINE e == svc.External[1]
    <3>1. e.addr \in Text(Addrs) /\ e.port \in AnyPort /\ e.scheme \in Text(Schemes)
      BY <1>3, <2>2
    <3>2. m1 = WithExternal(m0, e)
      BY <2>2
    <3> HIDE DEF e
    <3>3. WithExternal(m0, e) =
             [m0 EXCEPT !.external_address = e.addr, !.external_port = <<e.port>>,
                        !.external_scheme = e.scheme, !.scheme = e.scheme]
      BY <1>4 DEF WithExternal, Meta
    <3>4. <<e.port>> \in PortText
      BY <1>2, <3>1
    <3> DEFINE p == <<e.port>>
    <3>5. p = <<e.port>>
      OBVIOUS
    <3> HIDE DEF m1, p
    <3>6. m1 = [m0 EXCEPT !.external_address = e.addr, !.external_port = p,
                        !.external_scheme = e.scheme, !.scheme = e.scheme]
      BY <3>2, <3>3, <3>5
    <3>7. /\ m1 \in Meta
          /\ m1.internal_address = Blank /\ m1.internal_scheme = Blank
          /\ m1.external_address = e.addr /\ m1.external_port = p
          /\ m1.external_scheme = e.scheme /\ m1.scheme = e.scheme
      BY <1>4, <3>1, <3>4, <3>5, <3>6 DEF Meta
    <3> QED
      BY <2>2, <3>5, <3>7 DEF e
  <2> QED
    BY <2>1, <2>2
<1> HIDE DEF m1
<1>6. /\ m2 \in Meta
      /\ m2.external_address = m1.external_address /\ m2.scheme = m1.scheme
      /\ m2.external_port = m1.external_port
      /\ m2.external_scheme = m1.external_scheme
      /\ IF svc.Internal = <<>> THEN m2.internal_address = Blank
         ELSE /\ m2.internal_address = svc.Internal[1].addr
              /\ m2.internal_port = <<svc.Internal[1].port>>
              /\ m2.internal_scheme = svc.Internal[1].scheme
  <2>1. CASE svc.Internal = <<>>
    BY <1>5, <2>1
  <2>2. CASE svc.Internal # <<>>
    <3> DEFINE e == svc.Internal[1]
    <3>1. e.addr \in Text(Addrs) /\ e.port \in AnyPort /\ e.scheme \in Text(Schemes)
      BY <1>3, <2>2
    <3>2. m2 = WithInternal(m1, e)
      BY <2>2
    <3> HIDE DEF e
    <3>3. WithInternal(m1, e) =
             [m1 EXCEPT !.internal_address = e.addr, !.internal_port = <<e.port>>,
                        !.internal_scheme = e.scheme]
      BY <1>5 DEF WithInternal, Meta
    <3>4. <<e.port>> \in PortText
      BY <1>2, <3>1
    <3> DEFINE p == <<e.port>>
    <3>5. p = <<e.port>>
      OBVIOUS
    <3> HIDE DEF m2, p
    <3>6. m2 = [m1 EXCEPT !.internal_address = e.addr, !.internal_port = p,
                        !.internal_scheme = e.scheme]
      BY <3>2, <3>3, <3>5
    <3>7. /\ m2 \in Meta
          /\ m2.external_address = m1.external_address /\ m2.scheme = m1.scheme
          /\ m2.external_port = m1.external_port
          /\ m2.external_scheme = m1.external_scheme
          /\ m2.internal_address = e.addr /\ m2.internal_port = p
          /\ m2.internal_scheme = e.scheme
      BY <1>5, <3>1, <3>4, <3>5, <3>6 DEF Meta
    <3> QED
      BY <2>2, <3>5, <3>7 DEF e
  <2> QED
    BY <2>1, <2>2
<1> HIDE DEF m2
<1> QED
  BY <1>1, <1>5, <1>6

-----------------------------------------------------------------------------
(* What a consumer reads back.                                             *)

\* A pointer that is not nil leads to one endpoint.
LEMMA PointerIs ==
  ASSUME NEW x \in Pointer, x # <<>>
  PROVE  /\ x[1] \in Endpoint /\ x = <<x[1]>>
         /\ x = <<[addr |-> x[1].addr, port |-> x[1].port, scheme |-> x[1].scheme]>>
         /\ x[1].addr \in Text(Addrs) /\ x[1].port \in AnyPort
         /\ x[1].scheme \in Text(Schemes)
<1>1. PICK e \in Endpoint : x = <<e>>
  BY DEF Pointer
<1>2. x[1] = e
  BY <1>1
<1>3. /\ e = [addr |-> e.addr, port |-> e.port, scheme |-> e.scheme]
      /\ e.addr \in Text(Addrs) /\ e.port \in AnyPort /\ e.scheme \in Text(Schemes)
  BY DEF Endpoint
<1> QED
  BY <1>1, <1>2, <1>3

\* The fields of a Service that is read from an entry.
LEMMA ReadIs ==
  ASSUME NEW e
  PROVE  LET s == serviceFromEntry(e)
         IN  /\ s.External = ExternalIn(e) /\ s.Internal = InternalIn(e)
             /\ s.meta = e.meta /\ s.check = NoCheck
             /\ s = [flat |-> IF ExternalIn(e) # <<>> THEN ExternalIn(e)[1]
                              ELSE IF InternalIn(e) # <<>> THEN InternalIn(e)[1]
                              ELSE Zero,
                     External |-> ExternalIn(e), Internal |-> InternalIn(e),
                     meta |-> e.meta, check |-> NoCheck]
<1> DEFINE x == ExternalIn(e)
           y == InternalIn(e)
           r == [flat |-> Zero, External |-> x, Internal |-> y, meta |-> e.meta,
                 check |-> NoCheck]
           root == IF x # <<>> THEN x[1] ELSE IF y # <<>> THEN y[1] ELSE Zero
<1>1. serviceFromEntry(e) = mirrorFlat(r)
  BY DEF serviceFromEntry
<1> HIDE DEF x, y
<1>2. mirrorFlat(r) = [r EXCEPT !.flat = root]
  BY DEF mirrorFlat, rootEndpoint
<1> HIDE DEF root
<1>3. [r EXCEPT !.flat = root] = [flat |-> root, External |-> x, Internal |-> y,
                                  meta |-> e.meta, check |-> NoCheck]
  OBVIOUS
<1> QED
  BY <1>1, <1>2, <1>3 DEF x, y, root

\* What is written for the endpoints of a Service is read back as these.
LEMMA WrittenIsRead ==
  ASSUME NEW svc, svc.External \in Pointer, svc.Internal \in Pointer,
         svc.External # <<>> => svc.External[1].addr # Blank,
         svc.Internal # <<>> => svc.Internal[1].addr # Blank,
         svc.External # <<>> \/ svc.Internal # <<>>
  PROVE  /\ serviceFromEntry(EntryOf(svc)).External = svc.External
         /\ serviceFromEntry(EntryOf(svc)).Internal = svc.Internal
<1> DEFINE e == EntryOf(svc)
           m == serviceMeta(svc)
<1>1. e.meta = m
  BY DEF EntryOf
<1> HIDE DEF e, m
<1>2. \A p \in AnyPort : atoiSafe(<<p>>) = p
  BY DEF atoiSafe
<1>3. ExternalIn(e) = svc.External
  <2>1. CASE svc.External = <<>>
    <3>1. m.external_address = Blank /\ m.internal_address # Blank
      BY <2>1, MetaIs DEF m
    <3> QED
      BY <1>1, <2>1, <3>1 DEF ExternalIn
  <2>2. CASE svc.External # <<>>
    <3> DEFINE p == svc.External[1]
    <3>1. /\ m.external_address = p.addr /\ m.external_port = <<p.port>>
          /\ m.external_scheme = p.scheme /\ p.addr # Blank
      BY <2>2, MetaIs DEF m
    <3>2. /\ p.port \in AnyPort
          /\ svc.External = <<[addr |-> p.addr, port |-> p.port, scheme |-> p.scheme]>>
      BY <2>2, PointerIs
    <3>3. atoiSafe(m.external_port) = p.port
      BY <1>2, <3>1, <3>2
    <3> HIDE DEF p
    <3>4. ExternalIn(e) = <<[addr |-> p.addr, port |-> p.port, scheme |-> p.scheme]>>
      BY <1>1, <3>1, <3>3 DEF ExternalIn
    <3> QED
      BY <3>2, <3>4
  <2> QED
    BY <2>1, <2>2
<1>4. InternalIn(e) = svc.Internal
  <2>1. CASE svc.Internal = <<>>
    <3>1. m.internal_address = Blank
      BY <2>1, MetaIs DEF m
    <3> QED
      BY <1>1, <2>1, <3>1 DEF InternalIn
  <2>2. CASE svc.Internal # <<>>
    <3> DEFINE p == svc.Internal[1]
    <3>1. /\ m.internal_address = p.addr /\ m.internal_port = <<p.port>>
          /\ m.internal_scheme = p.scheme /\ p.addr # Blank
      BY <2>2, MetaIs DEF m
    <3>2. /\ p.port \in AnyPort
          /\ svc.Internal = <<[addr |-> p.addr, port |-> p.port, scheme |-> p.scheme]>>
      BY <2>2, PointerIs
    <3>3. atoiSafe(m.internal_port) = p.port
      BY <1>2, <3>1, <3>2
    <3> HIDE DEF p
    <3>4. InternalIn(e) = <<[addr |-> p.addr, port |-> p.port, scheme |-> p.scheme]>>
      BY <1>1, <3>1, <3>3 DEF InternalIn
    <3> QED
      BY <3>2, <3>4
  <2> QED
    BY <2>1, <2>2
<1> QED
  BY <1>3, <1>4, ReadIs DEF e

\* What Register does publishes the endpoints of the configuration.
LEMMA PublishedIsRead ==
  ASSUME NEW cfg, Parsed(cfg), NEW svc \in Service,
         NEW a, a = Advertised(cfg, svc),
         a.External # <<>> \/ a.Internal # <<>>
  PROVE  /\ serviceFromEntry(EntryOf(a)).External = ExternalFor(cfg, svc)
         /\ serviceFromEntry(EntryOf(a)).Internal = InternalFor(cfg, svc)
         /\ a.External = ExternalFor(cfg, svc) /\ a.Internal = InternalFor(cfg, svc)
         /\ a.check = svc.check
         /\ a.External \in Pointer /\ a.Internal \in Pointer
         /\ a.External # <<>> => a.External[1].addr \in Addrs
         /\ a.Internal # <<>> => a.Internal[1].addr \in Addrs
<1>1. /\ a.External = ExternalFor(cfg, svc) /\ a.Internal = InternalFor(cfg, svc)
      /\ a.check = svc.check
  BY AdvertisedIs
<1>2. \A e \in Endpoint : <<e>> \in Pointer
  BY DEF Pointer
<1>3. <<>> \in Pointer
  BY DEF Pointer
<1>4. a.External = <<>> \/ (/\ a.External[1] \in Endpoint
                            /\ a.External = <<a.External[1]>>
                            /\ a.External[1].addr \in Addrs)
  BY <1>1, EndpointsOf
<1>5. a.Internal = <<>> \/ (/\ a.Internal[1] \in Endpoint
                            /\ a.Internal = <<a.Internal[1]>>
                            /\ a.Internal[1].addr \in Addrs)
  BY <1>1, EndpointsOf
<1>6. a.External \in Pointer /\ a.Internal \in Pointer
  BY <1>2, <1>3, <1>4, <1>5
<1>7. Blank \notin Addrs
  BY ConstantsAssumption
<1> QED
  BY <1>1, <1>4, <1>5, <1>6, <1>7, WrittenIsRead

\* A TTL that is registered leaves room for two heartbeats, and is as long as the
\* one that was asked for.
LEMMA TTLIs ==
  ASSUME NEW check \in HealthCheck, TTLOf(check) # <<>>
  PROVE  /\ TTLOf(check)[1] \in Nat
         /\ 2 * heartbeatInterval(TTLOf(check)[1]) <= TTLOf(check)[1]
         /\ \A d \in {check.ttl[k] : k \in DOMAIN check.ttl} : d <= TTLOf(check)[1]
<1> DEFINE t == check.ttl
<1>0. /\ t \in Seq(Int \cup {Junk}) /\ Len(t) <= 1
      /\ TTLOf(check) = IF t = <<>> THEN <<defaultTTL>>
                        ELSE IF t = <<Junk>> THEN <<>>
                        ELSE <<ttlWithDefaults(t[1])>>
  BY DEF HealthCheck, TTLText, TTLOf
<1> HIDE DEF t
<1>1. TTLOf(check)[1] \in Nat /\ 2 * heartbeatInterval(TTLOf(check)[1]) <= TTLOf(check)[1]
      /\ \A k \in DOMAIN t : t[k] <= TTLOf(check)[1]
  <2>1. CASE t = <<>>
    <3>1. TTLOf(check)[1] = 30000
      BY <1>0, <2>1 DEF defaultTTL
    <3>2. DOMAIN t = {}
      BY <2>1
    <3> QED
      BY <3>1, <3>2 DEF heartbeatInterval, ttlHeartbeatFloor
  <2>2. CASE t # <<>>
    <3>1. /\ DOMAIN t = {1} /\ t[1] \in Int \cup {Junk}
          /\ t = <<t[1]>>
      <4>1. Len(t) \in Nat /\ DOMAIN t = 1..Len(t) /\ Len(t) # 0
        BY <1>0, <2>2
      <4>2. Len(t) = 1
        BY <1>0, <4>1
      <4>3. DOMAIN t = {1}
        BY <4>1, <4>2
      <4>4. t[1] \in Int \cup {Junk}
        BY <1>0, <4>2, 1 \in 1..Len(t), ElementOfSeq
      <4>5. t = <<t[1]>>
        <5>1. /\ <<t[1]>> \in Seq(Int \cup {Junk}) /\ Len(<<t[1]>>) = 1
              /\ <<t[1]>>[1] = t[1]
          BY <4>4
        <5> QED
          BY <1>0, <4>2, <5>1, SeqEqual
      <4> QED
        BY <4>3, <4>4, <4>5
    <3>2. t # <<Junk>>
      BY <1>0, <2>2
    <3>3. t[1] # Junk
      BY <3>1, <3>2
    <3>4. TTLOf(check)[1] = ttlWithDefaults(t[1]) /\ t[1] \in Int
      BY <1>0, <2>2, <3>1, <3>2, <3>3
    <3>5. /\ t[1] <= ttlWithDefaults(t[1])
          /\ 2 * heartbeatInterval(ttlWithDefaults(t[1])) <= ttlWithDefaults(t[1])
      BY <3>4, TwoBeatsPerTTL
    <3>6. ttlWithDefaults(t[1]) \in Nat
      BY <3>4 DEF ttlWithDefaults, ttlFloor
    <3> QED
      BY <3>1, <3>4, <3>5, <3>6
  <2> QED
    BY <2>1, <2>2
<1> QED
  BY <1>1 DEF t

\* What is read from an entry is a Service.
LEMMA ReadIsService ==
  ASSUME NEW e \in Entry
  PROVE  serviceFromEntry(e) \in Service
<1> DEFINE x == ExternalIn(e)
           y == InternalIn(e)
           root == IF x # <<>> THEN x[1] ELSE IF y # <<>> THEN y[1] ELSE Zero
<1>1. /\ e.addr \in Text(Addrs) /\ e.port \in AnyPort /\ e.meta \in Meta
      /\ e.meta.scheme \in Text(Schemes)
      /\ e.meta.external_address \in Text(Addrs)
      /\ e.meta.external_scheme \in Text(Schemes)
      /\ e.meta.internal_address \in Text(Addrs)
      /\ e.meta.internal_scheme \in Text(Schemes)
  BY DEF Entry, Meta
<1>2. \A t : atoiSafe(t) \in AnyPort
  BY DEF atoiSafe, AnyPort
<1>3. \A a \in Text(Addrs), p \in AnyPort, s \in Text(Schemes) :
         <<[addr |-> a, port |-> p, scheme |-> s]>> \in Pointer
  BY DEF Pointer, Endpoint
<1>4. x \in Pointer /\ y \in Pointer
  <2>1. <<>> \in Pointer
    BY DEF Pointer
  <2> QED
    BY <1>1, <1>2, <1>3, <2>1 DEF ExternalIn, InternalIn
<1>5. Zero \in Endpoint
  BY DEF Zero, Endpoint, Text, AnyPort
<1>6. NoCheck \in HealthCheck
  BY DEF NoCheck, HealthCheck, TTLText
<1> HIDE DEF x, y
<1>7. root \in Endpoint
  BY <1>4, <1>5, PointerIs
<1> HIDE DEF root
<1>8. [flat |-> root, External |-> x, Internal |-> y, meta |-> e.meta,
       check |-> NoCheck] \in Service
  BY <1>1, <1>4, <1>6, <1>7 DEF Service
<1> QED
  BY <1>8, ReadIs DEF x, y, root

\* What a call returns is an answer.
Answer ==
    [from : {"nothing", "endpoint", "fallback", "ErrEndpointViewUnavailable"},
     url : BOOLEAN, addr : Text(Addrs), port : AnyPort, scheme : Text(Schemes)]

\* What a call returns is an answer, and an endpoint among them is that of the view.
LEMMA OutcomeIs ==
  ASSUME NEW svc \in Service, NEW view \in {"external", "internal"},
         NEW asURL \in BOOLEAN, NEW fallback \in BOOLEAN
  PROVE  LET o == Outcome(svc, view, asURL, fallback)
         IN  /\ o \in Answer
             /\ o.from = "endpoint" => /\ EndpointFor(svc, view) # <<>>
                                       /\ o.addr = EndpointFor(svc, view)[1].addr
<1> DEFINE e    == EndpointFor(svc, view)
           miss == e = <<>> \/ (asURL /\ e[1].scheme = Blank)
<1>1. e \in Pointer
  BY ServiceIs DEF EndpointFor
<1>2. Outcome(svc, view, asURL, fallback) =
        IF ~miss
        THEN [from |-> "endpoint", url |-> asURL,
              addr |-> e[1].addr, port |-> e[1].port,
              scheme |-> IF asURL THEN e[1].scheme ELSE Blank]
        ELSE [from |-> IF fallback THEN "fallback" ELSE "ErrEndpointViewUnavailable",
              url |-> asURL, addr |-> Blank, port |-> 0, scheme |-> Blank]
  BY DEF Outcome
<1> HIDE DEF e
<1>3. Blank \in Text(Addrs) /\ Blank \in Text(Schemes) /\ 0 \in AnyPort
  BY DEF Text, AnyPort
<1>4. CASE miss
  <2>1. [from |-> IF fallback THEN "fallback" ELSE "ErrEndpointViewUnavailable",
         url |-> asURL, addr |-> Blank, port |-> 0, scheme |-> Blank] \in Answer
    BY <1>3 DEF Answer
  <2>2. (IF fallback THEN "fallback" ELSE "ErrEndpointViewUnavailable") # "endpoint"
    OBVIOUS
  <2> QED
    BY <1>2, <1>4, <2>1, <2>2
<1>5. CASE ~miss
  <2>1. e[1].addr \in Text(Addrs) /\ e[1].port \in AnyPort /\ e[1].scheme \in Text(Schemes)
    BY <1>1, <1>5, PointerIs
  <2>2. (IF asURL THEN e[1].scheme ELSE Blank) \in Text(Schemes)
    BY <1>3, <2>1
  <2>3. [from |-> "endpoint", url |-> asURL,
         addr |-> e[1].addr, port |-> e[1].port,
         scheme |-> IF asURL THEN e[1].scheme ELSE Blank] \in Answer
    BY <2>1, <2>2 DEF Answer
  <2> QED
    BY <1>2, <1>5, <2>3 DEF e
<1> QED
  BY <1>4, <1>5

-----------------------------------------------------------------------------
(* The invariant: each stage has what the ones before it made.             *)

\* A Manager has the configuration that New made for its provider.
Configured ==
    stage \notin {"written", "foreign", "foreignRead"} =>
        reg.from \in {"env", "struct"} /\ conf = Made(reg)

\* The entry, the probed endpoint and the TTL are those of one advertised Service.
Published ==
    stage \in {"published", "read"} =>
        LET a == Advertised(conf, reg.given)
        IN  /\ a.External # <<>> \/ a.Internal # <<>>
            /\ a.check.mode = "ttl" => TTLOf(a.check) # <<>>
            /\ entry = EntryOf(a)
            /\ probed = Probe(a)
            /\ ttl = IF a.check.mode = "ttl" THEN TTLOf(a.check)[1] ELSE 0

\* The cache has what the entry holds.
CachedIsRead ==
    stage \in {"read", "foreignRead"} => cached = serviceFromEntry(entry)

\* An answer is one of the cached Service.
Answered ==
    out.from # "nothing" =>
        /\ stage \in {"read", "foreignRead"}
        /\ out = Outcome(cached, asked.view, asked.asURL, asked.fallback)

IInv == TypeOK /\ Configured /\ Published /\ CachedIsRead /\ Answered

\* The invariant holds in every initial state.
LEMMA IInvInit == Init => IInv
<1> SUFFICES ASSUME Init PROVE IInv
  OBVIOUS
<1>1. Blank \in Text(Addrs) /\ Blank \in Text(Schemes) /\ 0 \in AnyPort
      /\ <<>> \in PortText /\ <<>> \in Pointer
  BY DEF Text, AnyPort, PortText, Pointer
<1>2. Unset \in Written
  BY <1>1 DEF Written, Unset
<1>3. conf \in Config
  BY <1>1, <1>2 DEF Init, Config
<1>4. NoReservedKeys \in Meta
  BY <1>1 DEF NoReservedKeys, Meta
<1>5. entry \in Entry
  BY <1>1, <1>4 DEF Init, Entry
<1>6. NoCheck \in HealthCheck
  BY DEF NoCheck, HealthCheck, TTLText
<1>7. Zero \in Endpoint
  BY <1>1 DEF Zero, Endpoint
<1>8. cached \in Service
  BY <1>1, <1>4, <1>6, <1>7 DEF Init, Service
<1>9. out \in [from : {"nothing", "endpoint", "fallback",
                       "ErrEndpointViewUnavailable"},
               url : BOOLEAN, addr : Text(Addrs), port : AnyPort,
               scheme : Text(Schemes)]
  BY <1>1 DEF Init
<1>10. TypeOK
  BY <1>1, <1>3, <1>5, <1>8, <1>9 DEF Init, TypeOK
<1> QED
  BY <1>10 DEF Init, IInv, Configured, Published, CachedIsRead, Answered

\* New keeps the invariant.
LEMMA NewKeeps ==
  ASSUME IInv, New
  PROVE  IInv'
<1>1. /\ reg \in Registrations /\ reg.from \in {"env", "struct"}
      /\ conf' = Made(reg) /\ stage' = "provider" /\ stage = "written"
      /\ UNCHANGED <<reg, entry, probed, ttl, cached, asked, out>>
  BY MadeByNew DEF New, IInv, TypeOK
<1>2. conf' \in Config
  BY <1>1, MadeIsParsed DEF Parsed
<1>3. TypeOK'
  BY <1>1, <1>2 DEF IInv, TypeOK
<1> QED
  BY <1>1, <1>3 DEF IInv, Configured, Published, CachedIsRead, Answered

\* Register keeps the invariant.
LEMMA RegisterKeeps ==
  ASSUME IInv, Register
  PROVE  IInv'
<1> DEFINE a == Advertised(conf, reg.given)
<1>1. /\ stage = "provider" /\ UNCHANGED <<reg, conf, cached, asked, out>>
      /\ \/ /\ stage' \in {"ErrNoEndpoint", "ErrInvalidTTL"}
            /\ UNCHANGED <<entry, probed, ttl>>
         \/ /\ stage' = "published"
            /\ a.External # <<>> \/ a.Internal # <<>>
            /\ a.check.mode = "ttl" => TTLOf(a.check) # <<>>
            /\ entry' = EntryOf(a) /\ probed' = Probe(a)
            /\ ttl' = IF a.check.mode = "ttl" THEN TTLOf(a.check)[1] ELSE 0
  BY DEF Register
<1> HIDE DEF a
<1>2. reg \in Registrations /\ reg.from \in {"env", "struct"} /\ conf = Made(reg)
  BY <1>1 DEF IInv, TypeOK, Configured
<1>3. Parsed(conf) /\ reg.given \in Service
  BY <1>2, MadeIsParsed, RegistrationIs
<1>4. CASE stage' \in {"ErrNoEndpoint", "ErrInvalidTTL"} /\ UNCHANGED <<entry, probed, ttl>>
  BY <1>1, <1>4 DEF IInv, TypeOK, Configured, Published, CachedIsRead, Answered
<1>5. CASE stage' = "published"
  <2>1. /\ a.External \in Pointer /\ a.Internal \in Pointer
        /\ a.check = reg.given.check
        /\ a.External # <<>> \/ a.Internal # <<>>
    BY <1>1, <1>3, <1>5, PublishedIsRead DEF a
  <2>2. entry' \in Entry
    <3> DEFINE root == rootEndpoint(a)[1]
    <3>1. root.addr \in Text(Addrs) /\ root.port \in AnyPort
      BY <2>1, PointerIs DEF rootEndpoint
    <3>2. serviceMeta(a) \in Meta
      BY <2>1, MetaIs
    <3>3. entry' = [addr |-> root.addr, port |-> root.port, meta |-> serviceMeta(a)]
      BY <1>1, <1>5 DEF EntryOf
    <3> HIDE DEF root
    <3> QED
      BY <3>1, <3>2, <3>3 DEF Entry
  <2>3. probed' \in Pointer
    <3>1. <<>> \in Pointer
      BY DEF Pointer
    <3> QED
      BY <1>1, <1>5, <2>1, <3>1 DEF Probe, EndpointFor
  <2>4. ttl' \in Nat
    <3>1. a.check \in HealthCheck
      BY <1>3, <2>1, ServiceIs
    <3> QED
      BY <1>1, <1>5, <3>1, TTLIs
  <2>5. TypeOK'
    BY <1>1, <1>5, <2>2, <2>3, <2>4 DEF IInv, TypeOK
  <2>6. Published'
    <3>1. Advertised(conf, reg.given)' = a
      BY <1>1 DEF a
    <3> QED
      BY <1>1, <1>5, <3>1 DEF Published
  <2> QED
    BY <1>1, <1>2, <1>5, <2>5, <2>6 DEF IInv, Configured, CachedIsRead, Answered
<1> QED
  BY <1>1, <1>4, <1>5

\* The invariant is inductive.
LEMMA IInvNext == IInv /\ [Next]_vars => IInv'
<1> SUFFICES ASSUME IInv, [Next]_vars PROVE IInv'
  OBVIOUS
<1>1. CASE ForeignRegister
  <2>1. reg.entry \in Entry
    BY <1>1, RegistrationIs DEF ForeignRegister, IInv, TypeOK
  <2> QED
    BY <1>1, <2>1
    DEF ForeignRegister, IInv, TypeOK, Configured, Published, CachedIsRead, Answered
<1>2. CASE Refresh
  <2>1. cached' \in Service
    BY <1>2, ReadIsService DEF Refresh, IInv, TypeOK
  <2>2. /\ stage \in {"published", "foreign"} /\ out.from = "nothing"
        /\ stage' = IF stage = "published" THEN "read" ELSE "foreignRead"
        /\ cached' = serviceFromEntry(entry)
        /\ UNCHANGED <<reg, conf, entry, probed, ttl, asked, out>>
    BY <1>2 DEF Refresh, IInv, Answered
  <2>3. TypeOK'
    BY <2>1, <2>2 DEF IInv, TypeOK
  <2> QED
    BY <2>2, <2>3 DEF IInv, Configured, Published, CachedIsRead, Answered
<1>3. ASSUME NEW view \in {"external", "internal"}, NEW asURL \in BOOLEAN,
             NEW fallback \in BOOLEAN, ResolveEndpoint(view, asURL, fallback)
      PROVE  IInv'
  <2>1. /\ stage \in {"read", "foreignRead"}
        /\ asked' = [view |-> view, asURL |-> asURL, fallback |-> fallback]
        /\ out' = Outcome(cached, view, asURL, fallback)
        /\ UNCHANGED <<reg, stage, conf, entry, probed, ttl, cached>>
    BY <1>3 DEF ResolveEndpoint
  <2>2. out' \in Answer
    BY <2>1, OutcomeIs DEF IInv, TypeOK
  <2>3. /\ asked' \in [view : {"external", "internal"}, asURL : BOOLEAN,
                       fallback : BOOLEAN]
        /\ asked'.view = view /\ asked'.asURL = asURL /\ asked'.fallback = fallback
    BY <2>1
  <2>4. TypeOK'
    BY <2>1, <2>2, <2>3 DEF IInv, TypeOK, Answer
  <2>5. Answered'
    BY <2>1, <2>3 DEF Answered
  <2> QED
    BY <2>1, <2>4, <2>5 DEF IInv, Configured, Published, CachedIsRead
<1>4. CASE UNCHANGED vars
  BY <1>4 DEF vars, IInv, TypeOK, Configured, Published, CachedIsRead, Answered
<1> QED
  BY <1>1, <1>2, <1>3, <1>4, NewKeeps, RegisterKeeps DEF Next

\* The invariant of the pipeline.
LEMMA IInvAlways == Spec => []IInv
BY IInvInit, IInvNext, PTL DEF Spec

-----------------------------------------------------------------------------
(* The properties of the pipeline.                                         *)

\* Every value of the pipeline is of its kind: no port but a number, no answer but
\* an endpoint, a fallback or the error.
THEOREM TypeCorrect == Spec => []TypeOK
BY IInvAlways, PTL DEF IInv

\* What the operator meant, field by field, in terms of New's configuration.
LEMMA MeantIsRaw ==
  ASSUME reg \in Registrations, reg.from \in {"env", "struct"}
  PROVE  /\ MeantExternal.host = Raw(reg).AdvertiseAddr.host
         /\ MeantExternal.port = Made(reg).AdvertisePort
         /\ MeantExternal.scheme = Made(reg).AdvertiseScheme
         /\ MeantInternal.host = Raw(reg).AdvertiseInternalAddr.host
         /\ MeantInternal.port = Made(reg).AdvertiseInternalPort
         /\ MeantInternal.scheme = Made(reg).AdvertiseInternalScheme
<1> DEFINE c == Raw(reg)
<1>1. /\ MeantExternal = Meant(c.AdvertiseAddr, c.AdvertisePort, c.AdvertiseScheme)
      /\ MeantInternal = Meant(c.AdvertiseInternalAddr, c.AdvertiseInternalPort,
                               c.AdvertiseInternalScheme)
  <2>1. CASE reg.from = "env"
    <3>1. /\ MeantExternal = Meant(Preferred(reg.env.externalAddress, Unset),
                                   FirstNumber(reg.env.externalPort), Blank)
          /\ MeantInternal = Meant(reg.env.internalAddress,
                                   FirstNumber(<<reg.env.internalPort>>),
                                   reg.env.internalScheme)
      BY <2>1, Zenon DEF MeantExternal, MeantInternal
    <3>2. /\ c.AdvertiseAddr = Preferred(reg.env.externalAddress, Unset)
          /\ c.AdvertisePort = FirstNumber(reg.env.externalPort)
          /\ c.AdvertiseScheme = Blank
          /\ c.AdvertiseInternalAddr = reg.env.internalAddress
          /\ c.AdvertiseInternalPort = FirstNumber(<<reg.env.internalPort>>)
          /\ c.AdvertiseInternalScheme = reg.env.internalScheme
      BY <2>1, RawIs
    <3> QED
      BY <3>1, <3>2, Zenon
  <2>2. CASE reg.from = "struct"
    BY <2>2 DEF MeantExternal, MeantInternal, Raw
  <2> QED
    BY <2>1, <2>2
<1>2. c \in Config
  BY RawIs
<1>3. /\ c.AdvertiseAddr \in Written /\ c.AdvertiseInternalAddr \in Written
      /\ c.AdvertisePort \in AnyPort /\ c.AdvertiseInternalPort \in AnyPort
      /\ c.AdvertiseScheme \in Text(Schemes)
      /\ c.AdvertiseInternalScheme \in Text(Schemes)
  BY <1>2 DEF Config
<1>4. /\ Made(reg).AdvertisePort = PortOr(c.AdvertisePort, c.AdvertiseAddr)
      /\ Made(reg).AdvertiseInternalPort
            = PortOr(c.AdvertiseInternalPort, c.AdvertiseInternalAddr)
      /\ Made(reg).AdvertiseScheme = SchemeOr(c.AdvertiseScheme, c.AdvertiseAddr)
      /\ Made(reg).AdvertiseInternalScheme
            = SchemeOr(c.AdvertiseInternalScheme, c.AdvertiseInternalAddr)
  BY <1>2, ParsedIs DEF Made
<1> HIDE DEF c
<1>5. /\ MeantExternal.host = c.AdvertiseAddr.host
      /\ MeantExternal.port = PortOr(c.AdvertisePort, c.AdvertiseAddr)
      /\ MeantExternal.scheme = SchemeOr(c.AdvertiseScheme, c.AdvertiseAddr)
  BY <1>1, <1>3, MeantIs
<1>6. /\ MeantInternal.host = c.AdvertiseInternalAddr.host
      /\ MeantInternal.port = PortOr(c.AdvertiseInternalPort, c.AdvertiseInternalAddr)
      /\ MeantInternal.scheme
            = SchemeOr(c.AdvertiseInternalScheme, c.AdvertiseInternalAddr)
  BY <1>1, <1>3, MeantIs
<1> QED
  BY <1>4, <1>5, <1>6 DEF c

\* The preferences among two and three candidates, written out.
LEMMA Prefers2 ==
  ASSUME NEW a, NEW b, NEW unset
  PROVE  Preferred(<<a, b>>, unset) = IF a # unset THEN a ELSE b
<1> DEFINE f == <<a, b>>
<1>1. DOMAIN f = 1..2 /\ f[1] = a /\ f[2] = b
  OBVIOUS
<1> HIDE DEF f
<1>2. Preferred(f, unset) = IF a # unset THEN a ELSE b
  BY <1>1, PreferredOf2
<1> QED
  BY <1>2 DEF f

\* What an operator wrote is what Register advertises, in whatever of the ways
\* the code accepts it was written: the two parses, the fallbacks of the ports and
\* the preferences among the variables compose to what they are meant for. Of the
\* two defaults that code and documents name for an internal port beside a
\* configured external one, it says no more than that it is one of them.
THEOREM WrittenIsAdvertised == Spec => []AdvertisedAsWritten
<1>1. ASSUME IInv PROVE AdvertisedAsWritten
  <2> SUFFICES ASSUME stage = "provider" PROVE AdvertisedAsWritten
    BY DEF AdvertisedAsWritten
  <2> DEFINE x     == MeantExternal
             y     == MeantInternal
             given == reg.given.flat
             xPort == Preferred(<<x.port, given.port>>, 0)
             xSch  == Preferred(<<given.scheme, x.scheme>>, Blank)
             yPort == IF y.port # 0 THEN y.port
                      ELSE IF x.host # Blank /\ x.port # 0 THEN x.port ELSE given.port
             ySch  == Preferred(<<y.scheme, Http>>, Blank)
  <2>1. /\ reg \in Registrations /\ reg.from \in {"env", "struct"}
        /\ conf = Made(reg) /\ reg.given \in Service
    BY <1>1, RegistrationIs DEF IInv, TypeOK, Configured
  <2>2. /\ xPort = IF x.port # 0 THEN x.port ELSE given.port
        /\ xSch = IF given.scheme # Blank THEN given.scheme ELSE x.scheme
        /\ ySch = IF y.scheme # Blank THEN y.scheme ELSE Http
    BY Prefers2
  <2>3. yPort \in InternalPorts(x, y, given)
    BY DEF InternalPorts
  <2>4. /\ x.host = Raw(reg).AdvertiseAddr.host
        /\ x.port = conf.AdvertisePort /\ x.scheme = conf.AdvertiseScheme
        /\ y.host = Raw(reg).AdvertiseInternalAddr.host
        /\ y.port = conf.AdvertiseInternalPort
        /\ y.scheme = conf.AdvertiseInternalScheme
    BY <2>1, MeantIsRaw
  <2>5. /\ Parsed(conf) /\ conf \in Config /\ Raw(reg) \in Config
        /\ conf.AdvertiseAddr = Plain(Raw(reg).AdvertiseAddr.host)
        /\ conf.AdvertiseInternalAddr = Plain(Raw(reg).AdvertiseInternalAddr.host)
    BY <2>1, MadeIsParsed, RawIs, ParsedIs DEF Made
  <2>6. /\ conf.AdvertiseAddr.host = x.host
        /\ conf.AdvertiseInternalAddr.host = y.host
        /\ conf.AdvertiseAddr = Unset <=> x.host = Blank
        /\ conf.AdvertiseInternalAddr = Unset <=> y.host = Blank
    <3>1. Raw(reg).AdvertiseAddr \in Written /\ Raw(reg).AdvertiseInternalAddr \in Written
      BY <2>5 DEF Config
    <3> QED
      BY <2>4, <2>5, <3>1, WrittenIs
  <2>7. conf.AdvertisePort \in Nat
    BY <2>5, JunkIsNoPort DEF Config
  <2> HIDE DEF x, y, given, xPort, xSch, yPort, ySch
  <2>8. ExternalPort(conf, reg.given) = xPort
    BY <2>2, <2>4, <2>7 DEF ExternalPort, given
  <2>9. ExternalFor(conf, reg.given) =
           IF x.host = Blank THEN <<>>
           ELSE <<[addr |-> x.host, port |-> xPort, scheme |-> xSch]>>
    BY <2>2, <2>4, <2>6, <2>8 DEF ExternalFor, given
  <2>10. InternalFor(conf, reg.given) =
           IF y.host = Blank THEN <<>>
           ELSE <<[addr |-> y.host, port |-> yPort, scheme |-> ySch]>>
    <3>1. yPort = IF conf.AdvertiseInternalPort # 0 THEN conf.AdvertiseInternalPort
                  ELSE IF conf.AdvertiseAddr # Unset THEN xPort ELSE given.port
      BY <2>2, <2>4, <2>6 DEF yPort
    <3> QED
      BY <2>2, <2>4, <2>6, <2>8, <3>1 DEF InternalFor, given
  <2> QED
    BY <2>3, <2>9, <2>10, Zenon
    DEF AdvertisedAsWritten, x, y, given, xPort, xSch, ySch
<1> QED
  BY <1>1, IInvAlways, PTL

\* What the provider of a consumer's endpoint advertised, all at once: the Service
\* a consumer has cached is that of the configuration.
LEMMA ReadOfPublished ==
  ASSUME IInv, stage \in {"published", "read"}
  PROVE  LET a == Advertised(conf, reg.given)
         IN  /\ Parsed(conf) /\ reg.given \in Service
             /\ a.External = ExternalFor(conf, reg.given)
             /\ a.Internal = InternalFor(conf, reg.given)
             /\ a.check = reg.given.check
             /\ a.External \in Pointer /\ a.Internal \in Pointer
             /\ a.External # <<>> \/ a.Internal # <<>>
             /\ entry = EntryOf(a) /\ probed = Probe(a)
             /\ serviceFromEntry(entry).External = ExternalFor(conf, reg.given)
             /\ serviceFromEntry(entry).Internal = InternalFor(conf, reg.given)
<1>1. /\ reg \in Registrations /\ reg.from \in {"env", "struct"} /\ conf = Made(reg)
  BY DEF IInv, TypeOK, Configured
<1>2. Parsed(conf) /\ reg.given \in Service
  BY <1>1, MadeIsParsed, RegistrationIs
<1> DEFINE a == Advertised(conf, reg.given)
<1>3. /\ a.External # <<>> \/ a.Internal # <<>>
      /\ entry = EntryOf(a) /\ probed = Probe(a)
  BY DEF IInv, Published
<1> QED
  BY <1>2, <1>3, PublishedIsRead

\* A consumer gets the endpoints of the configuration, all of them and no other,
\* with whatever endpoints and Meta keys the caller of Register came; and Consul
\* probes one of these.
THEOREM EndpointsSurvive == Spec => []RoundTrip
<1>1. ASSUME IInv PROVE RoundTrip
  <2> SUFFICES ASSUME stage = "read" PROVE RoundTrip
    BY DEF RoundTrip
  <2>1. cached = serviceFromEntry(entry)
    BY <1>1 DEF IInv, CachedIsRead
  <2> QED
    BY <1>1, <2>1, ReadOfPublished DEF RoundTrip, Probe, EndpointFor
<1> QED
  BY <1>1, IInvAlways, PTL

\* An external view never leads to an in-cluster address.
THEOREM ViewsAreNotMixed == Spec => []ExternalViewIsExternal
<1>1. ASSUME IInv PROVE ExternalViewIsExternal
  <2> SUFFICES ASSUME stage = "read", asked.view = "external", out.from = "endpoint"
               PROVE  conf.AdvertiseAddr # Unset /\ out.addr = conf.AdvertiseAddr.host
    BY DEF ExternalViewIsExternal
  <2>1. /\ cached \in Service /\ asked.view = "external"
        /\ asked.asURL \in BOOLEAN /\ asked.fallback \in BOOLEAN
    BY <1>1 DEF IInv, TypeOK
  <2>2. out = Outcome(cached, "external", asked.asURL, asked.fallback)
    BY <1>1 DEF IInv, Answered
  <2>3. EndpointFor(cached, "external") = cached.External
    BY DEF EndpointFor
  <2>4. cached.External # <<>> /\ out.addr = cached.External[1].addr
    BY <2>1, <2>2, <2>3, OutcomeIs
  <2>5. cached.External = ExternalFor(conf, reg.given)
    BY <1>1, ReadOfPublished DEF IInv, CachedIsRead
  <2>6. conf.AdvertiseAddr # Unset
    BY <2>4, <2>5 DEF ExternalFor
  <2>7. ExternalFor(conf, reg.given)[1].addr = conf.AdvertiseAddr.host
    BY <2>6 DEF ExternalFor
  <2> QED
    BY <2>4, <2>5, <2>6, <2>7
<1> QED
  BY <1>1, IInvAlways, PTL

\* A v0.6.0 reader of the root finds the external endpoint with its scheme, else
\* the internal one.
THEOREM RootServesOldReaders == Spec => []OldReadersFindRoot
<1>1. ASSUME IInv PROVE OldReadersFindRoot
  <2> SUFFICES ASSUME stage \in {"published", "read"} PROVE OldReadersFindRoot
    BY DEF OldReadersFindRoot
  <2> DEFINE a == Advertised(conf, reg.given)
             x == ExternalFor(conf, reg.given)
             y == InternalFor(conf, reg.given)
             m == serviceMeta(a)
  <2>1. /\ Parsed(conf) /\ reg.given \in Service
        /\ a.External = x /\ a.Internal = y
        /\ a.External \in Pointer /\ a.Internal \in Pointer
        /\ x # <<>> \/ y # <<>>
        /\ entry = EntryOf(a)
    BY <1>1, ReadOfPublished
  <2>2. x = <<>> <=> conf.AdvertiseAddr = Unset
    BY DEF ExternalFor
  <2>3. IF x = <<>> THEN m.scheme = Blank ELSE m.scheme = x[1].scheme
    BY <2>1, MetaIs
  <2> HIDE DEF a, x, y, m
  <2>4. /\ entry.addr = IF x # <<>> THEN x[1].addr ELSE y[1].addr
        /\ entry.port = IF x # <<>> THEN x[1].port ELSE y[1].port
        /\ entry.meta.scheme = m.scheme
    BY <2>1 DEF EntryOf, rootEndpoint, m
  <2>5. x # <<>> => x[1] = [addr |-> x[1].addr, port |-> x[1].port,
                            scheme |-> x[1].scheme]
    BY <2>1, PointerIs DEF Endpoint
  <2>6. y # <<>> => [y[1] EXCEPT !.scheme = Blank] =
                       [addr |-> y[1].addr, port |-> y[1].port, scheme |-> Blank]
    BY <2>1, PointerIs DEF Endpoint
  <2>7. [addr |-> entry.addr, port |-> entry.port, scheme |-> entry.meta.scheme]
           = IF conf.AdvertiseAddr # Unset THEN x[1]
             ELSE [y[1] EXCEPT !.scheme = Blank]
    BY <2>1, <2>2, <2>3, <2>4, <2>5, <2>6
  <2> QED
    BY <2>7, Zenon DEF OldReadersFindRoot, x, y
<1> QED
  BY <1>1, IInvAlways, PTL

\* An entry of v0.6.0 leads to its one endpoint, as an external one.
THEOREM OldEntriesAreRead == Spec => []OldEntriesAreExternal
<1>1. ASSUME IInv PROVE OldEntriesAreExternal
  <2> SUFFICES ASSUME stage = "foreignRead",
                      entry.meta = [NoReservedKeys EXCEPT !.scheme = entry.meta.scheme]
               PROVE  /\ cached.External = <<[addr |-> entry.addr, port |-> entry.port,
                                              scheme |-> entry.meta.scheme]>>
                      /\ cached.Internal = <<>>
    BY DEF OldEntriesAreExternal
  <2>1. entry.meta.external_address = Blank /\ entry.meta.internal_address = Blank
    BY DEF NoReservedKeys
  <2>2. cached.External = ExternalIn(entry) /\ cached.Internal = InternalIn(entry)
    BY <1>1, ReadIs DEF IInv, CachedIsRead
  <2> QED
    BY <2>1, <2>2 DEF ExternalIn, InternalIn
<1> QED
  BY <1>1, IInvAlways, PTL

\* Whatever TTL a caller asks for, its heartbeats come twice in the one it gets.
THEOREM HeartbeatsKeepUp == Spec => []BeatsTwicePerTTL
<1>1. ASSUME IInv PROVE BeatsTwicePerTTL
  <2> SUFFICES ASSUME stage = "published", ttl > 0 PROVE BeatsTwicePerTTL
    BY DEF BeatsTwicePerTTL
  <2> DEFINE a == Advertised(conf, reg.given)
  <2>1. a.check = reg.given.check /\ a.check \in HealthCheck
    BY <1>1, ReadOfPublished, ServiceIs
  <2>2. /\ a.check.mode = "ttl" => TTLOf(a.check) # <<>>
        /\ ttl = IF a.check.mode = "ttl" THEN TTLOf(a.check)[1] ELSE 0
    BY <1>1 DEF IInv, Published
  <2> HIDE DEF a
  <2>3. ttl = TTLOf(a.check)[1] /\ TTLOf(a.check) # <<>>
    BY <2>2
  <2> QED
    BY <2>1, <2>3, TTLIs DEF BeatsTwicePerTTL
<1> QED
  BY <1>1, IInvAlways, PTL
=============================================================================
