--------------------------- MODULE SettingsProofs ---------------------------
(***************************************************************************)
(* Plugin.Init for every configuration: the metrics section is there when  *)
(* the reporter is made from it, and what is used at the end is what was   *)
(* given, whatever drivers and kinds of client authentication are named    *)
(* and however often the TLS files are replaced.                           *)
(***************************************************************************)
EXTENDS Settings, TLAPS

(***************************************************************************)
(* The metrics section of each step, from the one that was given; and what *)
(* the reporter, once it is made, is made from.                            *)
(***************************************************************************)
AfterDefaults ==
    {"stat key", "stat cert", "stat ca", "load", "read ca", "metrics", "done"}

Staged ==
    /\ at = "keys" => metrics = given.metrics
    /\ at = "defaults" =>
          metrics = IF given.metrics = Absent THEN Absent ELSE WithKeys(given.metrics)
    /\ at \in AfterDefaults =>
          metrics = IF given.metrics = Absent THEN Absent
                    ELSE WithDefaults(WithKeys(given.metrics))

(***************************************************************************)
(* The TLS steps are taken only for a TLS section, and the kind of client  *)
(* authentication was decided before the files are loaded.                 *)
(***************************************************************************)
Decided ==
    /\ at \in {"stat key", "stat cert", "stat ca", "load", "read ca"} => given.tls # Absent
    /\ at \in {"stat ca", "read ca"} => given.tls.root_ca
    /\ at \in {"load", "read ca"} /\ given.tls.root_ca => auth = AuthOf(given.tls.auth)

SettingsInv ==
    /\ given \in [metrics : Metrics \cup {Absent}, tls : TLS \cup {Absent}]
    /\ Staged
    /\ Decided
    /\ SectionPresent
    /\ MetricsAsGiven
    /\ TLSAsGiven

-----------------------------------------------------------------------------
(***************************************************************************)
(* Where the metrics of a section go.                                      *)
(***************************************************************************)
DriverOf(m) == IF m.driver = Empty THEN "prometheus" ELSE m.driver

AddressOf(m) ==
    LET nested == IF m.driver = "statsd" THEN m.statsd ELSE m.prometheus
        default == IF m.driver = "statsd" THEN "127.0.0.1:8125" ELSE "127.0.0.1:9091" IN
    IF m.flat # Empty THEN m.flat
    ELSE IF nested \notin {Absent, Empty} THEN nested ELSE default

(***************************************************************************)
(* The second reading of the keys makes the section of the driver.         *)
(***************************************************************************)
LEMMA KeysMakeSection ==
    ASSUME NEW m \in Metrics
    PROVE  /\ WithKeys(m) \in Sections
           /\ WithKeys(m).driver = m.driver
           /\ m.driver = "statsd" => WithKeys(m).statsd = Overlay(m.statsd, m.flat)
           /\ m.driver # "statsd" => WithKeys(m).prometheus = Overlay(m.prometheus, m.flat)
<1>1. /\ m \in Sections
      /\ m.flat \in {Empty, "flat"}
      /\ m.prometheus \in {Absent, Empty, "nested"}
      /\ m.statsd \in {Absent, Empty, "nested"}
  BY Zenon DEF Metrics, Sections, Addresses, Empty
<1>2. /\ Overlay(m.prometheus, m.flat) \in Addresses
      /\ Overlay(m.statsd, m.flat) \in Addresses
  BY <1>1, Zenon DEF Overlay, Addresses, Empty
<1>3. CASE m.driver = "statsd"
  BY <1>1, <1>2, <1>3 DEF WithKeys, Sections
<1>4. CASE m.driver # "statsd"
  BY <1>1, <1>2, <1>4 DEF WithKeys, Sections
<1> QED BY <1>3, <1>4

(***************************************************************************)
(* After the defaults the section of the driver is there, with the address *)
(* of the keys, of the section or of the default, in this order.           *)
(***************************************************************************)
LEMMA DefaultsGiveAddress ==
    ASSUME NEW m \in Metrics
    PROVE  LET d == WithDefaults(WithKeys(m)) IN
           /\ d # Absent
           /\ d.driver = DriverOf(m)
           /\ d.driver = "prometheus" => d.prometheus = AddressOf(m)
           /\ d.driver = "statsd" => d.statsd = AddressOf(m)
           /\ AddressOf(m) # Absent
<1> DEFINE k == WithKeys(m)
           d == WithDefaults(k)
<1>1. /\ k \in Sections
      /\ k.driver = m.driver
      /\ m.driver = "statsd" => k.statsd = Overlay(m.statsd, m.flat)
      /\ m.driver # "statsd" => k.prometheus = Overlay(m.prometheus, m.flat)
  BY KeysMakeSection
<1>2. /\ m.driver \in Drivers /\ m.flat \in {Empty, "flat"}
      /\ m.prometheus \in {Absent, Empty, "nested"}
      /\ m.statsd \in {Absent, Empty, "nested"}
  BY DEF Metrics
<1> HIDE DEF k
<1>3. CASE m.driver \in {Empty, "prometheus"}
  <2>1. d = [k EXCEPT !.driver = "prometheus",
                      !.prometheus = IF @ = Absent THEN "127.0.0.1:9091"
                                     ELSE Default(@, "127.0.0.1:9091")]
    BY <1>1, <1>3, Zenon DEF WithDefaults, Empty
  <2>2. /\ d \in Sections /\ d.driver = "prometheus"
        /\ d.prometheus = IF k.prometheus = Absent THEN "127.0.0.1:9091"
                          ELSE Default(k.prometheus, "127.0.0.1:9091")
    BY <1>1, <2>1, Zenon DEF Default, Sections, Addresses
  <2> HIDE DEF d
  <2>3. d.prometheus = AddressOf(m) /\ AddressOf(m) # Absent
    BY <1>1, <1>2, <1>3, <2>2, AbsentAssumption, Zenon DEF Overlay, Default, AddressOf,
       Addresses,
       Empty
  <2> QED BY <1>3, <2>2, <2>3, AbsentAssumption DEF DriverOf, d, k
<1>4. CASE m.driver = "statsd"
  <2>1. d = [k EXCEPT !.statsd = IF @ = Absent THEN Absent
                                 ELSE Default(@, "127.0.0.1:8125")]
    BY <1>1, <1>4 DEF WithDefaults, Empty
  <2>2. /\ d \in Sections /\ d.driver = "statsd"
        /\ d.statsd = IF k.statsd = Absent THEN Absent
                      ELSE Default(k.statsd, "127.0.0.1:8125")
    BY <1>1, <1>4, <2>1 DEF Default, Sections, Addresses
  <2> HIDE DEF d
  <2>3. d.statsd = AddressOf(m) /\ AddressOf(m) # Absent
    BY <1>1, <1>2, <1>4, <2>2, AbsentAssumption, Zenon DEF Overlay, Default, AddressOf,
       Addresses,
       Empty
  <2> QED BY <1>4, <2>2, <2>3, AbsentAssumption DEF DriverOf, Empty, d, k
<1>5. CASE m.driver \notin {Empty, "prometheus", "statsd"}
  <2>1. d = k
    BY <1>1, <1>5 DEF WithDefaults
  <2>2. AddressOf(m) # Absent
    BY <1>2, AbsentAssumption, Zenon DEF AddressOf, Addresses, Empty
  <2> HIDE DEF d
  <2> QED BY <1>1, <1>5, <2>1, <2>2, AbsentAssumption DEF DriverOf, d, k
<1> QED BY <1>3, <1>4, <1>5

-----------------------------------------------------------------------------
(***************************************************************************)
(* Every step of Init keeps SettingsInv.                                   *)
(***************************************************************************)
LEMMA SettingsStep == SettingsInv /\ [Next]_vars => SettingsInv'
<1> SUFFICES ASSUME SettingsInv, [Next]_vars PROVE SettingsInv'
  OBVIOUS
<1> USE DEF SettingsInv
<1>1. CASE UNCHANGED vars
  BY <1>1, ZenonT(60) DEF vars, Staged, Decided, SectionPresent, MetricsAsGiven, TLSAsGiven
<1>2. CASE Fail
  BY <1>2, Zenon DEF Fail, Staged, Decided, SectionPresent, MetricsAsGiven, TLSAsGiven,
              AfterDefaults
<1>3. CASE \E f \in Files : FileReplaced(f)
  BY <1>3, ZenonT(60) DEF FileReplaced, Returned, Staged, Decided, SectionPresent,
              MetricsAsGiven, TLSAsGiven
<1>4. CASE ReadConfig
  BY <1>2, <1>4, Zenon DEF ReadConfig, Goto, Staged, Decided, SectionPresent,
                    MetricsAsGiven, TLSAsGiven, AfterDefaults
<1>5. CASE MetricsKeys
  BY <1>2, <1>5, Zenon DEF MetricsKeys, Goto, Staged, Decided, SectionPresent,
                    MetricsAsGiven, TLSAsGiven, AfterDefaults
<1>6. CASE InitDefault
  <2>1. /\ UNCHANGED <<given, tlsCfg, mh, auth>>
        /\ at' \in {"metrics", "stat key"}
        /\ at' = "stat key" => given.tls # Absent
    BY <1>6, Zenon DEF InitDefault, Goto
  <2>2. metrics' = IF given.metrics = Absent THEN Absent
                   ELSE WithDefaults(WithKeys(given.metrics))
    <3>1. CASE given.metrics = Absent
      BY <1>6, <3>1, Zenon DEF InitDefault, Staged
    <3>2. CASE given.metrics # Absent
      <4>1. WithKeys(given.metrics) # Absent
        BY <3>2, KeysMakeSection, AbsentAssumption
      <4> QED BY <1>6, <3>2, <4>1, Zenon DEF InitDefault, Staged
    <3> QED BY <3>1, <3>2
  <2> QED BY <2>1, <2>2, Zenon DEF Staged, Decided, SectionPresent, MetricsAsGiven,
                            TLSAsGiven, AfterDefaults
<1>7. CASE StatKey \/ StatCert \/ StatCA
  BY <1>2, <1>7, Zenon DEF StatKey, StatCert, StatCA, Goto, Staged, Decided,
                    SectionPresent, MetricsAsGiven, TLSAsGiven, AfterDefaults
<1>8. CASE LoadPair
  <2>1. CASE ~Fail
    <3>1. /\ at = "load" /\ UNCHANGED <<given, metrics, auth, mh>>
          /\ given.tls # Absent
          /\ \/ given.tls.root_ca /\ at' = "read ca" /\ UNCHANGED tlsCfg
             \/ /\ given.tls.root_ca = FALSE /\ at' = "metrics"
                /\ tlsCfg' = [root_ca |-> FALSE, auth |-> Absent]
      BY <1>8, <2>1, Zenon DEF LoadPair, Goto, Decided, TLS
    <3>2. TLSAsGiven'
      <4>1. CASE given.tls.root_ca /\ UNCHANGED tlsCfg
        BY <3>1, <4>1, Zenon DEF TLSAsGiven
      <4>2. CASE /\ given.tls.root_ca = FALSE
                 /\ tlsCfg' = [root_ca |-> FALSE, auth |-> Absent]
        <5>1. tlsCfg'.root_ca = FALSE
          BY <4>2
        <5>2. tlsCfg'.root_ca = given.tls.root_ca /\ ~given.tls.root_ca
          BY <4>2, <5>1, Zenon
        <5> QED BY <3>1, <5>2, Zenon DEF TLSAsGiven
      <4> QED BY <3>1, <4>1, <4>2, Zenon
    <3>3. Staged'
      BY <3>1, Zenon DEF Staged, AfterDefaults
    <3>4. Decided'
      BY <3>1, Zenon DEF Decided
    <3>5. SectionPresent' /\ MetricsAsGiven'
      BY <3>1, Zenon DEF SectionPresent, MetricsAsGiven
    <3> QED BY <3>1, <3>2, <3>3, <3>4, <3>5, Zenon
  <2> QED BY <1>2, <2>1
<1>9. CASE AppendCA
  <2>1. CASE ~Fail
    <3>1. /\ at = "read ca" /\ at' = "metrics" /\ UNCHANGED <<given, metrics, auth, mh>>
          /\ given.tls # Absent /\ given.tls.root_ca = TRUE
          /\ auth = AuthOf(given.tls.auth)
          /\ tlsCfg' \in {Absent, [root_ca |-> TRUE, auth |-> auth]}
      BY <1>9, <2>1, Zenon DEF AppendCA, Goto, Decided, TLS
    <3>2. TLSAsGiven'
      <4>1. CASE tlsCfg' = [root_ca |-> TRUE, auth |-> auth]
        <5>1. tlsCfg'.root_ca = TRUE /\ tlsCfg'.auth = auth
          BY <4>1
        <5>2. tlsCfg'.root_ca = given.tls.root_ca /\ tlsCfg'.auth = AuthOf(given.tls.auth)
          BY <3>1, <5>1, Zenon
        <5> QED BY <3>1, <5>2, Zenon DEF TLSAsGiven, AuthOf
      <4>2. CASE tlsCfg' = Absent
        BY <4>2 DEF TLSAsGiven
      <4> QED BY <3>1, <4>1, <4>2, Zenon
    <3>3. Staged'
      BY <3>1, Zenon DEF Staged, AfterDefaults
    <3>4. Decided'
      BY <3>1, Zenon DEF Decided
    <3>5. SectionPresent' /\ MetricsAsGiven'
      BY <3>1, Zenon DEF SectionPresent, MetricsAsGiven
    <3> QED BY <3>1, <3>2, <3>3, <3>4, <3>5, Zenon
  <2> QED BY <1>2, <2>1
<1>10. CASE MetricsFail
  BY <1>2, <1>10 DEF MetricsFail
<1>11. CASE initMetrics
  <2>1. /\ at = "metrics" /\ UNCHANGED <<given, metrics, auth, tlsCfg>>
        /\ metrics = IF given.metrics = Absent THEN Absent
                     ELSE WithDefaults(WithKeys(given.metrics))
    BY <1>11 DEF initMetrics, Goto, Reporter, Staged, AfterDefaults
  <2>2. CASE given.metrics = Absent
    BY <1>11, <2>1, <2>2 DEF initMetrics, Goto, Staged, Decided, SectionPresent,
                             MetricsAsGiven, TLSAsGiven, AfterDefaults
  <2>3. CASE given.metrics # Absent
    <3>1. /\ given.metrics \in Metrics
          /\ metrics = WithDefaults(WithKeys(given.metrics))
      BY <2>1, <2>3
    <3>2. /\ metrics # Absent
          /\ metrics.driver = DriverOf(given.metrics)
          /\ metrics.driver = "prometheus" => metrics.prometheus = AddressOf(given.metrics)
          /\ metrics.driver = "statsd" => metrics.statsd = AddressOf(given.metrics)
          /\ AddressOf(given.metrics) # Absent
      BY <3>1, DefaultsGiveAddress
    <3>3. /\ at' = "done"
          /\ mh' = [driver |-> DriverOf(given.metrics), address |-> AddressOf(given.metrics)]
      BY <1>11, <3>2 DEF initMetrics, Reporter, Goto
    <3>4. MetricsAsGiven'
      BY <2>1, <3>3 DEF MetricsAsGiven, DriverOf, AddressOf
    <3> QED BY <2>1, <3>3, <3>4 DEF Staged, Decided, SectionPresent, TLSAsGiven,
                                    AfterDefaults
  <2> QED BY <2>2, <2>3
<1> QED BY <1>1, <1>3, <1>4, <1>5, <1>6, <1>7, <1>8, <1>9, <1>10, <1>11 DEF Next

(***************************************************************************)
(* Init starts with a configuration that has been neither read nor used.   *)
(***************************************************************************)
LEMMA SettingsInvariant == Spec => []SettingsInv
<1>1. Init => SettingsInv
  BY DEF Init, SettingsInv, Staged, Decided, SectionPresent, MetricsAsGiven,
         TLSAsGiven, AfterDefaults
<1> QED BY <1>1, SettingsStep, PTL DEF Spec

(***************************************************************************)
(* No configuration makes initMetrics dereference a section that is nil.   *)
(***************************************************************************)
THEOREM SectionIsPresent == Spec => []SectionPresent
<1>1. SettingsInv => SectionPresent
  BY DEF SettingsInv
<1> QED BY <1>1, SettingsInvariant, PTL

(***************************************************************************)
(* The metrics go where the configuration says.                            *)
(***************************************************************************)
THEOREM MetricsAreAsGiven == Spec => []MetricsAsGiven
<1>1. SettingsInv => MetricsAsGiven
  BY DEF SettingsInv
<1> QED BY <1>1, SettingsInvariant, PTL

(***************************************************************************)
(* However often the files are replaced between the look at them and their *)
(* loading, a TLS configuration that was made is the one asked for.        *)
(***************************************************************************)
THEOREM TLSIsAsGiven == Spec => []TLSAsGiven
<1>1. SettingsInv => TLSAsGiven
  BY DEF SettingsInv
<1> QED BY <1>1, SettingsInvariant, PTL
=============================================================================
