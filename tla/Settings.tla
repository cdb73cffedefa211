------------------------------ MODULE Settings ------------------------------
(***************************************************************************)
(* Plugin.Init (plugin.go): the configuration is read, the keys of the     *)
(* metrics section are read a second time into the section of its driver,  *)
(* defaults are filled in and the TLS files are looked up (config.go), the *)
(* files are loaded (tls.go), and the metrics reporter is made             *)
(* (metrics.go).  What is used at the end was decided some steps before,   *)
(* and the files may be replaced in between.                               *)
(*                                                                         *)
(* A metrics section is abstracted to its driver and to the address it     *)
(* gives in its own keys (flat) and in the section of either driver, which *)
(* is absent, or present with or without an address.                       *)
(***************************************************************************)
EXTENDS Naturals

CONSTANTS
    Absent,       \* nil: a section or a result that is not there
    Drivers,      \* the drivers a metrics section may name
    AuthTypes,    \* the values client_auth_type may have
    MaxReplaced   \* bound: how often a file is replaced

Empty == ""

Metrics ==
    [driver : Drivers, flat : {Empty, "flat"},
     prometheus : {Absent, Empty, "nested"}, statsd : {Absent, Empty, "nested"}]

TLS == [root_ca : BOOLEAN, auth : AuthTypes]

Files == {"key", "cert", "root_ca"}

(***************************************************************************)
(* The addresses and the sections there may be; nil is none of them.       *)
(***************************************************************************)
Addresses == {Empty, "flat", "nested", "127.0.0.1:9091", "127.0.0.1:8125"}

Sections ==
    [driver : Drivers \cup {"prometheus"}, flat : Addresses,
     prometheus : Addresses \cup {Absent}, statsd : Addresses \cup {Absent}]

ASSUME AbsentAssumption == Absent \notin Addresses /\ Absent \notin Sections

VARIABLES
    given,      \* the configuration as it is written
    file,       \* the files it names: missing, without certificate or good
    at,         \* where Init is
    metrics,    \* Config.Metrics
    auth,       \* Config.TLS.auth
    tlsCfg,     \* temporal.tlsCfg
    mh,         \* temporal.mh
    replaced    \* how often a file was replaced

vars == <<given, file, at, metrics, auth, tlsCfg, mh, replaced>>

Init ==
    /\ given \in [metrics : Metrics \cup {Absent}, tls : TLS \cup {Absent}]
    /\ file \in [Files -> {"missing", "empty", "good"}]
    /\ at = "config"
    /\ metrics = Absent
    /\ auth = Absent
    /\ tlsCfg = Absent
    /\ mh = Absent
    /\ replaced = 0

Fail ==
    /\ at' = "failed"
    /\ UNCHANGED <<given, file, metrics, auth, tlsCfg, mh, replaced>>

Goto(step) ==
    /\ at' = step
    /\ UNCHANGED <<given, file, replaced>>

-----------------------------------------------------------------------------
ReadConfig ==
    /\ at = "config"
    /\ \/ Fail
       \/ /\ Goto("keys")
          /\ metrics' = given.metrics
          /\ UNCHANGED <<auth, tlsCfg, mh>>

Overlay(section, address) ==
    IF address = Empty THEN (IF section = Absent THEN Empty ELSE section) ELSE address

(* Mutant: the keys are read for prometheus whatever the driver is. *)
KeysOfPrometheus ==
    /\ at = "keys"
    /\ Goto("defaults")
    /\ metrics' = IF metrics = Absent THEN Absent
                  ELSE [metrics EXCEPT !.prometheus = Overlay(@, metrics.flat)]
    /\ UNCHANGED <<auth, tlsCfg, mh>>

(* Mutant: an address the driver's section has is kept. *)
KeysKeepNested ==
    /\ at = "keys"
    /\ Goto("defaults")
    /\ metrics' = IF metrics = Absent THEN Absent
                  ELSE IF metrics.driver = "statsd"
                       THEN [metrics EXCEPT !.statsd =
                                IF @ \in {Absent, Empty} THEN metrics.flat ELSE @]
                       ELSE [metrics EXCEPT !.prometheus =
                                IF @ \in {Absent, Empty} THEN metrics.flat ELSE @]
    /\ UNCHANGED <<auth, tlsCfg, mh>>

(***************************************************************************)
(* The flat keys are unmarshalled over the section of the driver, which    *)
(* makes that section; any driver but statsd is taken for prometheus.      *)
(***************************************************************************)
WithKeys(m) ==
    IF m.driver = "statsd" THEN [m EXCEPT !.statsd = Overlay(@, m.flat)]
    ELSE [m EXCEPT !.prometheus = Overlay(@, m.flat)]

MetricsKeys ==
    /\ at = "keys"
    /\ \/ /\ Goto("defaults")
          /\ metrics' = IF metrics = Absent THEN Absent ELSE WithKeys(metrics)
          /\ UNCHANGED <<auth, tlsCfg, mh>>
       \/ metrics # Absent /\ Fail

(***************************************************************************)
(* InitDefault, up to the look at the files.                               *)
(***************************************************************************)
Default(section, address) == IF section = Empty THEN address ELSE section

WithDefaults(m) ==
    LET driver == IF m.driver = Empty THEN "prometheus" ELSE m.driver IN
    CASE driver = "prometheus" ->
             [m EXCEPT !.driver = driver,
                       !.prometheus = IF @ = Absent THEN "127.0.0.1:9091"
                                      ELSE Default(@, "127.0.0.1:9091")]
      [] driver = "statsd" ->
             [m EXCEPT !.statsd = IF @ = Absent THEN Absent
                                  ELSE Default(@, "127.0.0.1:8125")]
      [] OTHER -> m

InitDefault ==
    /\ at = "defaults"
    /\ Goto(IF given.tls = Absent THEN "metrics" ELSE "stat key")
    /\ metrics' = IF metrics = Absent THEN Absent ELSE WithDefaults(metrics)
    /\ UNCHANGED <<auth, tlsCfg, mh>>

(***************************************************************************)
(* os.Stat of the key and the certificate; of the CA when it is given, and *)
(* then the kind of client authentication, which has a default.            *)
(***************************************************************************)
StatKey ==
    /\ at = "stat key"
    /\ \/ Fail
       \/ /\ file["key"] # "missing"
          /\ Goto("stat cert")
          /\ UNCHANGED <<metrics, auth, tlsCfg, mh>>

StatCert ==
    /\ at = "stat cert"
    /\ \/ Fail
       \/ /\ file["cert"] # "missing"
          /\ Goto(IF given.tls.root_ca THEN "stat ca" ELSE "load")
          /\ UNCHANGED <<metrics, auth, tlsCfg, mh>>

AuthOf(type) ==
    IF type \in {"no_client_cert", "request_client_cert", "require_any_client_cert",
                 "verify_client_cert_if_given", "require_and_verify_client_cert"}
    THEN type ELSE "no_client_cert"

(* Mutant: the kind of client authentication is not looked at. *)
StatCAOnly ==
    /\ at = "stat ca"
    /\ file["root_ca"] # "missing"
    /\ Goto("load")
    /\ UNCHANGED <<metrics, auth, tlsCfg, mh>>

StatCA ==
    /\ at = "stat ca"
    /\ \/ Fail
       \/ /\ file["root_ca"] # "missing"
          /\ auth' = AuthOf(given.tls.auth)
          /\ Goto("load")
          /\ UNCHANGED <<metrics, tlsCfg, mh>>

-----------------------------------------------------------------------------
(***************************************************************************)
(* initTLS: the pair, then the system's certificates and the CA.  A CA     *)
(* file without a certificate returns no configuration and no error.       *)
(***************************************************************************)
LoadPair ==
    /\ at = "load"
    /\ \/ Fail
       \/ /\ file["key"] = "good" /\ file["cert"] = "good"
          /\ IF given.tls.root_ca
             THEN Goto("read ca") /\ UNCHANGED tlsCfg
             ELSE Goto("metrics") /\ tlsCfg' = [root_ca |-> FALSE, auth |-> Absent]
          /\ UNCHANGED <<metrics, auth, mh>>

AppendCA ==
    /\ at = "read ca"
    /\ \/ Fail
       \/ /\ file["root_ca"] # "missing"
          /\ tlsCfg' = IF file["root_ca"] = "good"
                       THEN [root_ca |-> TRUE, auth |-> auth] ELSE Absent
          /\ Goto("metrics")
          /\ UNCHANGED <<metrics, auth, mh>>

(***************************************************************************)
(* initMetrics: the section of the driver is dereferenced.                 *)
(***************************************************************************)
Reporter(section) ==
    /\ Goto(IF section = Absent THEN "panicked" ELSE "done")
    /\ mh' = IF section = Absent THEN Absent
             ELSE [driver |-> metrics.driver, address |-> section]

initMetrics ==
    /\ at = "metrics"
    /\ \/ /\ metrics = Absent
          /\ Goto("done")
          /\ UNCHANGED mh
       \/ metrics # Absent /\ metrics.driver = "prometheus" /\ Reporter(metrics.prometheus)
       \/ metrics # Absent /\ metrics.driver = "statsd" /\ Reporter(metrics.statsd)
    /\ UNCHANGED <<metrics, auth, tlsCfg>>

(***************************************************************************)
(* No reporter can be made, or the driver is unknown.                      *)
(***************************************************************************)
MetricsFail ==
    /\ at = "metrics"
    /\ metrics # Absent
    /\ Fail

Returned == at \in {"done", "failed", "panicked"}

FileReplaced(f) ==
    /\ ~Returned
    /\ replaced < MaxReplaced
    /\ replaced' = replaced + 1
    /\ file' \in {[file EXCEPT ![f] = s] : s \in {"missing", "empty", "good"}}
    /\ UNCHANGED <<given, at, metrics, auth, tlsCfg, mh>>

Next ==
    \/ ReadConfig \/ MetricsKeys \/ InitDefault
    \/ StatKey \/ StatCert \/ StatCA
    \/ LoadPair \/ AppendCA
    \/ initMetrics \/ MetricsFail
    \/ given.tls # Absent /\ \E f \in Files : FileReplaced(f)

Spec == Init /\ [][Next]_vars

-----------------------------------------------------------------------------
(***************************************************************************)
(* The metrics section the reporter is made from is there, whichever       *)
(* driver is named and however the section is written: the second reading  *)
(* of the keys has made it.                                                *)
(***************************************************************************)
SectionPresent == at # "panicked"

(***************************************************************************)
(* The metrics go to the driver the configuration names, prometheus if it  *)
(* names none, and to the address it gives: its own keys come before the   *)
(* section of the driver, the default after both.                          *)
(***************************************************************************)
MetricsAsGiven ==
    LET g == given.metrics
        nested == IF g.driver = "statsd" THEN g.statsd ELSE g.prometheus
        default == IF g.driver = "statsd" THEN "127.0.0.1:8125" ELSE "127.0.0.1:9091" IN
    at = "done" /\ g # Absent =>
        /\ mh.driver = IF g.driver = Empty THEN "prometheus" ELSE g.driver
        /\ mh.address = IF g.flat # Empty THEN g.flat
                        ELSE IF nested \notin {Absent, Empty} THEN nested ELSE default

(***************************************************************************)
(* A TLS configuration that was made is the one asked for: with the CA if  *)
(* and only if one is given, and then with the kind of client              *)
(* authentication that was named before the files were loaded.             *)
(***************************************************************************)
TLSAsGiven ==
    tlsCfg # Absent =>
        /\ given.tls # Absent
        /\ tlsCfg.root_ca = given.tls.root_ca
        /\ given.tls.root_ca => tlsCfg.auth = AuthOf(given.tls.auth)
=============================================================================
