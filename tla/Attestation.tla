---------------------------- MODULE Attestation ----------------------------
(***************************************************************************)
(* The certificate the query enclave shows (tx-query/enclave attest.rs,    *)
(* cert.rs): a key pair is made, Intel's attestation service signs a       *)
(* report on it, and a certificate carries the report.  The certificate    *)
(* and the TLS configuration made from it are cached for a day.  And what  *)
(* a client makes of the certificate (client-index cipher/sgx.rs).         *)
(*                                                                         *)
(* The attestation service is external: each time it is unreachable, or    *)
(* closes the connection, or answers with an error, nonsense, a part of    *)
(* what is expected, or a good response.  The clock may be set back.       *)
(***************************************************************************)
EXTENDS Integers

CONSTANTS
  Day,            \* max_allowed_diff: how long a certificate is reused
  MaxTime         \* bound: the clock runs in 0 .. MaxTime

ASSUME ClockAssumption == Day \in Nat \ {0} /\ MaxTime \in Nat

VARIABLES
  now,            \* SystemTime::now()
  racache,        \* RACACHE: the certificate and when it was made
  svrconfig       \* SVRCONFIGCACHE: the certificates with a TLS configuration

attestationVars == <<now, racache, svrconfig>>

\* The caches of a new enclave: no certificate, made at the epoch.
NoCache == [serial |-> 0, report |-> FALSE, gen_time |-> -Day]

-----------------------------------------------------------------------------
(* The attestation service *)

IasAnswer == {"unreachable", "closed", "not_200", "malformed", "partial", "good"}

\* A list needs its Content-Length header: without it there is no list.
get_sigrl_from_intel(answer) == answer = "good"

\* A report whose headers are missing is a report with empty fields.
get_report_from_intel(answer) == answer \in {"good", "partial"}

\* A host name that does not resolve or a connection that is refused panics in
\* the ocall, outside the enclave.
ocall_get_ias_socket(answer) == answer # "unreachable"

-----------------------------------------------------------------------------
(* The report.  i holds what each call answers: init (the platform has a    *)
(* quoting enclave), sigrl (the three attempts), quote (the quote is made   *)
(* and passes its checks), report.                                          *)

Interaction == [key : BOOLEAN, init : BOOLEAN, sigrl : [1 .. 3 -> IasAnswer],
                quote : BOOLEAN, report : IasAnswer]

\* Up to three attempts, each on a new connection.
sigrl_acquired(sigrl) ==
  LET made == {k \in 1 .. 3 : \A j \in 1 .. k - 1 :
                 ocall_get_ias_socket(sigrl[j]) /\ ~get_sigrl_from_intel(sigrl[j])} IN
  CASE \E k \in made : ~ocall_get_ias_socket(sigrl[k]) -> "abort"
    [] \E k \in made : get_sigrl_from_intel(sigrl[k]) -> "ok"
    [] OTHER -> "err"

create_attestation_report(i) ==
  CASE ~i.init -> "err"
    [] i.init /\ sigrl_acquired(i.sigrl) # "ok" -> sigrl_acquired(i.sigrl)
    [] OTHER -> IF ~i.quote THEN "err"
                ELSE IF ~ocall_get_ias_socket(i.report) THEN "abort"
                ELSE IF ~get_report_from_intel(i.report) THEN "err"
                ELSE IF i.report = "good" THEN "ok" ELSE "empty"

\* An API key of the wrong length or with other characters is an error.
Renewal(i) == IF ~i.key THEN "err" ELSE create_attestation_report(i)

\* Everything a renewal may come to: a certificate with a report, one with an
\* empty report, an error, the end of the process.
RenewalResults == {Renewal(i) : i \in Interaction}

-----------------------------------------------------------------------------
(* The caches *)

\* Mutant: a clock that was set back counts as no time elapsed.
SaturatingAge(gen_time) == now - gen_time < Day

is_tls_config_updated(gen_time) == now >= gen_time /\ now - gen_time < Day

\* A new key pair in a new certificate; one of two serials, since no more than
\* two certificates are ever told apart.
renew_ra_cert(result) ==
  racache' = [serial |-> 1 - racache.serial, report |-> result = "ok", gen_time |-> now]

\* The cached certificate, or a renewed one; a renewal that fails panics while
\* it holds the cache's lock.
get_ra_cert(result) ==
  IF is_tls_config_updated(racache.gen_time)
  THEN result = "cached" /\ UNCHANGED racache
  ELSE /\ result \in RenewalResults
       /\ IF result \in {"ok", "empty"} THEN renew_ra_cert(result) ELSE UNCHANGED racache

\* A renewed certificate replaces every cached configuration.
get_tls_config(result) ==
  /\ get_ra_cert(result)
  /\ svrconfig' = CASE result = "cached" -> svrconfig \cup {racache.serial}
                    [] result \in {"ok", "empty"} -> {racache'.serial}
                    [] OTHER -> svrconfig

-----------------------------------------------------------------------------
(* The client's view of certificate c *)

\* The report, its signature and the signing certificate can be read.
extract_att_parts(c) == c.report

\* The report's timestamp is not in the client's future.
extract_quote_body(c) == now >= c.gen_time

\* Mutant: the parts are not looked at.
QuoteBodyOnly(c) == extract_quote_body(c)

\* The rest holds of every certificate gen_ecc_cert makes of a complete report:
\* Intel's signature, and the key in the report being the certificate's.
extract_sgx_quote_from_mra_cert(c) == extract_att_parts(c) /\ extract_quote_body(c)

verify_server_cert(c) == extract_sgx_quote_from_mra_cert(c)
=============================================================================
