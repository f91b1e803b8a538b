----------------------------- MODULE FailReason -----------------------------
(***************************************************************************)
(* classifyFailReason of src/validator.go: the text of a failed test is    *)
(* mapped to one of the causes the failure report groups by. The rules are *)
(* tried in order and each looks for a marker anywhere in the text, so a   *)
(* text is abstracted to the set of markers it contains (SomeText stands   *)
(* for words no rule looks for; colour codes, which are stripped first,    *)
(* hold no marker).                                                        *)
(*                                                                         *)
(* A reason is [kind, says, stderr]: the prefix validateWithTracker gives  *)
(* it, the error itself and, for CONN, what sing-box wrote to its stderr.  *)
(***************************************************************************)
EXTENDS Integers, Sequences, FiniteSetsExt

SomeText == "some text"

(* The reason built when sing-box did not open its port: its error output, *)
(* or the timeout when there is none.                                      *)
StartReason(stderr) == [kind |-> "SINGBOX_START",
                        says |-> IF stderr = {} THEN {"port not open"} ELSE stderr,
                        stderr |-> {}]

ConnReason(httpErr, stderr) == [kind |-> "CONN", says |-> httpErr, stderr |-> stderr]

OtherReason(kind, says) == [kind |-> kind, says |-> says, stderr |-> {}]

(* What separates the stderr in a CONN reason, and where the classifier    *)
(* cuts it off.                                                            *)
Written == " | SB:"
CutAt == " | SINGBOX:"

Body(r) == IF r.stderr = {} \/ Written = CutAt THEN r.says
           ELSE r.says \cup r.stderr \cup {SomeText}

-----------------------------------------------------------------------------
(* A rule applies to a text that has one of the markers in any and all of  *)
(* those in also; a rule for the whole text to that text only.             *)
Has(any, cause) == [any |-> any, also |-> {}, whole |-> FALSE, cause |-> cause]
HasToo(any, also, cause) == [any |-> any, also |-> also, whole |-> FALSE, cause |-> cause]
Is(mark, cause) == [any |-> {mark}, also |-> {}, whole |-> TRUE, cause |-> cause]

Applies(rule, text) == /\ rule.any \cap text # {}
                       /\ rule.also \subseteq text
                       /\ rule.whole => text = rule.any

FirstCause(rules, text) ==
  LET applying == {k \in DOMAIN rules : Applies(rules[k], text)}
  IN  IF applying = {} THEN "its own text" ELSE rules[Min(applying)].cause

ParseRules == <<
  Has({"base64"}, "base64 decode error"),
  Has({"json"}, "json decode error"),
  Has({"url parse"}, "url parse error"),
  Has({"unsupported cipher"}, "unsupported SS cipher"),
  HasToo({"unsupported transport"}, {"xhttp"}, "unsupported transport (xhttp/splithttp)"),
  Has({"unsupported transport"}, "unsupported transport (kcp/quic/mkcp)"),
  Has({"missing"}, "missing part"),
  Has({"port"}, "invalid port value"),
  Has({"reality"}, "reality missing public key"),
  Has({"unknown security"}, "unknown security type") >>

StartRules == <<
  Has({"port not open"}, "port timeout"),
  HasToo({"decode config", "outbound"}, {"flow"}, "invalid flow"),
  Has({"decode config", "outbound"}, "invalid config JSON"),
  Has({"address already in use"}, "port already in use"),
  Has({"no such file", "not found"}, "sing-box binary not found"),
  Has({"permission denied"}, "permission denied"),
  Has({"method"}, "unsupported SS method") >>

(* The "Get ..." prefix handled here in the code never arrives: shortenErr *)
(* has already removed it.                                                 *)
ConnRules == <<
  Has({"context deadline exceeded", "context canceled"}, "request timed out"),
  Has({"connection refused"}, "connection refused (proxy died)"),
  Has({"EOF"}, "EOF"),
  Has({"no such host", "lookup"}, "DNS resolution failed"),
  Has({"i/o timeout"}, "i/o timeout"),
  Has({"connection reset"}, "connection reset by peer"),
  Has({"no route to host"}, "no route to host"),
  Has({"network unreachable"}, "network unreachable"),
  Has({"tls:", "TLS", "certificate"}, "TLS handshake failed"),
  Is("HTTP_502", "HTTP 502 (proxy rejected CONNECT)"),
  Is("HTTP_501", "HTTP 501 (no CONNECT support)"),
  Has({"HTTP_502", "HTTP_501", "HTTP_"}, "unexpected HTTP status"),
  Has({"proxyconnect"}, "proxy CONNECT failed"),
  Has({"context expired"}, "test URL timed out") >>

(* The key of a reason in the report: the section it is listed in and its  *)
(* cause. A reason with no known prefix cannot be built.                   *)
Classify(r) ==
  CASE r.kind = "PARSE" -> <<"PARSE", FirstCause(ParseRules, r.says)>>
    [] r.kind \in {"SINGBOX_START", "START"} -> <<"START", FirstCause(StartRules, r.says)>>
    [] r.kind = "CONN" -> <<"CONN", FirstCause(ConnRules, Body(r))>>
    [] r.kind = "FILE" -> <<"OTHER", "temp file error">>

(* The counter of validateAll and of the logger for the same reason.       *)
Counter(r) == CASE r.kind = "PARSE" -> "parse"
                [] r.kind \in {"SINGBOX_START", "START"} -> "start"
                [] OTHER -> "conn"
=============================================================================
