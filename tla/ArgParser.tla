------------------------------ MODULE ArgParser ------------------------------
(***************************************************************************)
(* parseUdpPeerArgs() and parseAddrPort() (ArgParser.cpp): the scan of     *)
(* argv for "--src <addr>:<port>" and "--dst <addr>:<port>".  A word of   *)
(* argv is a flag or an endpoint token; an endpoint token is abstracted to *)
(* what parseAddrPort() asks of it: whether it holds a ':', whether        *)
(* inet_pton() accepts the text before the last ':', and the text after   *)
(* it, one of a few port texts whose std::stoul() behaviour is tabulated.  *)
(* An exception of std::stoul() is not caught anywhere: std::terminate()   *)
(* ends the process.                                                       *)
(***************************************************************************)
EXTENDS Integers, Sequences, FiniteSets

\* The texts after the ':' that the command lines use.
PortTexts == {"80", "0", "70000", "-1", "", "x"}

\* std::stoul(text): the unsigned long it returns, or an exception
\* (std::invalid_argument when no digit starts the text).  "-1" is
\* accepted and negated modulo 2^64.
Stoul(text) ==
  CASE text = "80"    -> [thrown |-> FALSE, val |-> 80]
    [] text = "0"     -> [thrown |-> FALSE, val |-> 0]
    [] text = "70000" -> [thrown |-> FALSE, val |-> 70000]
    [] text = "-1"    -> [thrown |-> FALSE, val |-> 2^16 - 1]  \* ULONG_MAX mod 2^16
    [] text \in {"", "x"} -> [thrown |-> TRUE, val |-> 0]

\* static_cast<uint16_t>
ToPort(v) == v % 2^16

\* A word of argv: its text is a flag, another word, or a token whose
\* ':', address and port text are what parseAddrPort() looks at.
Words == [text : {"--src", "--dst", "other", "token"},
          colon : BOOLEAN, addrOk : BOOLEAN, port : PortTexts]

Flag(text) == [text |-> text, colon |-> FALSE, addrOk |-> FALSE, port |-> ""]

Ep(colon, addrOk, port) ==
  [text |-> "token", colon |-> colon, addrOk |-> addrOk, port |-> port]

\* parseAddrPort(token, addr, port): false without a ':' or when inet_pton()
\* rejects the address; else the port is std::stoul() of the rest.
ParseAddrPort(w) ==
  IF ~w.colon \/ ~w.addrOk
    THEN [ok |-> FALSE, thrown |-> FALSE, port |-> 0]
    ELSE [ok |-> TRUE, thrown |-> Stoul(w.port).thrown, port |-> ToPort(Stoul(w.port).val)]

\* The for loop from idx = 1, as the result of the words from position i
\* on: a flag followed by another word consumes it and sets HAS_ or ERR_
\* for its side (the bits of result_flags); any other word is skipped.  A
\* port is stored by each successful parseAddrPort(), so the last one of
\* its side is kept; an exception ends the scan.
Scan(argv) ==
  LET n == Len(argv)
      scan[i \in 1 .. n + 2] ==
        IF i > n THEN [flags |-> {}, src |-> 0, dst |-> 0, thrown |-> FALSE]
        ELSE IF argv[i].text \in {"--src", "--dst"} /\ i + 1 <= n
          THEN LET side == IF argv[i].text = "--src" THEN "SRC" ELSE "DST"
                   r    == ParseAddrPort(argv[i + 1])
                   rest == scan[i + 2]
               IN  IF r.thrown THEN [rest EXCEPT !.thrown = TRUE]
                   ELSE [rest EXCEPT
                     !.flags = @ \cup {IF r.ok THEN "HAS_" \o side ELSE "ERR_" \o side},
                     !.src = IF side = "SRC" /\ r.ok /\ "HAS_SRC" \notin rest.flags
                               THEN r.port ELSE @,
                     !.dst = IF side = "DST" /\ r.ok /\ "HAS_DST" \notin rest.flags
                               THEN r.port ELSE @]
          ELSE scan[i + 1]
  IN  scan[1]

\* parseUdpPeerArgs() returns true when both HAS_ bits are set and no ERR_
\* bit; "terminated" when std::stoul() threw.
ParseUdpPeerArgs(argv) ==
  LET r == Scan(argv)
  IN  IF r.thrown THEN "terminated"
      ELSE IF {"HAS_SRC", "HAS_DST"} \subseteq r.flags
              /\ r.flags \cap {"ERR_SRC", "ERR_DST"} = {}
             THEN "ok" ELSE "rejected"

\* The command lines main() is started with: both endpoints; --dst
\* missing; a token without ':'; an address inet_pton() rejects; a port
\* std::stoul() throws on; a port above 65535 and one of "-1"; a flag as
\* the last word; and the flags in the other order.
CommandLines ==
  { <<Flag("--src"), Ep(TRUE, TRUE, "80"), Flag("--dst"), Ep(TRUE, TRUE, "80")>>,
    <<Flag("--src"), Ep(TRUE, TRUE, "80")>>,
    <<Flag("--src"), Ep(FALSE, TRUE, "80"), Flag("--dst"), Ep(TRUE, TRUE, "80")>>,
    <<Flag("--src"), Ep(TRUE, FALSE, "80"), Flag("--dst"), Ep(TRUE, TRUE, "80")>>,
    <<Flag("--src"), Ep(TRUE, TRUE, ""), Flag("--dst"), Ep(TRUE, TRUE, "80")>>,
    <<Flag("--src"), Ep(TRUE, TRUE, "70000"), Flag("--dst"), Ep(TRUE, TRUE, "-1")>>,
    <<Flag("--dst"), Ep(TRUE, TRUE, "0"), Flag("other"), Flag("--src"), Ep(TRUE, TRUE, "x")>>,
    <<Flag("--dst"), Ep(TRUE, TRUE, "80"), Flag("--src")>> }
=============================================================================
