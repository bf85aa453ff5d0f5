--------------------------- MODULE MCParseConfig ---------------------------
(***************************************************************************)
(* ParseConfig for TLC: all files of up to MaxPieces pieces, with the      *)
(* limits of the code for the timeouts and a table of three slots.         *)
(***************************************************************************)
EXTENDS ParseConfig

MCNames == {"a", "b", "p=q"}
MCWithEquals == {"p=q"}
NoProcs == {}

Of(kind) == [kind |-> kind]
Num(key, n) == [kind |-> "pair", key |-> key, val |-> n, word |-> "number"]
Txt(key, w) == [kind |-> "pair", key |-> key, val |-> 0, word |-> w]
Sec(n, f) == [kind |-> "section", name |-> n, form |-> f]

\* Values at a limit and beyond it.
Limits ==
  {Num("wd_timeout_s", 9), Num("wd_timeout_s", 60), Num("reboot_timeout_s", 10),
   Num("reboot_timeout_s", 301), Num("timeout_ms", -1), Num("timeout_ms", 4999),
   Num("timeout_ms", 5000), Num("timeout_ms", 6000), Num("timeout_ms", 300001)}

Flags ==
  {Txt("unique_clients", "true"), Txt("unique_clients", "false"), Txt("unique_clients", "yes"),
   Txt("strict_clients", "true")}

\* What may stand in a section, or open one.
SectionPieces == {Sec("a", "closed"), Sec("b", "open"), Sec("a", "extra"), Sec("p=q", "closed")}

AllPieces ==
  Limits \cup Flags \cup SectionPieces
    \cup {Of("blank"), Of("comment"), Of("garbage"), Txt("socket_path", "/tmp/s"),
          Txt("other", "x"), Txt("service_user", "x")}

\* Written as the documentation allows.
DocumentedPieces ==
  {Of("comment"), Txt("service_user", "x"), Sec("a", "closed"), Sec("p=q", "closed")}

=============================================================================
