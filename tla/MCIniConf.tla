----------------------------- MODULE MCIniConf -----------------------------
(***************************************************************************)
(* Every file of up to MaxLines lines over a small alphabet: two supported *)
(* sections and an unknown one, indented and plain options, a negative     *)
(* number, an unknown option, an empty name and the malformed lines.       *)
(***************************************************************************)
EXTENDS IniConf

MCNames == {"", "errinj_noop", "errinj_errno", "errinj_bogus", "probability",
            "op_regexp", "path_regexp", "duration", "color"}
MCValues == {"re", "70", "-1"}
MCatoi == [v \in MCValues |-> IF v = "70" THEN 70 ELSE IF v = "-1" THEN -1 ELSE 0]

L(kind, indent, name, value, text) ==
    [kind |-> kind, indent |-> indent, name |-> name, value |-> value,
     text |-> text]

MCLines ==
    {L("comment", FALSE, "", "re", "re"),
     L("section", FALSE, "errinj_noop", "re", "re"),
     L("section", FALSE, "errinj_errno", "re", "re"),
     L("section", TRUE, "errinj_errno", "re", "re"),
     L("section", FALSE, "errinj_bogus", "re", "re"),
     L("pair", FALSE, "probability", "70", "re"),
     L("pair", TRUE, "duration", "-1", "re"),
     L("pair", FALSE, "op_regexp", "re", "re"),
     L("pair", TRUE, "path_regexp", "re", "re"),
     L("pair", FALSE, "color", "re", "re"),
     L("pair", FALSE, "", "re", "re"),
     L("bare", FALSE, "", "re", "70"),
     L("bare", TRUE, "", "re", "70"),
     L("unclosed", TRUE, "", "re", "re")}
============================================================================
