---------------------------- MODULE BuildsProofs ----------------------------
(***************************************************************************)
(* The five lists that the preprocessor cuts fit together, in every build. *)
(* The run on Builds goes through the builds one by one; the proof shows   *)
(* which macro carries which part of each list.                            *)
(***************************************************************************)
EXTENDS Builds, TLAPS

----------------------------------------------------------------------------
(* Lists and tables                                                        *)

\* The elements of a list that is written in two parts.
LEMMA ToSetConcat ==
    ASSUME NEW S, NEW s \in Seq(S), NEW u \in Seq(S)
    PROVE  ToSet(s \o u) = ToSet(s) \cup ToSet(u) /\ s \o u \in Seq(S)
<1>1. s \o u \in Seq(S)
  OBVIOUS
<1>2. \A i \in DOMAIN u : i + Len(s) \in DOMAIN (s \o u) /\ (s \o u)[i + Len(s)] = u[i]
  OBVIOUS
<1>3. \A i \in DOMAIN s : i \in DOMAIN (s \o u) /\ (s \o u)[i] = s[i]
  OBVIOUS
<1>4. ASSUME NEW x \in ToSet(u) PROVE x \in ToSet(s \o u)
  BY <1>2 DEF ToSet
<1>5. ASSUME NEW x \in ToSet(s) PROVE x \in ToSet(s \o u)
  BY <1>3 DEF ToSet
<1>6. ASSUME NEW x \in ToSet(s \o u) PROVE x \in ToSet(s) \/ x \in ToSet(u)
  <2>1. PICK i \in DOMAIN (s \o u) : x = (s \o u)[i]
    BY DEF ToSet
  <2>2. CASE i \in DOMAIN s
    BY <2>1, <2>2, <1>3 DEF ToSet
  <2>3. CASE i \notin DOMAIN s
    <3>1. i - Len(s) \in DOMAIN u /\ x = u[i - Len(s)]
      BY <2>1, <2>3
    <3> QED BY <3>1 DEF ToSet
  <2> QED BY <2>2, <2>3
<1> QED BY <1>1, <1>4, <1>5, <1>6

\* Declarations one after the other have the names of both.
LEMMA Declared ==
    ASSUME NEW f, NEW g
    PROVE  /\ DOMAIN (f ++ g) = (DOMAIN f) \cup (DOMAIN g)
           /\ \A x \in DOMAIN f : (f ++ g)[x] = f[x]
           /\ \A x \in (DOMAIN g) \ (DOMAIN f) : (f ++ g)[x] = g[x]
BY DEF ++

\* The operations that every build has, and the parts that a macro cuts.
AlwaysOps ==
    {"getattr", "readlink", "mknod", "mkdir", "unlink", "rmdir", "symlink", "rename",
     "link", "chmod", "chown", "truncate", "open", "read", "write", "statfs", "flush",
     "release", "fsync", "opendir", "readdir", "releasedir", "fsyncdir", "access",
     "creat", "ftruncate", "fgetattr", "lock", "lstat"}
XattrOps == {"setxattr", "getxattr", "listxattr", "removexattr"}
AllOps == AlwaysOps \cup XattrOps \cup {"ioctl", "flock", "fallocate", "utimens"}

\* Operation op is compiled into build b.
Has(b, op) ==
    \/ op \in AlwaysOps
    \/ op \in XattrOps /\ "HAVE_XATTR" \in b.macros
    \/ op = "ioctl" /\ b.platform # "openbsd"
    \/ op = "flock" /\ "HAVE_FLOCK" \in b.macros
    \/ op = "fallocate" /\ "HAVE_FALLOCATE" \in b.macros
    \/ op = "utimens" /\ "HAVE_UTIMENSAT" \in b.macros

\* What an #ifdef makes of a list of operations.
LEMMA CutList ==
    ASSUME NEW b, NEW macro, NEW S, NEW s \in Seq(S)
    PROVE  /\ IfDef(b, macro, s) \in Seq(S)
           /\ ToSet(IfDef(b, macro, s)) = IF macro \in b.macros THEN ToSet(s) ELSE {}
           /\ IfNotOpenBSD(b, s) \in Seq(S)
           /\ ToSet(IfNotOpenBSD(b, s)) = IF b.platform # "openbsd" THEN ToSet(s) ELSE {}
<1>1. <<>> \in Seq(S) /\ ToSet(<<>>) = {}
  BY DEF ToSet
<1> QED BY <1>1 DEF IfDef, IfNotOpenBSD

\* The five parts that #ifdefs cut, in the enumeration, the names and the handlers.
LEMMA CutParts ==
    ASSUME NEW b
    PROVE  /\ IfDef(b, "HAVE_XATTR", <<"setxattr", "getxattr", "listxattr", "removexattr">>) \in Seq(AllOps)
           /\ ToSet(IfDef(b, "HAVE_XATTR", <<"setxattr", "getxattr", "listxattr", "removexattr">>))
                = IF "HAVE_XATTR" \in b.macros THEN XattrOps ELSE {}
           /\ IfNotOpenBSD(b, <<"ioctl">>) \in Seq(AllOps)
           /\ ToSet(IfNotOpenBSD(b, <<"ioctl">>)) = IF b.platform # "openbsd" THEN {"ioctl"} ELSE {}
           /\ IfDef(b, "HAVE_FLOCK", <<"flock">>) \in Seq(AllOps)
           /\ ToSet(IfDef(b, "HAVE_FLOCK", <<"flock">>)) = IF "HAVE_FLOCK" \in b.macros THEN {"flock"} ELSE {}
           /\ IfDef(b, "HAVE_FALLOCATE", <<"fallocate">>) \in Seq(AllOps)
           /\ ToSet(IfDef(b, "HAVE_FALLOCATE", <<"fallocate">>))
                = IF "HAVE_FALLOCATE" \in b.macros THEN {"fallocate"} ELSE {}
           /\ IfDef(b, "HAVE_UTIMENSAT", <<"utimens">>) \in Seq(AllOps)
           /\ ToSet(IfDef(b, "HAVE_UTIMENSAT", <<"utimens">>))
                = IF "HAVE_UTIMENSAT" \in b.macros THEN {"utimens"} ELSE {}
<1> DEFINE l2 == <<"setxattr", "getxattr", "listxattr", "removexattr">>
<1>1. l2 \in Seq(AllOps) /\ ToSet(l2) = XattrOps
  BY DEF AllOps, XattrOps, ToSet
<1>2. /\ <<"ioctl">> \in Seq(AllOps) /\ ToSet(<<"ioctl">>) = {"ioctl"}
      /\ <<"flock">> \in Seq(AllOps) /\ ToSet(<<"flock">>) = {"flock"}
      /\ <<"fallocate">> \in Seq(AllOps) /\ ToSet(<<"fallocate">>) = {"fallocate"}
      /\ <<"utimens">> \in Seq(AllOps) /\ ToSet(<<"utimens">>) = {"utimens"}
  BY DEF AllOps, ToSet
<1> HIDE DEF l2
<1>3. /\ IfDef(b, "HAVE_XATTR", l2) \in Seq(AllOps)
      /\ ToSet(IfDef(b, "HAVE_XATTR", l2)) = IF "HAVE_XATTR" \in b.macros THEN XattrOps ELSE {}
  BY <1>1, CutList
<1>4. /\ IfNotOpenBSD(b, <<"ioctl">>) \in Seq(AllOps)
      /\ ToSet(IfNotOpenBSD(b, <<"ioctl">>)) = IF b.platform # "openbsd" THEN {"ioctl"} ELSE {}
  BY <1>2, CutList
<1>5. /\ IfDef(b, "HAVE_FLOCK", <<"flock">>) \in Seq(AllOps)
      /\ ToSet(IfDef(b, "HAVE_FLOCK", <<"flock">>)) = IF "HAVE_FLOCK" \in b.macros THEN {"flock"} ELSE {}
      /\ IfDef(b, "HAVE_FALLOCATE", <<"fallocate">>) \in Seq(AllOps)
      /\ ToSet(IfDef(b, "HAVE_FALLOCATE", <<"fallocate">>))
           = IF "HAVE_FALLOCATE" \in b.macros THEN {"fallocate"} ELSE {}
      /\ IfDef(b, "HAVE_UTIMENSAT", <<"utimens">>) \in Seq(AllOps)
      /\ ToSet(IfDef(b, "HAVE_UTIMENSAT", <<"utimens">>))
           = IF "HAVE_UTIMENSAT" \in b.macros THEN {"utimens"} ELSE {}
  BY <1>2, CutList
<1> QED BY <1>3, <1>4, <1>5 DEF l2

\* The enumeration fuse_op has exactly the operations of the build.
LEMMA EnumeratorsOf ==
    ASSUME NEW b
    PROVE  \A op : op \in ToSet(fuse_op(b)) <=> Has(b, op)
<1> DEFINE l1 == <<"getattr", "readlink", "mknod", "mkdir", "unlink", "rmdir",
                      "symlink", "rename", "link", "chmod", "chown", "truncate",
                      "open", "read", "write", "statfs", "flush", "release", "fsync">>
<1> DEFINE l2 == <<"setxattr", "getxattr", "listxattr", "removexattr">>
<1> DEFINE l3 == <<"opendir", "readdir", "releasedir", "fsyncdir", "access",
                      "creat", "ftruncate", "fgetattr", "lock">>
<1> DEFINE l8 == <<"lstat">>
<1> DEFINE s2 == IfDef(b, "HAVE_XATTR", l2)
<1> DEFINE s4 == IfNotOpenBSD(b, <<"ioctl">>)
<1> DEFINE s5 == IfDef(b, "HAVE_FLOCK", <<"flock">>)
<1> DEFINE s6 == IfDef(b, "HAVE_FALLOCATE", <<"fallocate">>)
<1> DEFINE s7 == IfDef(b, "HAVE_UTIMENSAT", <<"utimens">>)
<1>1. l1 \in Seq(AllOps) /\ ToSet(l1) = {"getattr", "readlink", "mknod", "mkdir", "unlink", "rmdir",
                      "symlink", "rename", "link", "chmod", "chown", "truncate",
                      "open", "read", "write", "statfs", "flush", "release", "fsync"}
  BY DEF AllOps, AlwaysOps, ToSet
<1>3. l3 \in Seq(AllOps) /\ ToSet(l3) = {"opendir", "readdir", "releasedir", "fsyncdir", "access",
                      "creat", "ftruncate", "fgetattr", "lock"}
  BY DEF AllOps, AlwaysOps, ToSet
<1>4. l8 \in Seq(AllOps) /\ ToSet(l8) = {"lstat"}
  BY DEF AllOps, AlwaysOps, ToSet
<1>5. fuse_op(b) = l1 \o s2 \o l3 \o s4 \o s5 \o s6 \o s7 \o l8
  BY DEF fuse_op
<1>6. /\ s2 \in Seq(AllOps) /\ ToSet(s2) = IF "HAVE_XATTR" \in b.macros THEN XattrOps ELSE {}
      /\ s4 \in Seq(AllOps) /\ ToSet(s4) = IF b.platform # "openbsd" THEN {"ioctl"} ELSE {}
      /\ s5 \in Seq(AllOps) /\ ToSet(s5) = IF "HAVE_FLOCK" \in b.macros THEN {"flock"} ELSE {}
      /\ s6 \in Seq(AllOps) /\ ToSet(s6) = IF "HAVE_FALLOCATE" \in b.macros THEN {"fallocate"} ELSE {}
      /\ s7 \in Seq(AllOps) /\ ToSet(s7) = IF "HAVE_UTIMENSAT" \in b.macros THEN {"utimens"} ELSE {}
  BY CutParts
<1> HIDE DEF l1, l2, l3, l8, s2, s4, s5, s6, s7
\* The list, part by part.
<1> DEFINE p2 == l1 \o s2
<1>7. p2 \in Seq(AllOps) /\ ToSet(p2) = ToSet(l1) \cup ToSet(s2)
  BY <1>1, <1>6, ToSetConcat
<1> HIDE DEF p2
<1> DEFINE p3 == p2 \o l3
<1>8. p3 \in Seq(AllOps) /\ ToSet(p3) = ToSet(p2) \cup ToSet(l3)
  BY <1>3, <1>7, ToSetConcat
<1> HIDE DEF p3
<1> DEFINE p4 == p3 \o s4
<1>9. p4 \in Seq(AllOps) /\ ToSet(p4) = ToSet(p3) \cup ToSet(s4)
  BY <1>6, <1>8, ToSetConcat
<1> HIDE DEF p4
<1> DEFINE p5 == p4 \o s5
<1>10. p5 \in Seq(AllOps) /\ ToSet(p5) = ToSet(p4) \cup ToSet(s5)
  BY <1>6, <1>9, ToSetConcat
<1> HIDE DEF p5
<1> DEFINE p6 == p5 \o s6
<1>11. p6 \in Seq(AllOps) /\ ToSet(p6) = ToSet(p5) \cup ToSet(s6)
  BY <1>10, <1>6, ToSetConcat
<1> HIDE DEF p6
<1> DEFINE p7 == p6 \o s7
<1>12. p7 \in Seq(AllOps) /\ ToSet(p7) = ToSet(p6) \cup ToSet(s7)
  BY <1>11, <1>6, ToSetConcat
<1> HIDE DEF p7
<1> DEFINE p8 == p7 \o l8
<1>13. p8 \in Seq(AllOps) /\ ToSet(p8) = ToSet(p7) \cup ToSet(l8)
  BY <1>12, <1>4, ToSetConcat
<1> HIDE DEF p8
<1>14. fuse_op(b) = p8
  BY <1>5 DEF p2, p3, p4, p5, p6, p7, p8
<1>15. AlwaysOps = ToSet(l1) \cup ToSet(l3) \cup {"lstat"}
  BY <1>1, <1>3 DEF AlwaysOps
<1> QED BY <1>4, <1>6, <1>7, <1>8, <1>9, <1>10, <1>11, <1>12, <1>13, <1>14, <1>15 DEF Has

\* A registered handler belongs to an operation of the build.
LEMMA HandlersOf ==
    ASSUME NEW b, NEW h \in unreliable_ops(b)
    PROVE  Has(b, OpOf(h))
<1> DEFINE s2 == IfDef(b, "HAVE_XATTR", <<"setxattr", "getxattr", "listxattr", "removexattr">>)
<1> DEFINE s4 == IfNotOpenBSD(b, <<"ioctl">>)
<1> DEFINE s5 == IfDef(b, "HAVE_FLOCK", <<"flock">>)
<1> DEFINE s6 == IfDef(b, "HAVE_FALLOCATE", <<"fallocate">>)
<1> DEFINE s7 == IfDef(b, "HAVE_UTIMENSAT", <<"utimens">>)
<1>1. h \in ToSet(s2 \o s4 \o s5 \o s6 \o s7) \/ OpOf(h) \in AlwaysOps
  BY DEF unreliable_ops, OpOf, AlwaysOps
<1>2. /\ s2 \in Seq(AllOps) /\ ToSet(s2) = IF "HAVE_XATTR" \in b.macros THEN XattrOps ELSE {}
      /\ s4 \in Seq(AllOps) /\ ToSet(s4) = IF b.platform # "openbsd" THEN {"ioctl"} ELSE {}
      /\ s5 \in Seq(AllOps) /\ ToSet(s5) = IF "HAVE_FLOCK" \in b.macros THEN {"flock"} ELSE {}
      /\ s6 \in Seq(AllOps) /\ ToSet(s6) = IF "HAVE_FALLOCATE" \in b.macros THEN {"fallocate"} ELSE {}
      /\ s7 \in Seq(AllOps) /\ ToSet(s7) = IF "HAVE_UTIMENSAT" \in b.macros THEN {"utimens"} ELSE {}
  BY CutParts
<1> HIDE DEF s2, s4, s5, s6, s7
<1> DEFINE p4 == s2 \o s4
<1>3. p4 \in Seq(AllOps) /\ ToSet(p4) = ToSet(s2) \cup ToSet(s4)
  BY <1>2, ToSetConcat
<1> HIDE DEF p4
<1> DEFINE p5 == p4 \o s5
<1>4. p5 \in Seq(AllOps) /\ ToSet(p5) = ToSet(p4) \cup ToSet(s5)
  BY <1>2, <1>3, ToSetConcat
<1> HIDE DEF p5
<1> DEFINE p6 == p5 \o s6
<1>5. p6 \in Seq(AllOps) /\ ToSet(p6) = ToSet(p5) \cup ToSet(s6)
  BY <1>2, <1>4, ToSetConcat
<1> HIDE DEF p6
<1> DEFINE p7 == p6 \o s7
<1>6. p7 \in Seq(AllOps) /\ ToSet(p7) = ToSet(p6) \cup ToSet(s7)
  BY <1>2, <1>5, ToSetConcat
<1> HIDE DEF p7
<1>7. h \in ToSet(p7) \/ OpOf(h) \in AlwaysOps
  BY <1>1 DEF p4, p5, p6, p7
<1>8. h \in ToSet(p7) => h \in ToSet(s2) \/ h \in ToSet(s4) \/ h \in ToSet(s5) \/ h \in ToSet(s6) \/ h \in ToSet(s7)
  BY <1>3, <1>4, <1>5, <1>6
<1>9. h \in ToSet(p7) => Has(b, h) /\ h # "create"
  BY <1>2, <1>8 DEF Has, XattrOps
<1> QED BY <1>7, <1>9 DEF Has, OpOf

\* What an #ifdef makes of a list of cases.
LEMMA CutCases ==
    ASSUME NEW b, NEW macro, NEW f
    PROVE  /\ DOMAIN IfDef(b, macro, f) = IF macro \in b.macros THEN DOMAIN f ELSE {}
           /\ macro \in b.macros => IfDef(b, macro, f) = f
           /\ DOMAIN IfNotOpenBSD(b, f) = IF b.platform # "openbsd" THEN DOMAIN f ELSE {}
           /\ b.platform # "openbsd" => IfNotOpenBSD(b, f) = f
BY DEF IfDef, IfNotOpenBSD

\* The tables that every platform needs.
AlwaysTables ==
    {"lstat", "readlink", "mknod", "mkdir", "unlink", "rmdir", "symlink", "rename", "link",
     "chmod", "truncate", "creat", "read", "write", "statfs", "close", "fsync", "opendir",
     "readdir", "access", "ftruncate", "fcntl"}

\* The cases that no #ifdef cuts: only those of opendir and readdir draw from the
\* tables of these names.
LEMMA AlwaysCases ==
    /\ DOMAIN CasesAlways = AlwaysOps
    /\ \A op \in AlwaysOps : CasesAlways[op] \in AlwaysTables
    /\ \A op \in AlwaysOps : CasesAlways[op] \in {"opendir", "readdir"} => op \in {"opendir", "readdir"}
<1>1. DOMAIN CasesAlways = AlwaysOps
  BY DEF CasesAlways, AlwaysOps
<1>2. \A op \in AlwaysOps : CasesAlways[op] \in AlwaysTables
  BY DEF CasesAlways, AlwaysOps, AlwaysTables
<1>3. \A op \in AlwaysOps : CasesAlways[op] \in {"opendir", "readdir"} => op \in {"opendir", "readdir"}
  BY DEF CasesAlways, AlwaysOps
<1> QED BY <1>1, <1>2, <1>3

\* op_random_errno() has exactly the cases of the operations of the build.
LEMMA CasesOf ==
    ASSUME NEW b
    PROVE  /\ \A op : op \in DOMAIN Cases(b) <=> Has(b, op)
           /\ \A op \in AlwaysOps : Cases(b)[op] = CasesAlways[op]
           /\ \A op \in XattrOps : Has(b, op) => Cases(b)[op] = op
           /\ Has(b, "ioctl") => Cases(b)["ioctl"] = "ioctl"
           /\ Has(b, "flock") => Cases(b)["flock"] = "flock"
           /\ Has(b, "fallocate") => Cases(b)["fallocate"] = "fallocate"
           /\ Has(b, "utimens") => Cases(b)["utimens"] = "utimensat"
<1> DEFINE c2 == IfDef(b, "HAVE_XATTR", CasesXattr)
<1> DEFINE c3 == IfNotOpenBSD(b, [ioctl |-> "ioctl"])
<1> DEFINE c4 == IfDef(b, "HAVE_FLOCK", [flock |-> "flock"])
<1> DEFINE c5 == IfDef(b, "HAVE_FALLOCATE", [fallocate |-> "fallocate"])
<1> DEFINE c6 == IfDef(b, "HAVE_UTIMENSAT", [utimens |-> "utimensat"])
<1>1. Cases(b) = CasesAlways ++ c2 ++ c3 ++ c4 ++ c5 ++ c6
  BY DEF Cases
<1>2. DOMAIN CasesXattr = XattrOps /\ \A op \in XattrOps : CasesXattr[op] = op
  BY DEF CasesXattr, XattrOps
<1>3. /\ DOMAIN [ioctl |-> "ioctl"] = {"ioctl"} /\ DOMAIN [flock |-> "flock"] = {"flock"}
      /\ DOMAIN [fallocate |-> "fallocate"] = {"fallocate"} /\ DOMAIN [utimens |-> "utimensat"] = {"utimens"}
      /\ [ioctl |-> "ioctl"]["ioctl"] = "ioctl" /\ [flock |-> "flock"]["flock"] = "flock"
      /\ [fallocate |-> "fallocate"]["fallocate"] = "fallocate"
      /\ [utimens |-> "utimensat"]["utimens"] = "utimensat"
  OBVIOUS
<1>4. /\ DOMAIN c2 = (IF "HAVE_XATTR" \in b.macros THEN XattrOps ELSE {})
      /\ "HAVE_XATTR" \in b.macros => \A op \in XattrOps : c2[op] = op
  BY <1>2, CutCases
<1>5. /\ DOMAIN c3 = (IF b.platform # "openbsd" THEN {"ioctl"} ELSE {})
      /\ b.platform # "openbsd" => c3["ioctl"] = "ioctl"
  BY <1>3, CutCases
<1>6. /\ DOMAIN c4 = (IF "HAVE_FLOCK" \in b.macros THEN {"flock"} ELSE {})
      /\ "HAVE_FLOCK" \in b.macros => c4["flock"] = "flock"
  BY <1>3, CutCases
<1>7. /\ DOMAIN c5 = (IF "HAVE_FALLOCATE" \in b.macros THEN {"fallocate"} ELSE {})
      /\ "HAVE_FALLOCATE" \in b.macros => c5["fallocate"] = "fallocate"
  BY <1>3, CutCases
<1>8. /\ DOMAIN c6 = (IF "HAVE_UTIMENSAT" \in b.macros THEN {"utimens"} ELSE {})
      /\ "HAVE_UTIMENSAT" \in b.macros => c6["utimens"] = "utimensat"
  BY <1>3, CutCases
<1> HIDE DEF c2, c3, c4, c5, c6
\* The switch, part by part.
<1> DEFINE d2 == CasesAlways ++ c2
<1>9. /\ DOMAIN d2 = AlwaysOps \cup (DOMAIN c2)
      /\ \A op \in AlwaysOps : d2[op] = CasesAlways[op]
      /\ \A op \in XattrOps : op \in DOMAIN c2 => d2[op] = c2[op]
  <2>1. /\ DOMAIN d2 = (DOMAIN CasesAlways) \cup (DOMAIN c2)
        /\ \A op \in DOMAIN CasesAlways : d2[op] = CasesAlways[op]
        /\ \A op \in (DOMAIN c2) \ (DOMAIN CasesAlways) : d2[op] = c2[op]
    BY Declared
  <2>2. \A op \in XattrOps : op \notin AlwaysOps
    BY DEF AlwaysOps, XattrOps
  <2> QED BY <2>1, <2>2, AlwaysCases
<1> HIDE DEF d2
<1> DEFINE d3 == d2 ++ c3
<1>10. /\ DOMAIN d3 = (DOMAIN d2) \cup (DOMAIN c3)
       /\ \A op \in DOMAIN d2 : d3[op] = d2[op]
       /\ \A op \in (DOMAIN c3) \ (DOMAIN d2) : d3[op] = c3[op]
  BY Declared
<1> HIDE DEF d3
<1> DEFINE d4 == d3 ++ c4
<1>11. /\ DOMAIN d4 = (DOMAIN d3) \cup (DOMAIN c4)
       /\ \A op \in DOMAIN d3 : d4[op] = d3[op]
       /\ \A op \in (DOMAIN c4) \ (DOMAIN d3) : d4[op] = c4[op]
  BY Declared
<1> HIDE DEF d4
<1> DEFINE d5 == d4 ++ c5
<1>12. /\ DOMAIN d5 = (DOMAIN d4) \cup (DOMAIN c5)
       /\ \A op \in DOMAIN d4 : d5[op] = d4[op]
       /\ \A op \in (DOMAIN c5) \ (DOMAIN d4) : d5[op] = c5[op]
  BY Declared
<1> HIDE DEF d5
<1> DEFINE d6 == d5 ++ c6
<1>13. /\ DOMAIN d6 = (DOMAIN d5) \cup (DOMAIN c6)
       /\ \A op \in DOMAIN d5 : d6[op] = d5[op]
       /\ \A op \in (DOMAIN c6) \ (DOMAIN d5) : d6[op] = c6[op]
  BY Declared
<1> HIDE DEF d6
<1>14. Cases(b) = d6
  BY <1>1 DEF d2, d3, d4, d5, d6
<1>15. DOMAIN d6 = AlwaysOps \cup (DOMAIN c2) \cup (DOMAIN c3) \cup (DOMAIN c4) \cup (DOMAIN c5) \cup (DOMAIN c6)
  BY <1>9, <1>10, <1>11, <1>12, <1>13
<1>16. \A op : op \in DOMAIN Cases(b) <=> Has(b, op)
  BY <1>4, <1>5, <1>6, <1>7, <1>8, <1>14, <1>15 DEF Has
<1>17. \A op \in DOMAIN d2 : d6[op] = d2[op]
  BY <1>10, <1>11, <1>12, <1>13
<1>18. \A op \in AlwaysOps : Cases(b)[op] = CasesAlways[op]
  BY <1>9, <1>14, <1>17
<1>19. \A op \in XattrOps : Has(b, op) => Cases(b)[op] = op
  <2>1. \A op \in XattrOps : Has(b, op) => "HAVE_XATTR" \in b.macros
    BY DEF Has, XattrOps, AlwaysOps
  <2> QED BY <1>4, <1>9, <1>14, <1>17, <2>1
<1>20. Has(b, "ioctl") => Cases(b)["ioctl"] = "ioctl"
  <2>1. Has(b, "ioctl") => b.platform # "openbsd"
    BY DEF Has, XattrOps, AlwaysOps
  <2>2. "ioctl" \notin DOMAIN d2
    BY <1>4, <1>9 DEF XattrOps, AlwaysOps
  <2> QED BY <1>5, <1>10, <1>11, <1>12, <1>13, <1>14, <2>1, <2>2
<1>21. Has(b, "flock") => Cases(b)["flock"] = "flock"
  <2>1. Has(b, "flock") => "HAVE_FLOCK" \in b.macros
    BY DEF Has, XattrOps, AlwaysOps
  <2>2. "flock" \notin DOMAIN d3
    BY <1>4, <1>5, <1>9, <1>10 DEF XattrOps, AlwaysOps
  <2> QED BY <1>6, <1>11, <1>12, <1>13, <1>14, <2>1, <2>2
<1>22. Has(b, "fallocate") => Cases(b)["fallocate"] = "fallocate"
  <2>1. Has(b, "fallocate") => "HAVE_FALLOCATE" \in b.macros
    BY DEF Has, XattrOps, AlwaysOps
  <2>2. "fallocate" \notin DOMAIN d4
    BY <1>4, <1>5, <1>6, <1>9, <1>10, <1>11 DEF XattrOps, AlwaysOps
  <2> QED BY <1>7, <1>12, <1>13, <1>14, <2>1, <2>2
<1>23. Has(b, "utimens") => Cases(b)["utimens"] = "utimensat"
  <2>1. Has(b, "utimens") => "HAVE_UTIMENSAT" \in b.macros
    BY DEF Has, XattrOps, AlwaysOps
  <2>2. "utimens" \notin DOMAIN d5
    BY <1>4, <1>5, <1>6, <1>7, <1>9, <1>10, <1>11, <1>12 DEF XattrOps, AlwaysOps
  <2> QED BY <1>8, <1>13, <1>14, <2>1, <2>2
<1> QED BY <1>16, <1>18, <1>19, <1>20, <1>21, <1>22, <1>23

\* The tables that platform p has besides the ones that every platform needs.
Optional(p) ==
    CASE p = "linux" -> XattrOps \cup {"utimensat", "ioctl", "flock", "fallocate"}
      [] p = "freebsd" -> {"utimensat", "ioctl", "flock"}
      [] p = "macosx" -> XattrOps \cup {"utimensat", "ioctl", "flock"}
      [] p = "openbsd" -> {"utimensat", "flock"}

\* unreliablefs_errno_linux.h has its tables, none of them empty.
LEMMA LinuxHeader ==
    ASSUME NEW v12
    PROVE  /\ AlwaysTables \cup Optional("linux") \subseteq DOMAIN Header("linux", v12)
           /\ \A name \in DOMAIN Header("linux", v12) : Header("linux", v12)[name] # {}
<1>1. Header("linux", v12) = Linux_access_readdir ++ Linux_read_lstat ++ Linux_statfs_fcntl
  BY DEF Header
<1>2. /\ DOMAIN Linux_access_readdir
           = {"access", "chmod", "creat", "ftruncate", "link", "mkdir", "mknod", "opendir",
              "readdir"}
      /\ \A name \in DOMAIN Linux_access_readdir : Linux_access_readdir[name] # {}
  BY DEF Linux_access_readdir, PathErrnos
<1>3. /\ DOMAIN Linux_read_lstat
           = {"read", "readlink", "rename", "rmdir", "symlink", "truncate", "unlink",
              "write", "lstat"}
      /\ \A name \in DOMAIN Linux_read_lstat : Linux_read_lstat[name] # {}
  BY DEF Linux_read_lstat, PathErrnos
<1>4. /\ DOMAIN Linux_statfs_fcntl
           = {"statfs", "close", "utimensat", "fsync", "setxattr", "getxattr", "listxattr",
              "removexattr", "flock", "fallocate", "ioctl", "fcntl"}
      /\ \A name \in DOMAIN Linux_statfs_fcntl : Linux_statfs_fcntl[name] # {}
  BY DEF Linux_statfs_fcntl, PathErrnos
<1>5. DOMAIN Header("linux", v12) = (DOMAIN Linux_access_readdir) \cup (DOMAIN Linux_read_lstat) \cup (DOMAIN Linux_statfs_fcntl)
  BY <1>1 DEF ++
<1>6. AlwaysTables \cup Optional("linux") \subseteq DOMAIN Header("linux", v12)
  BY <1>2, <1>3, <1>4, <1>5 DEF AlwaysTables, Optional, XattrOps
<1>7. \A name \in DOMAIN Header("linux", v12) : Header("linux", v12)[name] # {}
  BY <1>1, <1>2, <1>3, <1>4, <1>5 DEF ++
<1> QED BY <1>6, <1>7

\* unreliablefs_errno_freebsd.h has its tables, none of them empty.
LEMMA FreeBSDHeader ==
    ASSUME NEW v12
    PROVE  /\ AlwaysTables \cup Optional("freebsd") \subseteq DOMAIN Header("freebsd", v12)
           /\ \A name \in DOMAIN Header("freebsd", v12) : Header("freebsd", v12)[name] # {}
<1>1. Header("freebsd", v12) = FreeBSD_access_mknod(v12) ++ FreeBSD_opendir_truncate(v12) ++ FreeBSD_unlink_fcntl(v12)
  BY DEF Header
<1>2. /\ DOMAIN FreeBSD_access_mknod(v12)
           = {"access", "chmod", "creat", "ftruncate", "link", "mkdir", "mknod"}
      /\ \A name \in DOMAIN FreeBSD_access_mknod(v12) : FreeBSD_access_mknod(v12)[name] # {}
  BY DEF FreeBSD_access_mknod, PathErrnos
<1>3. /\ DOMAIN FreeBSD_opendir_truncate(v12)
           = {"opendir", "readdir", "read", "readlink", "rename", "rmdir", "symlink",
              "truncate"}
      /\ \A name \in DOMAIN FreeBSD_opendir_truncate(v12) : FreeBSD_opendir_truncate(v12)[name] # {}
  BY DEF FreeBSD_opendir_truncate, PathErrnos
<1>4. /\ DOMAIN FreeBSD_unlink_fcntl(v12)
           = {"unlink", "write", "lstat", "statfs", "close", "utimensat", "fsync", "flock",
              "ioctl", "fcntl"}
      /\ \A name \in DOMAIN FreeBSD_unlink_fcntl(v12) : FreeBSD_unlink_fcntl(v12)[name] # {}
  BY DEF FreeBSD_unlink_fcntl, PathErrnos
<1>5. DOMAIN Header("freebsd", v12) = (DOMAIN FreeBSD_access_mknod(v12)) \cup (DOMAIN FreeBSD_opendir_truncate(v12)) \cup (DOMAIN FreeBSD_unlink_fcntl(v12))
  BY <1>1 DEF ++
<1>6. AlwaysTables \cup Optional("freebsd") \subseteq DOMAIN Header("freebsd", v12)
  BY <1>2, <1>3, <1>4, <1>5 DEF AlwaysTables, Optional, XattrOps
<1>7. \A name \in DOMAIN Header("freebsd", v12) : Header("freebsd", v12)[name] # {}
  BY <1>1, <1>2, <1>3, <1>4, <1>5 DEF ++
<1> QED BY <1>6, <1>7

\* unreliablefs_errno_macosx.h has its tables, and two of them are empty.
LEMMA MacOSXHeader ==
    ASSUME NEW v12
    PROVE  /\ AlwaysTables \cup Optional("macosx") \subseteq DOMAIN Header("macosx", v12)
           /\ \A name \in DOMAIN Header("macosx", v12) :
                 Header("macosx", v12)[name] = {} => name \in {"opendir", "readdir"}
<1>1. Header("macosx", v12) = MacOSX_access_read ++ MacOSX_readlink_statfs ++ MacOSX_close_fcntl
  BY DEF Header
<1>2. /\ DOMAIN MacOSX_access_read
           = {"access", "chmod", "creat", "ftruncate", "link", "mkdir", "mknod", "opendir",
              "readdir", "read"}
      /\ \A name \in DOMAIN MacOSX_access_read : MacOSX_access_read[name] = {} => name \in {"opendir", "readdir"}
  BY DEF MacOSX_access_read, PathErrnos
<1>3. /\ DOMAIN MacOSX_readlink_statfs
           = {"readlink", "rename", "rmdir", "symlink", "truncate", "unlink", "write",
              "lstat", "statfs"}
      /\ \A name \in DOMAIN MacOSX_readlink_statfs : MacOSX_readlink_statfs[name] = {} => name \in {"opendir", "readdir"}
  BY DEF MacOSX_readlink_statfs, PathErrnos
<1>4. /\ DOMAIN MacOSX_close_fcntl
           = {"close", "utimensat", "fsync", "setxattr", "getxattr", "listxattr",
              "removexattr", "flock", "ioctl", "fcntl"}
      /\ \A name \in DOMAIN MacOSX_close_fcntl : MacOSX_close_fcntl[name] = {} => name \in {"opendir", "readdir"}
  BY DEF MacOSX_close_fcntl, PathErrnos
<1>5. DOMAIN Header("macosx", v12) = (DOMAIN MacOSX_access_read) \cup (DOMAIN MacOSX_readlink_statfs) \cup (DOMAIN MacOSX_close_fcntl)
  BY <1>1 DEF ++
<1>6. AlwaysTables \cup Optional("macosx") \subseteq DOMAIN Header("macosx", v12)
  BY <1>2, <1>3, <1>4, <1>5 DEF AlwaysTables, Optional, XattrOps
<1>7. \A name \in DOMAIN Header("macosx", v12) : Header("macosx", v12)[name] = {} => name \in {"opendir", "readdir"}
  BY <1>1, <1>2, <1>3, <1>4, <1>5 DEF ++
<1> QED BY <1>6, <1>7

\* unreliablefs_errno_openbsd.h has its tables, none of them empty.
LEMMA OpenBSDHeader ==
    ASSUME NEW v12
    PROVE  /\ AlwaysTables \cup Optional("openbsd") \subseteq DOMAIN Header("openbsd", v12)
           /\ \A name \in DOMAIN Header("openbsd", v12) : Header("openbsd", v12)[name] # {}
<1>1. Header("openbsd", v12) = OpenBSD_access_opendir ++ OpenBSD_readdir_unlink ++ OpenBSD_write_fcntl
  BY DEF Header
<1>2. /\ DOMAIN OpenBSD_access_opendir
           = {"access", "chmod", "creat", "ftruncate", "link", "mkdir", "mknod", "opendir"}
      /\ \A name \in DOMAIN OpenBSD_access_opendir : OpenBSD_access_opendir[name] # {}
  BY DEF OpenBSD_access_opendir, PathErrnos
<1>3. /\ DOMAIN OpenBSD_readdir_unlink
           = {"readdir", "read", "readlink", "rename", "rmdir", "symlink", "truncate",
              "unlink"}
      /\ \A name \in DOMAIN OpenBSD_readdir_unlink : OpenBSD_readdir_unlink[name] # {}
  BY DEF OpenBSD_readdir_unlink, PathErrnos
<1>4. /\ DOMAIN OpenBSD_write_fcntl
           = {"write", "lstat", "statfs", "close", "utimensat", "fsync", "flock", "fcntl"}
      /\ \A name \in DOMAIN OpenBSD_write_fcntl : OpenBSD_write_fcntl[name] # {}
  BY DEF OpenBSD_write_fcntl, PathErrnos
<1>5. DOMAIN Header("openbsd", v12) = (DOMAIN OpenBSD_access_opendir) \cup (DOMAIN OpenBSD_readdir_unlink) \cup (DOMAIN OpenBSD_write_fcntl)
  BY <1>1 DEF ++
<1>6. AlwaysTables \cup Optional("openbsd") \subseteq DOMAIN Header("openbsd", v12)
  BY <1>2, <1>3, <1>4, <1>5 DEF AlwaysTables, Optional, XattrOps
<1>7. \A name \in DOMAIN Header("openbsd", v12) : Header("openbsd", v12)[name] # {}
  BY <1>1, <1>2, <1>3, <1>4, <1>5 DEF ++
<1> QED BY <1>6, <1>7
----------------------------------------------------------------------------
(* What holds of every build                                               *)

\* The macros that a platform can have.
LEMMA BuildFacts ==
    ASSUME NEW b \in AllBuilds
    PROVE  /\ b.platform \in Platforms /\ b.v12 \in BOOLEAN
           /\ "HAVE_XATTR" \in b.macros => b.platform \in {"linux", "macosx"}
           /\ "HAVE_FLOCK" \in b.macros => b.platform = "linux"
           /\ "HAVE_FALLOCATE" \in b.macros => b.platform = "linux"
<1>1. PICK p : p = b.platform
  OBVIOUS
<1>2. p \in Platforms /\ b.v12 \in BOOLEAN
  BY <1>1 DEF AllBuilds
<1>3. PICK fs \in LibC(p) : b.macros = Macros(fs)
  BY <1>1 DEF AllBuilds
<1>4. /\ "HAVE_XATTR" \in Macros(fs) => "setxattr" \in fs
      /\ "HAVE_FLOCK" \in Macros(fs) => "fallocate" \in fs
      /\ "HAVE_FALLOCATE" \in Macros(fs) => "fallocate" \in fs
  BY DEF Macros
<1>5. ("setxattr" \in fs => p \in {"linux", "macosx"}) /\ ("fallocate" \in fs => p = "linux")
  <2>1. CASE p = "linux"
    BY <2>1
  <2>2. CASE p = "freebsd"
    BY <1>2, <2>2 DEF LibC
  <2>3. CASE p = "macosx"
    BY <1>2, <2>3 DEF LibC
  <2>4. CASE p = "openbsd"
    BY <1>2, <2>4 DEF LibC
  <2> QED BY <1>2, <2>1, <2>2, <2>3, <2>4 DEF Platforms
<1> QED BY <1>1, <1>2, <1>3, <1>4, <1>5

\* The header of a build has its tables; only two tables of macOS are empty.
LEMMA TablesOf ==
    ASSUME NEW b \in AllBuilds
    PROVE  /\ AlwaysTables \cup Optional(b.platform) \subseteq DOMAIN Tables(b)
           /\ \A name \in DOMAIN Tables(b) : Tables(b)[name] = {} =>
                 b.platform = "macosx" /\ name \in {"opendir", "readdir"}
<1> USE DEF Tables
<1>1. CASE b.platform = "linux"
  BY <1>1, LinuxHeader
<1>2. CASE b.platform = "freebsd"
  BY <1>2, FreeBSDHeader
<1>3. CASE b.platform = "macosx"
  BY <1>3, MacOSXHeader
<1>4. CASE b.platform = "openbsd"
  BY <1>4, OpenBSDHeader
<1> QED BY <1>1, <1>2, <1>3, <1>4, BuildFacts DEF Platforms

\* Every case of a build has its table.
LEMMA CaseHasTable ==
    ASSUME NEW b \in AllBuilds, NEW op, Has(b, op)
    PROVE  /\ Cases(b)[op] \in DOMAIN Tables(b)
           /\ Cases(b)[op] \in {"opendir", "readdir"} => op \in {"opendir", "readdir"}
<1>0. /\ b.platform \in Platforms
      /\ AlwaysTables \subseteq DOMAIN Tables(b) /\ Optional(b.platform) \subseteq DOMAIN Tables(b)
  BY BuildFacts, TablesOf
<1>1. CASE op \in AlwaysOps
  <2>1. Cases(b)[op] = CasesAlways[op]
    BY <1>1, CasesOf
  <2> QED BY <1>0, <1>1, <2>1, AlwaysCases
<1>2. CASE op \in XattrOps /\ "HAVE_XATTR" \in b.macros
  <2>1. Cases(b)[op] = op
    BY <1>2, CasesOf
  <2>2. XattrOps \subseteq Optional(b.platform)
    BY <1>2, BuildFacts DEF Optional
  <2> QED BY <1>0, <1>2, <2>1, <2>2 DEF XattrOps
<1>3. CASE op = "ioctl" /\ b.platform # "openbsd"
  <2>1. Cases(b)[op] = "ioctl"
    BY <1>3, CasesOf
  <2>2. "ioctl" \in Optional(b.platform)
    BY <1>0, <1>3 DEF Optional, Platforms
  <2> QED BY <1>0, <2>1, <2>2
<1>4. CASE op = "flock" /\ "HAVE_FLOCK" \in b.macros
  <2>1. Cases(b)[op] = "flock"
    BY <1>4, CasesOf
  <2>2. "flock" \in Optional(b.platform)
    BY <1>4, BuildFacts DEF Optional
  <2> QED BY <1>0, <2>1, <2>2
<1>5. CASE op = "fallocate" /\ "HAVE_FALLOCATE" \in b.macros
  <2>1. Cases(b)[op] = "fallocate"
    BY <1>5, CasesOf
  <2>2. "fallocate" \in Optional(b.platform)
    BY <1>5, BuildFacts DEF Optional
  <2> QED BY <1>0, <2>1, <2>2
<1>6. CASE op = "utimens" /\ "HAVE_UTIMENSAT" \in b.macros
  <2>1. Cases(b)[op] = "utimensat"
    BY <1>6, CasesOf
  <2>2. "utimensat" \in Optional(b.platform)
    BY <1>0 DEF Optional, Platforms
  <2> QED BY <1>0, <2>1, <2>2
<1> QED BY <1>1, <1>2, <1>3, <1>4, <1>5, <1>6 DEF Has

\* What errinj_errno can draw for a handler of a build: never the -1 of a missing
\* case, and something else than the word behind the table but on macOS.
LEMMA DrawsOf ==
    ASSUME NEW b \in AllBuilds, NEW h \in unreliable_ops(b)
    PROVE  /\ NoCase \notin op_random_errno(b, OpOf(h))
           /\ op_random_errno(b, OpOf(h)) = {PastEnd} =>
                 b.platform = "macosx" /\ h \in {"opendir", "readdir"}
<1>1. PICK op : op = OpOf(h)
  OBVIOUS
<1>2. Has(b, op)
  BY <1>1, HandlersOf
<1>3. PICK name : name = Cases(b)[op]
  OBVIOUS
<1>4. /\ op \in DOMAIN Cases(b) /\ name \in DOMAIN Tables(b)
      /\ name \in {"opendir", "readdir"} => op \in {"opendir", "readdir"}
  BY <1>2, <1>3, CasesOf, CaseHasTable
<1>5. op_random_errno(b, op) = Tables(b)[name] \cup {PastEnd}
  BY <1>3, <1>4 DEF op_random_errno, RANDOM_ELEMENT
<1>6. {NoCase, PastEnd} \cap Tables(b)[name] = {} /\ NoCase # PastEnd
  BY <1>4, BuildFacts, ValuesApart DEF ValuesApart, Tables
<1>7. op \in {"opendir", "readdir"} => h = op
  BY <1>1 DEF OpOf
<1>8. Tables(b)[name] = {} => b.platform = "macosx" /\ name \in {"opendir", "readdir"}
  BY <1>4, TablesOf
<1>9. NoCase \notin op_random_errno(b, op)
  BY <1>5, <1>6
<1>10. op_random_errno(b, op) = {PastEnd} => Tables(b)[name] = {}
  BY <1>5, <1>6
<1> QED BY <1>1, <1>4, <1>7, <1>8, <1>9, <1>10

\* The name that error_inject() looks up for a handler is that of its operation.
LEMMA NameOf ==
    ASSUME NEW b, NEW h \in unreliable_ops(b)
    PROVE  fuse_op_name(b)[Enumerator(b, OpOf(h))] = OpOf(h)
<1>1. OpOf(h) \in ToSet(fuse_op(b))
  BY HandlersOf, EnumeratorsOf
<1>2. fuse_op_name(b) = fuse_op(b)
  BY DEF fuse_op, fuse_op_name
<1>3. \E i \in DOMAIN fuse_op(b) : fuse_op(b)[i] = OpOf(h)
  BY <1>1 DEF ToSet
<1> QED BY <1>2, <1>3 DEF Enumerator
----------------------------------------------------------------------------
(* The invariant                                                           *)

BInv ==
    /\ build \in AllBuilds
    /\ handler # None => handler \in unreliable_ops(build)
    /\ NamedAsCalled
    /\ rc # NoCase

\* The call of a handler and the draw for it keep the invariant.
THEOREM BuildInvariance == Spec => []BInv
<1>1. Init => BInv
  BY ValuesApart DEF Init, BInv, NamedAsCalled, ValuesApart
<1>2. BInv /\ [Next]_vars => BInv'
  <2> SUFFICES ASSUME BInv, [Next]_vars PROVE BInv'
    OBVIOUS
  <2>1. ASSUME NEW h \in unreliable_ops(build), Call(h) PROVE BInv'
    <3>1. op_name' = OpOf(h)
      BY <2>1, NameOf DEF Call
    <3> QED BY <2>1, <3>1 DEF BInv, Call, NamedAsCalled
  <2>2. CASE InjectErrno
    <3>1. handler \in unreliable_ops(build) /\ rc' \in op_random_errno(build, OpOf(handler))
      BY <2>2 DEF BInv, InjectErrno
    <3>2. rc' # NoCase
      BY <3>1, DrawsOf DEF BInv
    <3> QED BY <2>2, <3>2 DEF BInv, InjectErrno, NamedAsCalled
  <2>3. CASE Return
    BY <2>3, ValuesApart DEF BInv, Return, NamedAsCalled, ValuesApart
  <2>4. CASE UNCHANGED vars
    BY <2>4 DEF BInv, vars, NamedAsCalled
  <2> QED BY <2>1, <2>2, <2>3, <2>4 DEF Next
<1> QED BY <1>1, <1>2, PTL DEF Spec

\* In every build op_regexp is matched with the name of the operation that runs.
THEOREM RightName == Spec => []NamedAsCalled
<1>1. BInv => NamedAsCalled
  BY DEF BInv
<1> QED BY <1>1, BuildInvariance, PTL

\* In every build each case of op_random_errno() has its enumerator and its table.
THEOREM EveryBuildCompiles == Spec => []TablesExist
<1>1. BInv => TablesExist
  <2> SUFFICES ASSUME BInv, NEW op \in DOMAIN Cases(build)
               PROVE  op \in ToSet(fuse_op(build)) /\ Cases(build)[op] \in DOMAIN Tables(build)
    BY DEF TablesExist
  <2>1. Has(build, op)
    BY CasesOf
  <2> QED BY <2>1, EnumeratorsOf, CaseHasTable DEF BInv
<1> QED BY <1>1, BuildInvariance, PTL

\* No handler of any build gets the -1 of a missing case, and but for two tables of
\* macOS each can get an errno.
THEOREM ErrnoForEveryHandler == Spec => []ErrnoOfEveryHandler
<1>1. BInv => ErrnoOfEveryHandler
  BY DrawsOf DEF BInv, ErrnoOfEveryHandler
<1> QED BY <1>1, BuildInvariance, PTL
=============================================================================
