---------------------------- MODULE MCPreflight -----------------------------
(* Plans of one or two steps over every operation and connector, with every *)
(* state of their targets; and every configuration that is one edit away    *)
(* from a complete one, with the smallest plan.                             *)
EXTENDS Preflight

\* A complete INI file and YAML file.
Full ==
  [x \in Required \union RequiredOfScope
           \union {<<"scope", "backup">>, <<"ssh", "port">>, <<"database", "engine">>, <<"access", "deny_root">>} |->
     IF x \in Booleans THEN "on" ELSE IF x \in OneOf \/ x[1] = "database" THEN "ok"
     ELSE IF x \in AtLeastOne THEN "9" ELSE "text"]
Plain == [x \in DOMAIN Full \ {<<"access", "deny_root">>, <<"ssh", "port">>} |-> Full[x]]
File(f, cell) == [format |-> f, parses |-> TRUE, by |-> "hand", cell |-> cell]

Set(cell, x, v) == [y \in DOMAIN cell \union {x} |-> IF y = x THEN v ELSE cell[y]]
Without(cell, x) == [y \in DOMAIN cell \ {x} |-> cell[y]]

Unknown == {<<"local81", "unknown">>, <<"unknown", "key">>, <<"database", "password">>, <<"database", "unknown">>}
IniFiles ==
  {File("ini", Set(Full, x, v)) : x \in Allowed \union Unknown, v \in Values}
    \union {File("ini", Without(Full, x)) : x \in DOMAIN Full}
    \union {File("ini", [x \in {y \in DOMAIN Full : y[1] # s} |-> Full[x]]) : s \in {"local81", "routing", "scope"}}
YamlCells == {x \in Allowed : x[1] \in {"local81", "routing", "scope", "database"}} \union Unknown
               \union {<<s, "">> : s \in TopLevel \union {"top"}}
YamlFiles ==
  {File("yaml", Set(Plain, x, v)) : x \in YamlCells, v \in Values}
    \union {File("yaml", Without(Plain, x)) : x \in DOMAIN Plain}

NoFile == [format |-> "none", parses |-> TRUE, by |-> "hand", cell |-> <<>>]
Ini(key, v) == File("ini", Set(Full, <<"access", key>>, v))
MCConfigs == {NoFile, File("yaml", Plain), Ini("deny_root", "on"), Ini("deny_root", "off"),
              Ini("deny_root", "text"), Ini("denied_users", "text"), Ini("allowed_groups", "text"),
              Ini("allow_remote_cmd", "off"), [Ini("deny_root", "off") EXCEPT !.parses = FALSE],
              File("yaml", Set(Plain, <<"defaults", "">>, "text"))}

\* One interview that goes through, and those that differ in one place.
Usual == [project |-> "text", source |-> <<"text", "">>, found |-> TRUE, keep |-> FALSE, other |-> "",
          target |-> <<"text", "">>, servers |-> <<"text", "">>, maxParallel |-> "9",
          failFast |-> TRUE, backup |-> TRUE, cancel |-> FALSE]
Twice == {<<"text", "">>, <<"", "text">>, <<"", "">>}
Varied(r) ==
  {[r EXCEPT !.project = ""], [r EXCEPT !.cancel = TRUE]}
    \union {[r EXCEPT !.source = s, !.found = FALSE, !.keep = k, !.other = o] : s \in Twice, k \in BOOLEAN, o \in {"text", ""}}
    \union {[r EXCEPT !.target = t] : t \in Twice}
    \union {[r EXCEPT !.servers = v] : v \in Twice \union {<<",", "">>, <<"", ",">>}}
    \union {[r EXCEPT !.maxParallel = m] : m \in {"", "text", "0", "-1", "1"}}
    \union {[r EXCEPT !.failFast = f, !.backup = b] : f, b \in BOOLEAN}
MCReplies == Varied(Usual)
Legacy(b) == [k \in {"source_dir", "target_dir", "servers"} \union DOMAIN b |->
                IF k \in DOMAIN b THEN b[k] ELSE "text"]
MCLegacies ==
  {Legacy([source_dir |-> ""]), Legacy([target_dir |-> ""]), Legacy([servers |-> ","]), Legacy([backup |-> "on"]),
   Legacy([backup |-> "text"]), [source_dir |-> "text"]}

MCActors == {[user |-> "root", root |-> TRUE, groups |-> {}],
             [user |-> "text", root |-> FALSE, groups |-> {"text"}]}

Path(sha, meta) == [sha256 |-> sha, meta |-> meta]
Step(op, type, host, want) == [op |-> op, type |-> type, host |-> host, want |-> want]
FileStep(host, sha, meta) == Step("file.synced", "rsync", host, Path(sha, meta))
DirStep(host, meta) == Step("dir.present", "mkdir", host, Path("", meta))
Unit(host, a, e) == Step("service.running", "remote_cmd", host, [active |-> a, enabled |-> e])
Package(host, i) == Step("package.present", "remote_cmd", host, [installed |-> i])
Raw(host) == Step("none", "remote_cmd", host, Path("", ""))

Paths == {[is |-> "absent", content |-> "", meta |-> ""], [is |-> "dir", content |-> "", meta |-> "755"]}
Found(op) ==
  CASE op = "file.synced" -> Paths \union [is : {"file"}, content : {"old", "new"}, meta : {"644", "755"}]
    [] op = "dir.present" -> Paths \union [is : {"file"}, content : {"old"}, meta : {"755"}]
                              \union [is : {"dir"}, content : {""}, meta : {"700"}]
    [] op = "service.running" -> [active : {"active", "inactive", "failed"}, enabled : {"enabled", "disabled", "static", ""}]
    [] op = "package.present" -> [manager : {"dpkg", "rpm", "none"}, installed : BOOLEAN, rest : {"", "deinstall ok config-files"}]
    [] OTHER -> {[is |-> "any"]}
MCOthers(op) ==
  CASE op = "file.synced" -> {[is |-> "file", content |-> "old", meta |-> "644"], [is |-> "absent", content |-> "", meta |-> ""]}
    [] op = "service.running" -> {[active |-> "active", enabled |-> "enabled"], [active |-> "failed", enabled |-> "disabled"]}
    [] op = "package.present" -> {[manager |-> "dpkg", installed |-> FALSE, rest |-> ""]}
    [] op = "dir.present" -> {[is |-> "absent", content |-> "", meta |-> ""]}
    [] OTHER -> {}

Plan(steps) == [parses |-> TRUE, sound |-> TRUE, steps |-> steps]
OneStep == {FileStep("web", "new", ""), FileStep("@docker/web", "new", "755"), FileStep("@local", "", ""),
            DirStep("web", "755"), DirStep("web", "")}
             \union {Unit("web", a, e) : a, e \in BOOLEAN} \union {Package("web", i) : i \in BOOLEAN}
             \union {Raw("web")}
Base == {Ini("deny_root", "off"), Ini("allow_remote_cmd", "off")}
Pairs == {<<FileStep("web", "new", ""), Unit("db", FALSE, FALSE)>>, <<Raw("web"), FileStep("web", "new", "")>>}

World(c, p, t, n) == [config |-> c, plan |-> p, target |-> t, changes |-> n]
Any == [is |-> "any"]
MCWorlds ==
  UNION {{World(c, Plan(<<s>>), <<t>>, 2) : c \in Base, t \in Found(s.op)} : s \in OneStep}
    \union UNION {{World(Ini("deny_root", "off"), Plan(p), <<t, u>>, 1) :
                     t \in Found(p[1].op), u \in MCOthers(p[2].op)} : p \in Pairs}
    \union {World(c, p, <<Any>>, 2) :
              c \in MCConfigs, p \in [parses : BOOLEAN, sound : BOOLEAN, steps : {<<Raw("@local")>>}]}
    \union {World(c, Plan(<<Raw("@local")>>), <<Any>>, 0) : c \in IniFiles \union YamlFiles}
    \union {World(NoFile, Plan(<<>>), <<>>, 2)}
=============================================================================
