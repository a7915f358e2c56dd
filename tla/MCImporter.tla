----------------------------- MODULE MCImporter -----------------------------
EXTENDS Importer, TLC

Symmetric == Permutations(Runs)

Spelling == [n \in {"a", "A", "b", "c", "zone", "Zone", "other"} |->
               CASE n = "A" -> "a" [] n = "Zone" -> "zone" [] OTHER -> n]
Registry == [t \in {"aws", "route53", "hetzner", "gone"} |->
               CASE t \in {"aws", "route53"} -> "route53"
                 [] t = "hetzner" -> "hetzner" [] t = "gone" -> NULL]

User(role, web, hash) ==
  [role |-> role, web |-> web, active |-> TRUE, hash |-> hash, limited |-> FALSE]
Host(name, d, u, ttl) == [name |-> name, domain |-> d, user |-> u, ttl |-> ttl]
Backend(d, t) == [domain |-> d, type |-> t, cipher |-> "key"]

(* One admin, two devices, two zones, one of them with two accounts.        *)
Base ==
  [file |-> "sound",
   users |-> <<User("admin", TRUE, "bcrypt"), User("user", FALSE, "bcrypt"),
               User("user", FALSE, "argon2id")>>,
   domains |-> <<"Zone", "other">>,
   backends |-> <<Backend(1, "aws"), Backend(1, "hetzner"), Backend(2, "aws")>>,
   hostnames |-> <<Host("A", 1, 2, 60), Host("b", 1, 2, 60), Host("c", 1, 3, 60)>>,
   bindings |-> {}]

Variant(t, d, B) ==
  [Base EXCEPT !.hostnames[1].ttl = t[1], !.hostnames[2].ttl = t[2],
               !.hostnames[3].ttl = t[3], !.hostnames[3].domain = d, !.bindings = B]
Bindings == {{}, {<<1, 1>>}, {<<1, 1>>, <<1, 2>>}, {<<1, 1>>, <<2, 2>>}}

Good ==
  {Variant(t, 1, B) : t \in {<<60, 300, 300>>, <<300, 60, 60>>}, B \in Bindings}
    \cup {Variant(<<60, t, 60>>, 2, B) : t \in {60, 300}, B \in Bindings}

Bad ==
  {[Base EXCEPT !.file = "wal"],
   [Base EXCEPT !.users[1].web = FALSE],
   [Base EXCEPT !.users[2].role = "admin"],
   [Base EXCEPT !.users[2].web = TRUE],
   [Base EXCEPT !.users[2].active = FALSE],
   [Base EXCEPT !.users[3].hash = "unknown"],
   [Base EXCEPT !.users[3].hash = "overlong"],
   [Base EXCEPT !.users[3].limited = TRUE],
   [Base EXCEPT !.users = <<Base.users[1]>>],
   [Base EXCEPT !.hostnames = <<>>],
   [Base EXCEPT !.hostnames[1].domain = 9],
   [Base EXCEPT !.hostnames[1].user = 1],
   [Base EXCEPT !.hostnames[2].name = "a"],
   [Base EXCEPT !.backends[1].type = "gone"],
   [Base EXCEPT !.backends[1].cipher = "undecryptable"],
   [Base EXCEPT !.backends[1].cipher = "empty"],
   [Base EXCEPT !.bindings = {<<1, 3>>}],
   [Base EXCEPT !.bindings = {<<7, 1>>}],
   (* Planned, and refused by the target. *)
   [Base EXCEPT !.domains[2] = "zone"],
   [Base EXCEPT !.backends[2].type = "route53"],
   [Base EXCEPT !.backends[3].domain = 9],
   (* Odd but sound. *)
   [Base EXCEPT !.backends = <<Base.backends[1]>>],
   [Base EXCEPT !.users[1].hash = "unknown"]}

Both == Good \cup Bad
=============================================================================
