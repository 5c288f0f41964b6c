-------------------------- MODULE AccountsCertProofs --------------------------
(***************************************************************************)
(* Proofs about the certificate files of Accounts: who may read an         *)
(* unencrypted key, what a service account's creation leaves behind, and   *)
(* what a download hands out, for any people, services and requests.       *)
(*                                                                         *)
(* Accounts that two requests create or sign for at once are left out, as  *)
(* in the properties: there the three openssl commands mix.  Nevertheless  *)
(* they share admins and crl with all others, and the invariant must hold  *)
(* whatever they do to those.                                              *)
(***************************************************************************)
EXTENDS AccountsProofs

(***************************************************************************)
(* The inductive invariant.                                                *)
(***************************************************************************)
Serials(f) == {f.pem.serial, f.p12, f.nodered}

\* The process is between the check and the end of a creation or a signing.
Signs(o) == o.kind \in {"create", "generate"}

\* Serials are handed out once, in order.
Numbered ==
    /\ \A a \in Account : \A s \in Serials(files[a]) : s <= fresh
    /\ \A s \in crl \cup admins : 0 < s /\ s <= fresh

\* No two accounts have a serial in common.
OwnSerials ==
    \A a \in Account, b \in Account :
        \A s \in Serials(files[a]) \cap Serials(files[b]) : a = b \/ s = 0

Singly ==
    \A p \in Proc, q \in Proc :
        /\ Signs(op[p]) /\ Signs(op[q])
        /\ op[p].acct = op[q].acct /\ op[p].acct \notin raced
        => p = q

\* Which steps an operation takes, for whom.
Shape(o) ==
    /\ o.kind = "generate" => o.acct \in Person /\ o.pc \in {"csr", "sign", "p12"}
    /\ o.kind = "create" =>
          /\ o.pc \in {"create", "attrs", "ensure", "drop", "join", "csr", "sign",
                       "p12", "pems", "certmod", "rollback"}
          /\ \/ /\ o.mode = "user" /\ o.ask # {} /\ o.acct \in Person
                /\ o.pc \in {"create", "attrs", "ensure", "drop", "join"}
             \/ o.mode \in {"svc_data", "svc_admin"} /\ o.acct \in Service
    /\ o.kind = "download" => /\ o.pc \in {"look", "check", "send"}
                              /\ o.acct \in Person \cup Service
    /\ o.pc \in {"csr", "sign", "p12"} => Signs(o)
    /\ o.pc \in {"create", "attrs", "ensure", "pems", "certmod", "rollback"} =>
          o.kind = "create"
    /\ o.pc \in {"look", "check", "send"} => o.kind = "download"

\* What it knows of the files of its account whoever else signs for it.  A
\* .pem that is not the one a download looked at any more is newer than every
\* serial that was revoked when the download came.
Backed(o, f, revoked) ==
    /\ o.pc \in {"p12", "pems", "certmod"} => f.pem.serial # 0
    /\ o.pc \in {"look", "check", "send"} => f.p12 # 0
    /\ o.crl0 \subseteq revoked
    /\ o.pc \in {"check", "send"} =>
          f.pem.serial = o.seen \/ f.pem.serial \notin o.crl0
    /\ o.pc = "send" /\ ~o.blind => o.seen \notin o.crl0

\* The certificates a deletion has listed are ones that were signed.
Numbers(o, n) == o.certs \subseteq 1..n

\* What it knows when nobody else does: the new serial is neither an
\* administrator's nor the one Node-RED can read.
Alone(o, f, regd, type, end) ==
    /\ o.kind = "generate" => f.p12 = 0
    /\ o.kind = "create" => end = "none"
    /\ /\ o.kind = "create" /\ o.acct \in Service
       /\ o.pc \in {"ensure", "drop", "join", "csr", "sign", "p12", "pems", "certmod"}
       => type = o.mode
    /\ o.pc = "p12" => f.pem.serial \notin regd \cup {f.nodered}
    /\ o.pc = "pems" => /\ f.p12 = f.pem.serial /\ f.p12 \notin regd
                        /\ o.mode = "svc_data"
    /\ o.pc = "certmod" => /\ f.p12 = f.pem.serial /\ f.p12 # f.nodered
                           /\ o.mode = "svc_admin"

OpGood(o) ==
    /\ Shape(o)
    /\ Backed(o, files[o.acct], crl)
    /\ Numbers(o, fresh)
    /\ o.acct \notin raced =>
           Alone(o, files[o.acct], admins, utype[o.acct], fate[o.acct])

\* The bootstrap signs nothing.
ProcGood(p, o) == OpGood(o) /\ (p = Boot => o.kind \in {"none", "boot"})

FilesGood(a, f, regd, type, end) ==
    /\ f.nodered \notin regd
    /\ a \in Person /\ f.p12 # 0 => f.p12 = f.pem.serial
    /\ a \in Service /\ end = "ready" =>
           /\ f.p12 # 0 /\ f.p12 = f.pem.serial
           /\ type = "svc_admin" <=> f.p12 \in regd

ServedGood ==
    \A pair \in served : pair[1] \in Person \ raced =>
        pair[2] = files[pair[1]].p12 /\ pair[2] # 0

CertInv ==
    /\ Numbered /\ OwnSerials /\ Singly /\ ServedGood
    /\ \A p \in Proc : ProcGood(p, op[p])
    /\ \A a \in Account \ raced :
           FilesGood(a, files[a], admins, utype[a], fate[a])
    /\ \A a \in Account : fate[a] = "failed" => ~active[a]

(***************************************************************************)
(* Operations that leave the files alone.                                  *)
(***************************************************************************)
\* An operation that neither signs nor downloads knows nothing of them.
LEMMA Unconcerned ==
    ASSUME NEW o, o.kind \in {"none", "set", "delete", "boot"},
           o.pc \notin {"create", "attrs", "ensure", "csr", "sign", "p12", "pems",
                        "certmod", "rollback", "look", "check", "send"},
           o.crl0 \subseteq crl, Numbers(o, fresh)
    PROVE  OpGood(o) /\ ~Signs(o)
BY DEF OpGood, Shape, Backed, Alone, Signs

LEMMA IdleGood ==
    /\ OpGood(Idle) /\ ~Signs(Idle)
    /\ \A p : ProcGood(p, Idle)
<1>1. /\ Idle.kind = "none" /\ Idle.pc = "idle" /\ Idle.crl0 = {}
      /\ \A n : Numbers(Idle, n)
  BY DEF Idle, Numbers
<1>2. QED
  BY <1>1, Unconcerned DEF ProcGood

\* The groups an operation still has to deal with do not matter here.
LEMMA SameCert ==
    ASSUME NEW p, NEW o, NEW x, ProcGood(p, o),
           x.pc = o.pc, x.kind = o.kind, x.acct = o.acct, x.mode = o.mode,
           x.ask = o.ask, x.seen = o.seen, x.crl0 = o.crl0, x.blind = o.blind,
           x.certs = o.certs
    PROVE  ProcGood(p, x) /\ (Signs(x) <=> Signs(o))
BY DEF ProcGood, OpGood, Shape, Backed, Numbers, Alone, Signs

\* What a process may move to when the files stay as they are.
Carries(p, o) ==
    /\ ProcGood(p, o)
    /\ Signs(o) => Signs(op[p]) /\ o.acct = op[p].acct

\* Where it goes with its groups.
LEMMA GroupedCarries ==
    ASSUME NEW p \in Proc, NEW o \in OpRecord, Carries(p, o),
           o.pc \in {"plan", "drop", "join"}
    PROVE  Carries(p, Grouped(o)) /\ Carries(p, Idle)
<1>1. \A pc \in {"drop", "join"} : Carries(p, [o EXCEPT !.pc = pc])
  BY DEF Carries, ProcGood, OpGood, Shape, Backed, Numbers, Alone, Signs, OpRecord
<1>2. o.kind = "boot" => Carries(p, [o EXCEPT !.pc = "type"])
  BY DEF Carries, ProcGood, OpGood, Shape, Backed, Numbers, Alone, Signs, OpRecord
<1>3. o.kind = "create" /\ o.mode # "user" => Carries(p, [o EXCEPT !.pc = "csr"])
  BY DEF Carries, ProcGood, OpGood, Shape, Backed, Numbers, Alone, Signs, OpRecord
<1>4. Carries(p, Idle)
  BY IdleGood DEF Carries
<1>5. QED
  BY <1>1, <1>2, <1>3, <1>4 DEF Grouped

\* Steps that move operations, and change nothing else that matters here.
LEMMA OpMoves ==
    ASSUME CertInv, UNCHANGED <<ca, fate, served>>, raced \subseteq raced',
           \A a \in Service \ raced' : utype'[a] = utype[a],
           \A a \in Account : active'[a] => active[a],
           \A p \in Proc : op'[p] = op[p] \/ Carries(p, op'[p])
    PROVE  CertInv'
<1>0. UNCHANGED <<files, crl, admins, fresh, fate, served>>
  BY DEF ca
<1>1. ASSUME NEW p \in Proc PROVE Carries(p, op'[p])
  BY DEF CertInv, Carries
<1>2. ASSUME NEW p \in Proc PROVE ProcGood(p, op[p])'
  <2> DEFINE o == op'[p]
  <2>1. ProcGood(p, o)
    BY <1>1 DEF Carries
  <2>2. o.acct \notin raced' =>
           \A f, regd, end : Alone(o, f, regd, utype[o.acct], end) =>
                              Alone(o, f, regd, utype'[o.acct], end)
    BY DEF Alone
  <2>3. QED
    BY <1>0, <2>1, <2>2 DEF ProcGood, OpGood
<1>3. Singly'
  BY <1>0, <1>1 DEF Carries, CertInv, Singly
<1>4. Numbered' /\ OwnSerials' /\ ServedGood'
  BY <1>0 DEF CertInv, Numbered, OwnSerials, ServedGood
<1>5. ASSUME NEW a \in Account \ raced'
      PROVE  FilesGood(a, files[a], admins, utype[a], fate[a])'
  BY <1>0, <1>5 DEF CertInv, FilesGood
<1>6. \A a \in Account : fate'[a] = "failed" => ~active'[a]
  BY <1>0 DEF CertInv
<1>7. QED
  BY <1>0, <1>2, <1>3, <1>4, <1>5, <1>6 DEF CertInv


(***************************************************************************)
(* Steps of the operation that creates an account or signs for it.         *)
(***************************************************************************)
\* Process p moves to o and turns the files of its account a into f.
Own(p, a, f, o) ==
    /\ Signs(op[p]) /\ op[p].acct = a
    /\ op' = [op EXCEPT ![p] = o] /\ files' = [files EXCEPT ![a] = f]
    /\ UNCHANGED <<crl, raced, served>>
    /\ fresh' \in Nat /\ fresh <= fresh'
    /\ \A s \in Serials(f) \ Serials(files[a]) : fresh < s /\ s <= fresh'
    /\ f.pem.serial = files[a].pem.serial \/ fresh < f.pem.serial
    /\ files[a].pem.serial # 0 => f.pem.serial # 0
    /\ files[a].p12 # 0 => f.p12 # 0
    /\ a \in Person \ raced /\ files[a].p12 # 0 => f.p12 = files[a].p12
    /\ \/ admins' = admins
       \/ admins' = admins \cup {files[a].pem.serial} /\ files[a].pem.serial # 0
    /\ \A b \in Account \ {a} : /\ utype'[b] = utype[b]
                                /\ fate'[b] = fate[b] /\ active'[b] = active[b]

\* What it knows and leaves behind.
Leaves(p, a, f, o) ==
    /\ \/ o = Idle
       \/ /\ p # Boot /\ o.acct = a /\ Shape(o) /\ Backed(o, f, crl)
          /\ Numbers(o, fresh)
          /\ a \notin raced => Alone(o, f, admins', utype'[a], fate'[a])
    /\ a \notin raced => FilesGood(a, f, admins', utype'[a], fate'[a])
    /\ fate'[a] = "failed" => ~active'[a]

LEMMA NatSerials ==
    ASSUME TypeInv
    PROVE  /\ \A a \in Account : \A s \in Serials(files[a]) : s \in Nat
           /\ fresh \in Nat
           /\ crl \subseteq Nat /\ admins \subseteq Nat
           /\ DOMAIN files = Account
<1>1. \A a \in Account : files[a] \in Files
  BY DEF TypeInv, CaTyped
<1>2. \A a \in Account : \A s \in Serials(files[a]) : s \in Nat
  BY <1>1 DEF Files, Serials
<1>3. QED
  BY <1>2 DEF TypeInv, CaTyped

LEMMA OwnFiles ==
    ASSUME CertInv, TypeInv, NEW p \in Proc, NEW a \in Account, NEW f, NEW o,
           Own(p, a, f, o)
    PROVE  /\ files'[a] = f
           /\ \A b \in Account \ {a} : files'[b] = files[b]
           /\ \A b \in Account \ {a} : \A s \in Serials(files[b]) :
                 s # 0 => (s \in admins' <=> s \in admins)
<1>1. files'[a] = f /\ \A b \in Account \ {a} : files'[b] = files[b]
  BY NatSerials DEF Own
<1>2. ASSUME NEW b \in Account \ {a}, NEW s \in Serials(files[b]), s # 0
      PROVE  s \in admins' <=> s \in admins
  <2>1. s # files[a].pem.serial
    BY <1>2 DEF CertInv, OwnSerials, Serials
  <2>2. QED
    BY <2>1 DEF Own
<1>3. QED
  BY <1>1, <1>2

LEMMA OwnNumbers ==
    ASSUME CertInv, TypeInv, NEW p \in Proc, NEW a \in Account, NEW f, NEW o,
           Own(p, a, f, o)
    PROVE  Numbered' /\ OwnSerials'
<1>1. /\ files'[a] = f
      /\ \A b \in Account \ {a} : files'[b] = files[b]
  BY OwnFiles
<1>2. /\ crl' = crl /\ fresh' \in Nat /\ fresh <= fresh'
      /\ \A s \in Serials(f) \ Serials(files[a]) : fresh < s /\ s <= fresh'
      /\ \/ admins' = admins
         \/ admins' = admins \cup {files[a].pem.serial} /\ files[a].pem.serial # 0
  BY DEF Own
<1>3. /\ \A b \in Account : \A s \in Serials(files[b]) : s \in Nat /\ s <= fresh
      /\ \A s \in crl \cup admins : 0 < s /\ s <= fresh
      /\ fresh \in Nat /\ crl \subseteq Nat /\ admins \subseteq Nat
  BY NatSerials DEF CertInv, Numbered
<1>4. files[a].pem.serial \in Serials(files[a])
  BY DEF Serials
<1>5. Serials(f)' = Serials(f) /\ \A b \in Account : Serials(files[b])' = Serials(files'[b])
  BY DEF Serials
<1>6. Numbered'
  <2>1. ASSUME NEW b \in Account, NEW s \in Serials(files'[b]) PROVE s <= fresh'
    <3>1. CASE s \in Serials(files[b])
      <4>1. s \in Nat /\ s <= fresh
        BY <1>3, <3>1
      <4>2. QED
        BY <4>1, <1>2, <1>3
    <3>2. CASE s \notin Serials(files[b])
      <4>1. b = a
        BY <1>1, <2>1, <3>2
      <4>2. QED
        BY <4>1, <1>1, <1>2, <2>1, <3>2
    <3>3. QED
      BY <3>1, <3>2
  <2>2. ASSUME NEW s \in crl' \cup admins' PROVE 0 < s /\ s <= fresh'
    <3>1. s \in Nat /\ 0 < s /\ s <= fresh
      BY <1>2, <1>3, <1>4, <2>2
    <3>2. QED
      BY <3>1, <1>2, <1>3
  <2>3. QED
    BY <2>1, <2>2 DEF Numbered, Serials
<1>7. ASSUME NEW b \in Account, NEW c \in Account, b # c,
             NEW s \in Serials(files'[b]) \cap Serials(files'[c])
      PROVE  s = 0
  <2>1. s \in Serials(files[b]) /\ s \in Serials(files[c]) => s = 0
    BY <1>7 DEF CertInv, OwnSerials
  <2>2. CASE b # a /\ c # a
    BY <1>1, <1>7, <2>1, <2>2
  <2>3. ASSUME NEW d \in Account \ {a}, s \in Serials(files[d]), s \in Serials(f)
        PROVE  s \in Serials(files[a])
    <3>1. s \in Nat /\ s <= fresh
      BY <1>3, <2>3
    <3>2. ~(fresh < s)
      BY <3>1, <1>3
    <3>3. QED
      BY <1>2, <2>3, <3>2
  <2>4. QED
    BY <1>1, <1>7, <2>1, <2>2, <2>3
<1>8. OwnSerials'
  BY <1>7 DEF OwnSerials, Serials
<1>9. QED
  BY <1>6, <1>8

LEMMA OwnOthers ==
    ASSUME CertInv, TypeInv, NEW p \in Proc, NEW a \in Account, NEW f, NEW o,
           Own(p, a, f, o), NEW q \in Proc \ {p}
    PROVE  op'[q] = op[q] /\ ProcGood(q, op[q])'
<1> DEFINE x == op[q]
<1>1. op'[q] = x /\ UNCHANGED <<crl, raced>>
  BY OpOf DEF Own, TypeInv, OpsTyped
<1>2. /\ ProcGood(q, x) /\ Holds(x, users, groups, misled)
      /\ Signs(op[p]) /\ op[p].acct = a
  BY OpOf DEF CertInv, Own
<1>3. Shape(x) /\ (q = Boot => x.kind \in {"none", "boot"})
  BY <1>2 DEF ProcGood, OpGood
<1> DEFINE y == files'[x.acct]
<1>3a. Numbers(x, fresh')
  BY <1>2, NatSerials DEF Own, ProcGood, OpGood, Numbers
<1> SUFFICES /\ Backed(x, y, crl)
             /\ x.acct \notin raced =>
                   Alone(x, y, admins', utype'[x.acct], fate'[x.acct])
  BY <1>1, <1>3, <1>3a DEF ProcGood, OpGood
<1>4. CASE x.pc = "idle"
  BY <1>2, <1>3, <1>4 DEF Shape, Backed, Alone, ProcGood, OpGood
<1>5. CASE x.acct \in Account \ {a}
  <2>1. /\ y = files[x.acct]
        /\ \A s \in Serials(files[x.acct]) : s # 0 => (s \in admins' <=> s \in admins)
    BY <1>5, OwnFiles
  <2>2. utype'[x.acct] = utype[x.acct] /\ fate'[x.acct] = fate[x.acct]
    BY <1>5 DEF Own
  <2>3. /\ Backed(x, files[x.acct], crl)
        /\ x.acct \notin raced =>
              Alone(x, files[x.acct], admins, utype[x.acct], fate[x.acct])
    BY <1>2 DEF ProcGood, OpGood
  <2>4. x.acct \notin raced =>
              Alone(x, files[x.acct], admins', utype[x.acct], fate[x.acct])
    BY <2>1, <2>3 DEF Alone, Backed, Serials
  <2> HIDE DEF x, y
  <2>5. QED
    BY <2>1, <2>2, <2>3, <2>4
<1>6. CASE x.acct = a
  <2>1. y = f /\ files[x.acct] = files[a]
    BY <1>6, OwnFiles
  <2>2. /\ files[a].pem.serial # 0 => f.pem.serial # 0
        /\ files[a].p12 # 0 => f.p12 # 0
        /\ a \in Person \ raced /\ files[a].p12 # 0 => f.p12 = files[a].p12
    BY DEF Own
  <2>3. /\ Backed(x, files[a], crl)
        /\ x.acct \notin raced =>
              Alone(x, files[a], admins, utype[a], fate[a])
    BY <1>2, <1>6 DEF ProcGood, OpGood
  <2>3a. f.pem.serial = files[a].pem.serial \/ f.pem.serial \notin x.crl0
    <3>1. \A t \in crl : t \in Nat /\ t <= fresh
      BY NatSerials DEF CertInv, Numbered
    <3>2. x.crl0 \subseteq crl /\ fresh \in Nat
      BY <2>3, NatSerials DEF Backed
    <3>3. fresh < f.pem.serial => f.pem.serial \notin crl
      BY <3>1, <3>2
    <3>4. QED
      BY <3>2, <3>3 DEF Own
  <2>4. Backed(x, f, crl)
    BY <2>2, <2>3, <2>3a DEF Backed
  <2>5. ASSUME a \notin raced PROVE Alone(x, f, admins', utype'[a], fate'[a])
    <3>1. ~Signs(x)
      BY <1>2, <1>6, <2>5 DEF CertInv, Singly
    <3>2. x.pc \in {"check", "send"} => files[a].p12 # 0
      BY <2>3 DEF Backed
    <3>3. x.kind \notin {"create", "generate"} /\ x.pc \notin {"p12", "pems", "certmod"}
      BY <1>3, <3>1 DEF Shape, Signs
    <3>4. QED
      BY <1>6, <2>2, <2>3, <2>5, <3>2, <3>3 DEF Alone
  <2> HIDE DEF x, y
  <2>6. QED
    BY <1>6, <2>1, <2>4, <2>5
<1>7. QED
  BY <1>2, <1>4, <1>5, <1>6 DEF Holds

LEMMA OwnStep ==
    ASSUME CertInv, TypeInv, NEW p \in Proc, NEW a \in Account, NEW f, NEW o,
           Own(p, a, f, o), Leaves(p, a, f, o)
    PROVE  CertInv'
<1>1. /\ files'[a] = f
      /\ \A b \in Account \ {a} : files'[b] = files[b]
      /\ \A b \in Account \ {a} : \A s \in Serials(files[b]) :
            s # 0 => (s \in admins' <=> s \in admins)
  BY OwnFiles
<1>2. UNCHANGED <<crl, raced, served>> /\ op'[p] = o
  BY DEF Own, TypeInv, OpsTyped
<1>3. \A q \in Proc \ {p} : op'[q] = op[q] /\ ProcGood(q, op[q])'
  BY OwnOthers
<1>4. ProcGood(p, op[p])'
  <2>1. CASE o = Idle
    BY <1>2, <2>1 DEF ProcGood, OpGood, Shape, Backed, Numbers, Alone, Idle
  <2>2. CASE o # Idle
    <3>1. /\ p # Boot /\ o.acct = a /\ Shape(o) /\ Backed(o, f, crl)
          /\ a \notin raced => Alone(o, f, admins', utype'[a], fate'[a])
          /\ Numbers(o, fresh')
      BY <2>2, NatSerials DEF Leaves, Own, Numbers
    <3>2. QED
      BY <1>1, <1>2, <3>1 DEF ProcGood, OpGood
  <2>3. QED
    BY <2>1, <2>2
<1>5. Singly'
  <2>1. Signs(o) => o.acct = a
    BY IdleGood DEF Leaves
  <2>2. Signs(op[p]) /\ op[p].acct = a
    BY DEF Own
  <2>3. \A q \in Proc : Signs(op'[q]) => Signs(op[q]) /\ op'[q].acct = op[q].acct
    BY <1>2, <1>3, <2>1, <2>2
  <2>4. QED
    BY <1>2, <2>3 DEF CertInv, Singly, Signs
<1>6. ServedGood'
  <2> SUFFICES ASSUME NEW pair \in served, pair[1] \in Person \ raced
               PROVE  pair[2] = files'[pair[1]].p12 /\ pair[2] # 0
    BY <1>2 DEF ServedGood
  <2>1. pair[2] = files[pair[1]].p12 /\ pair[2] # 0
    BY DEF CertInv, ServedGood
  <2>2. CASE pair[1] = a
    BY <1>1, <2>1, <2>2 DEF Own
  <2>3. CASE pair[1] # a
    BY <1>1, <2>1, <2>3, Sets
  <2>4. QED
    BY <2>2, <2>3
<1>7. ASSUME NEW b \in Account \ raced
      PROVE  FilesGood(b, files'[b], admins', utype'[b], fate'[b])
  <2>1. CASE b = a
    BY <1>1, <2>1 DEF Leaves
  <2>2. CASE b # a
    <3>1. FilesGood(b, files[b], admins, utype[b], fate[b])
      BY DEF CertInv
    <3>2. /\ files'[b] = files[b] /\ utype'[b] = utype[b] /\ fate'[b] = fate[b]
          /\ \A s \in Serials(files[b]) : s # 0 => (s \in admins' <=> s \in admins)
          /\ 0 \notin admins'
      BY <1>1, <2>2, NatSerials DEF Own, CertInv, Numbered
    <3>3. FilesGood(b, files[b], admins', utype[b], fate[b])
      BY <3>1, <3>2 DEF FilesGood, Serials
    <3>4. QED
      BY <3>2, <3>3
  <2>3. QED
    BY <2>1, <2>2
<1>8. \A b \in Account : fate'[b] = "failed" => ~active'[b]
  BY DEF Own, Leaves, CertInv
<1>9. Numbered' /\ OwnSerials'
  BY OwnNumbers
<1>10. \A q \in Proc : ProcGood(q, op[q])'
  BY <1>3, <1>4
<1>11. \A b \in Account \ raced' : FilesGood(b, files[b], admins, utype[b], fate[b])'
  BY <1>2, <1>7 DEF FilesGood
<1>12. QED
  BY <1>5, <1>6, <1>8, <1>9, <1>10, <1>11 DEF CertInv


(***************************************************************************)
(* Steps that leave the files, and the types of services, as they are.     *)
(***************************************************************************)
Aside == UNCHANGED <<ca, served>> /\ raced \subseteq raced'

\* Nobody is typed - but for an account that is raced from now on - and
\* nobody is activated.
Tame ==
    /\ \A a \in Service \ raced' : utype'[a] = utype[a]
    /\ \A a \in Account : active'[a] => active[a]

LEMMA TameLdap == UNCHANGED ldap => Tame
  BY DEF ldap, Tame

LEMMA GoesOn ==
    ASSUME CertInv, TypeInv, Aside, Tame, fate' = fate,
           NEW p \in Proc, NEW o, Become(p, o), Carries(p, o)
    PROVE  CertInv'
<1>1. \A q \in Proc : op'[q] = op[q] \/ (q = p /\ op'[q] = o)
  BY DEF Become, TypeInv, OpsTyped
<1>2. QED
  BY <1>1, OpMoves DEF Aside, Tame

LEMMA GivesUp ==
    ASSUME CertInv, TypeInv, Aside, Tame, NEW p \in Proc, Raise(p)
    PROVE  CertInv'
<1>1. Carries(p, Idle)
  BY IdleGood DEF Carries
<1>2. Carries(Boot, [op[Boot] EXCEPT !.pc = "failed"])
  <2> DEFINE o == op[Boot]
             x == [o EXCEPT !.pc = "failed"]
  <2>1. ProcGood(Boot, o) /\ o \in OpRecord
    BY Sets, OpOf DEF CertInv
  <2>2. /\ o.kind \in {"none", "boot"} /\ o.crl0 \subseteq crl
        /\ x.pc = "failed" /\ x.kind = o.kind /\ x.crl0 = o.crl0
        /\ Numbers(x, fresh)
    BY <2>1 DEF ProcGood, OpGood, Backed, Numbers, OpRecord
  <2> HIDE DEF x
  <2>3. OpGood(x) /\ ~Signs(x)
    BY <2>2, Unconcerned
  <2>4. QED
    BY <2>2, <2>3 DEF x, Carries, ProcGood
<1>3. CASE p = Boot
  BY <1>2, <1>3, GoesOn DEF Raise
<1>4. CASE p # Boot
  BY <1>1, <1>4, GoesOn DEF Raise
<1>5. QED
  BY <1>3, <1>4

LEMMA RefusedCert ==
    ASSUME CertInv, TypeInv, Aside, NEW p \in Proc, Refused(p)
    PROVE  CertInv'
BY TameLdap, GivesUp DEF Refused

LEMMA MutationCert ==
    ASSUME CertInv, TypeInv, Aside, NEW p \in Proc, NEW o, Carries(p, o),
           NEW ACTION effect, effect => Tame, Mutation(p, effect, o)
    PROVE  CertInv'
<1>1. effect \/ UNCHANGED ldap
  BY DEF Mutation
<1>2. Tame
  BY <1>1, TameLdap
<1>3. (Become(p, o) /\ fate' = fate) \/ Raise(p)
  BY DEF Mutation
<1>4. QED
  BY <1>2, <1>3, GoesOn, GivesUp

\* Groups.
LEMMA Regrouped ==
    ASSUME CertInv, TypeInv, NEW p \in Proc, NEW x \in OpRecord,
           op[p].pc \in {"plan", "drop", "join"},
           x.pc = op[p].pc, x.kind = op[p].kind, x.acct = op[p].acct,
           x.mode = op[p].mode, x.ask = op[p].ask, x.seen = op[p].seen,
           x.crl0 = op[p].crl0, x.blind = op[p].blind, x.certs = op[p].certs
    PROVE  Carries(p, x) /\ Carries(p, Grouped(x))
<1>1. ProcGood(p, op[p])
  BY DEF CertInv
<1>2. Carries(p, x)
  BY <1>1, SameCert DEF Carries
<1>3. QED
  BY <1>2, GroupedCarries

LEMMA MakeGroupCert ==
    ASSUME CertInv, TypeInv, NEW p \in Proc, NEW g \in Group, MakeGroup(p, g)
    PROVE  CertInv'
<1> DEFINE o == op[p]
           next == [o EXCEPT !.missing = @ \ {g}, !.gone = @ \ {g}]
           made == /\ groups' = groups \cup {g}
                   /\ UNCHANGED <<users, member, utype, active, schema>>
<1>1. /\ o \in OpRecord /\ o.pc = "join" /\ Aside
      /\ Mutation(p, made, next) \/ Refused(p)
  BY OpOf DEF MakeGroup, Aside, history
<1>2. next \in OpRecord
  BY <1>1 DEF OpRecord
<1>3. Carries(p, next)
  <2>1. /\ next.pc = o.pc /\ next.kind = o.kind /\ next.acct = o.acct
        /\ next.mode = o.mode /\ next.ask = o.ask /\ next.seen = o.seen
        /\ next.crl0 = o.crl0 /\ next.blind = o.blind /\ next.certs = o.certs
    BY <1>1 DEF OpRecord
  <2> HIDE DEF next
  <2>2. QED
    BY <1>1, <1>2, <2>1, Regrouped
<1>4. made => Tame
  BY DEF Tame
<1> HIDE DEF made, next
<1>5. QED
  BY <1>1, <1>3, <1>4, MutationCert, RefusedCert

LEMMA JoinCert ==
    ASSUME CertInv, TypeInv, NEW p \in Proc, NEW g \in Group, Join(p, g)
    PROVE  CertInv'
<1> DEFINE o == op[p]
           rest == [o EXCEPT !.todo = @ \ {g}]
           next == Grouped(rest)
           joins == /\ member' = [member EXCEPT ![o.acct] = @ \cup {g}]
                    /\ UNCHANGED <<groups, users, utype, active, schema>>
<1>1. /\ o \in OpRecord /\ o.pc = "join" /\ Aside
      /\ Mutation(p, joins, next) \/ Refused(p)
  BY OpOf DEF Join, Aside, history
<1>2. Carries(p, next)
  <2>1. /\ rest \in OpRecord
        /\ rest.pc = o.pc /\ rest.kind = o.kind /\ rest.acct = o.acct
        /\ rest.mode = o.mode /\ rest.ask = o.ask /\ rest.seen = o.seen
        /\ rest.crl0 = o.crl0 /\ rest.blind = o.blind /\ rest.certs = o.certs
    BY <1>1 DEF OpRecord
  <2> HIDE DEF rest
  <2>2. QED
    BY <1>1, <2>1, Regrouped
<1>3. joins => Tame
  BY DEF Tame
<1> HIDE DEF joins, next
<1>4. QED
  BY <1>1, <1>2, <1>3, MutationCert, RefusedCert

LEMMA DropCert ==
    ASSUME CertInv, TypeInv, NEW p \in Proc, NEW g \in Group, Drop(p, g)
    PROVE  CertInv'
<1> DEFINE o == op[p]
           rest == [o EXCEPT !.drop = @ \ {g}]
           next == Grouped(rest)
           leaves == /\ member' = [member EXCEPT ![o.acct] = @ \ {g}]
                     /\ UNCHANGED <<groups, users, utype, active, schema>>
<1>1. /\ o \in OpRecord /\ o.pc = "drop" /\ Aside
      /\ \/ Mutation(p, leaves, next)
         \/ Mutation(p, UNCHANGED ldap, next)
         \/ Refused(p)
  BY OpOf DEF Drop, Aside, history
<1>2. Carries(p, next)
  <2>1. /\ rest \in OpRecord
        /\ rest.pc = o.pc /\ rest.kind = o.kind /\ rest.acct = o.acct
        /\ rest.mode = o.mode /\ rest.ask = o.ask /\ rest.seen = o.seen
        /\ rest.crl0 = o.crl0 /\ rest.blind = o.blind /\ rest.certs = o.certs
    BY <1>1 DEF OpRecord
  <2> HIDE DEF rest
  <2>2. QED
    BY <1>1, <2>1, Regrouped
<1>3. leaves => Tame
  BY DEF Tame
<1> HIDE DEF leaves, next
<1>4. CASE Mutation(p, UNCHANGED ldap, next)
  BY <1>1, <1>2, <1>4, TameLdap, MutationCert
<1>5. QED
  BY <1>1, <1>2, <1>3, <1>4, MutationCert, RefusedCert

LEMMA SetPlanCert ==
    ASSUME CertInv, TypeInv, NEW r \in Request, SetPlan(r) PROVE CertInv'
<1> DEFINE o == op[r]
           has == member[o.acct] \cap Tak
           desired == Taken(o.ask)
           x == [o EXCEPT !.drop = has \ desired,
                          !.todo = (desired \cap groups) \ has, !.gone = {}]
<1>1. /\ o \in OpRecord /\ o.pc = "plan" /\ r \in Proc
      /\ Become(r, Grouped(x)) /\ UNCHANGED ldap /\ Aside /\ fate' = fate
  BY OpOf, Sets DEF SetPlan, Aside, history
<1>2. x \in OpRecord
  <2>1. has \subseteq Tak /\ desired \subseteq Tak
    BY <1>1, TakenGroups DEF OpRecord
  <2>2. QED
    BY <1>1, <2>1, Sets DEF OpRecord
<1>3. /\ x.pc = o.pc /\ x.kind = o.kind /\ x.acct = o.acct
      /\ x.mode = o.mode /\ x.ask = o.ask /\ x.seen = o.seen
      /\ x.crl0 = o.crl0 /\ x.blind = o.blind /\ x.certs = o.certs
  BY <1>1 DEF OpRecord
<1> HIDE DEF x
<1>4. Carries(r, Grouped(x))
  BY <1>1, <1>2, <1>3, Regrouped
<1>5. QED
  BY <1>1, <1>4, TameLdap, GoesOn


\* Creations and deletions up to the certificate.
LEMMA CreateUserCert ==
    ASSUME CertInv, TypeInv, NEW r \in Request, CreateUser(r) PROVE CertInv'
<1> DEFINE next == [op[r] EXCEPT !.pc = "attrs"]
           made == /\ users' = users \cup {op[r].acct}
                   /\ UNCHANGED <<groups, member, utype, active, schema>>
<1>1. /\ op[r].pc = "create" /\ Mutation(r, made, next) /\ Aside
      /\ r \in Proc /\ op[r] \in OpRecord /\ ProcGood(r, op[r])
  BY OpOf, Sets DEF CreateUser, Aside, history, CertInv
<1>2. Carries(r, next)
  BY <1>1 DEF Carries, ProcGood, OpGood, Shape, Backed, Numbers, Alone, Signs, OpRecord
<1>3. made => Tame
  BY DEF Tame
<1> HIDE DEF made, next
<1>4. QED
  BY <1>1, <1>2, <1>3, MutationCert

LEMMA EnsureGroupsCert ==
    ASSUME CertInv, TypeInv, NEW r \in Request, EnsureGroups(r) PROVE CertInv'
<1> DEFINE next == [op[r] EXCEPT !.pc = "join", !.todo = Taken(op[r].ask),
                                 !.missing = Taken(op[r].ask) \ groups, !.gone = {}]
<1>1. /\ op[r].pc = "ensure" /\ Become(r, next) /\ Aside
      /\ UNCHANGED ldap /\ fate' = fate
      /\ r \in Proc /\ op[r] \in OpRecord /\ ProcGood(r, op[r])
  BY OpOf, Sets DEF EnsureGroups, Aside, history, CertInv
<1>2. Carries(r, next)
  BY <1>1 DEF Carries, ProcGood, OpGood, Shape, Backed, Numbers, Alone, Signs, OpRecord
<1> HIDE DEF next
<1>3. QED
  BY <1>1, <1>2, TameLdap, GoesOn

LEMMA DeactivateCert ==
    ASSUME CertInv, TypeInv, NEW r \in Request, Deactivate(r) PROVE CertInv'
<1> DEFINE next == [op[r] EXCEPT !.pc = "list"]
           made == /\ active' = [active EXCEPT ![op[r].acct] = FALSE]
                   /\ UNCHANGED <<groups, users, member, utype, schema>>
<1>1. /\ op[r].pc = "deactivate" /\ Mutation(r, made, next) /\ Aside
      /\ r \in Proc /\ op[r] \in OpRecord /\ ProcGood(r, op[r])
  BY OpOf, Sets DEF Deactivate, Aside, history, CertInv
<1>2. Carries(r, next)
  BY <1>1 DEF Carries, ProcGood, OpGood, Shape, Backed, Numbers, Alone, Signs, OpRecord
<1>3. made => Tame
  BY DEF Tame, TypeInv, LdapTyped
<1> HIDE DEF made, next
<1>4. QED
  BY <1>1, <1>2, <1>3, MutationCert

LEMMA SetCheckCert ==
    ASSUME CertInv, TypeInv, NEW r \in Request, NEW a, NEW gs, SetCheck(r, a, gs)
    PROVE  CertInv'
<1> DEFINE next == [Idle EXCEPT !.pc = "plan", !.kind = "set", !.acct = a,
                                !.ask = gs]
<1>1. /\ Become(r, next) /\ Aside /\ UNCHANGED ldap /\ fate' = fate /\ r \in Proc
  BY Sets DEF SetCheck, Aside, history
<1>2. /\ next.kind = "set" /\ next.pc = "plan" /\ next.crl0 = {}
      /\ Numbers(next, fresh)
  BY DEF Idle, Numbers
<1> HIDE DEF next
<1>3. OpGood(next) /\ ~Signs(next)
  BY <1>2, Unconcerned
<1>4. Carries(r, next)
  BY <1>2, <1>3, AccountsAssumption DEF Carries, ProcGood, AccountsAssumption
<1>5. QED
  BY <1>1, <1>4, TameLdap, GoesOn

LEMMA DeleteServiceCert ==
    ASSUME CertInv, TypeInv, NEW r \in Request, NEW a, DeleteService(r, a)
    PROVE  CertInv'
<1> DEFINE next == [Idle EXCEPT !.pc = "deactivate", !.kind = "delete",
                                !.acct = a]
<1>1. /\ Become(r, next) /\ Aside /\ UNCHANGED ldap /\ fate' = fate /\ r \in Proc
  BY Sets DEF DeleteService, Aside, history
<1>2. /\ next.kind = "delete" /\ next.pc = "deactivate" /\ next.crl0 = {}
      /\ Numbers(next, fresh)
  BY DEF Idle, Numbers
<1> HIDE DEF next
<1>3. OpGood(next) /\ ~Signs(next)
  BY <1>2, Unconcerned
<1>4. Carries(r, next)
  BY <1>2, <1>3, AccountsAssumption DEF Carries, ProcGood, AccountsAssumption
<1>5. QED
  BY <1>1, <1>4, TameLdap, GoesOn

LEMMA CreateGroupCert ==
    ASSUME CertInv, TypeInv, NEW g \in Tak, CreateGroup(g) PROVE CertInv'
BY OpMoves DEF CreateGroup, history, ca

LEMMA DeleteGroupCert ==
    ASSUME CertInv, TypeInv, NEW g \in Tak, DeleteGroup(g) PROVE CertInv'
<1>1. ASSUME NEW p \in Proc, op'[p] # op[p] PROVE Carries(p, op'[p])
  <2> DEFINE o == op[p]
             x == [o EXCEPT !.gone = @ \cup {g}]
  <2>1. o \in OpRecord /\ ProcGood(p, o) /\ op'[p] = x
    BY <1>1, OpOf DEF DeleteGroup, CertInv
  <2>2. /\ x.pc = o.pc /\ x.kind = o.kind /\ x.acct = o.acct
        /\ x.mode = o.mode /\ x.ask = o.ask /\ x.seen = o.seen
        /\ x.crl0 = o.crl0 /\ x.blind = o.blind /\ x.certs = o.certs
    BY <2>1 DEF OpRecord
  <2> HIDE DEF x
  <2>3. QED
    BY <2>1, <2>2, SameCert DEF Carries
<1>2. /\ UNCHANGED <<ca, fate, raced, served>> /\ UNCHANGED <<utype, active>>
  BY DEF DeleteGroup, history
<1>3. QED
  BY <1>1, <1>2, OpMoves

LEMMA CrashCert == ASSUME CertInv, TypeInv, Crash PROVE CertInv'
<1>1. \A p \in Proc : op'[p] = op[p] \/ Carries(p, op'[p])
  BY IdleGood DEF Crash, Carries
<1>2. UNCHANGED <<ca, fate, raced, served>> /\ UNCHANGED <<utype, active>>
  BY DEF Crash, history, ldap
<1>3. QED
  BY <1>1, <1>2, OpMoves

(***************************************************************************)
(* The bootstrap.                                                          *)
(***************************************************************************)
LEMMA BootCarries ==
    ASSUME CertInv, NEW x, x.kind \in {"none", "boot"}, x.crl0 \subseteq crl,
           Numbers(x, fresh),
           x.pc \in {"idle", "schema", "groups", "make", "webadmin", "join", "type",
                     "service", "svctype", "done", "failed"}
    PROVE  Carries(Boot, x)
<1>1. OpGood(x) /\ ~Signs(x)
  BY Unconcerned
<1>2. QED
  BY <1>1 DEF Carries, ProcGood

\* Where a bootstrap goes next.
LEMMA BootGoes ==
    ASSUME CertInv, TypeInv, NEW x \in OpRecord,
           x.kind = op[Boot].kind, x.crl0 = op[Boot].crl0, x.certs = op[Boot].certs,
           x.pc \in {"groups", "make", "webadmin", "join", "type",
                     "service", "svctype", "done"}
    PROVE  Carries(Boot, x)
<1>1. ProcGood(Boot, op[Boot])
  BY Sets DEF CertInv
<1>2. /\ op[Boot].kind \in {"none", "boot"} /\ op[Boot].crl0 \subseteq crl
      /\ Numbers(x, fresh)
  BY <1>1 DEF ProcGood, OpGood, Backed, Numbers
<1>3. QED
  BY <1>2, BootCarries

LEMMA BootEnds == ASSUME CertInv, TypeInv, BootCrash PROVE CertInv'
<1>1. /\ Become(Boot, Idle) /\ Aside /\ UNCHANGED ldap /\ fate' = fate
  BY DEF BootCrash, Aside, history
<1>2. Carries(Boot, Idle)
  BY IdleGood DEF Carries
<1>3. QED
  BY <1>1, <1>2, TameLdap, GoesOn, Sets

LEMMA BootStartCert == ASSUME CertInv, TypeInv, BootStart PROVE CertInv'
<1> DEFINE x == [Idle EXCEPT !.pc = "schema", !.kind = "boot",
                             !.acct = Webadmin, !.todo = DefaultGroups]
<1>1. /\ Become(Boot, x) /\ Aside /\ UNCHANGED ldap /\ fate' = fate
  BY DEF BootStart, Aside, history
<1>2. x.kind = "boot" /\ x.pc = "schema" /\ x.crl0 = {} /\ Numbers(x, fresh)
  BY DEF Idle, Numbers
<1> HIDE DEF x
<1>3. Carries(Boot, x)
  BY <1>2, BootCarries
<1>4. QED
  BY <1>1, <1>3, TameLdap, GoesOn, Sets


LEMMA BootSchemaCert == ASSUME CertInv, TypeInv, BootSchema PROVE CertInv'
<1> DEFINE x == [op[Boot] EXCEPT !.pc = "groups"]
           made == schema' = TRUE /\ UNCHANGED <<groups, users, member, utype, active>>
<1>1. Mutation(Boot, made, x) /\ Aside /\ op[Boot] \in OpRecord
  BY OpOf, Sets DEF BootSchema, Aside, history
<1>2. x \in OpRecord /\ x.kind = op[Boot].kind /\ x.crl0 = op[Boot].crl0 /\ x.certs = op[Boot].certs /\ x.pc = "groups"
  BY <1>1 DEF OpRecord
<1>3. made => Tame
  BY DEF Tame
<1> HIDE DEF x, made
<1>4. QED
  BY <1>1, <1>2, <1>3, BootGoes, MutationCert, Sets

\* After a group that was there or is made.
LEMMA EnsuredCarries ==
    ASSUME CertInv, TypeInv, NEW x \in OpRecord,
           x.kind = op[Boot].kind, x.crl0 = op[Boot].crl0, x.certs = op[Boot].certs
    PROVE  Carries(Boot, GroupsEnsured(x))
<1>1. PICK pc \in {"groups", "webadmin", "service"} :
         GroupsEnsured(x) = [x EXCEPT !.pc = pc]
  BY DEF GroupsEnsured
<1> DEFINE y == [x EXCEPT !.pc = pc]
<1>2. y \in OpRecord /\ y.kind = op[Boot].kind /\ y.crl0 = op[Boot].crl0 /\ y.certs = op[Boot].certs /\ y.pc = pc
  BY DEF OpRecord
<1> HIDE DEF y
<1>3. Carries(Boot, y)
  BY <1>2, BootGoes
<1>4. QED
  BY <1>1, <1>3 DEF y

LEMMA BootLookGroupCert ==
    ASSUME CertInv, TypeInv, NEW g \in Group, BootLookGroup(g) PROVE CertInv'
<1> DEFINE x == [op[Boot] EXCEPT !.todo = @ \ {g}, !.gone = @ \ {g}]
           y == [op[Boot] EXCEPT !.pc = "make", !.missing = {g}]
<1>1. /\ Become(Boot, GroupsEnsured(x)) \/ Become(Boot, y)
      /\ Aside /\ UNCHANGED ldap /\ fate' = fate /\ op[Boot] \in OpRecord
  BY OpOf, Sets DEF BootLookGroup, Aside, history
<1>2. x \in OpRecord /\ x.kind = op[Boot].kind /\ x.crl0 = op[Boot].crl0 /\ x.certs = op[Boot].certs
  BY <1>1 DEF OpRecord
<1>3. y \in OpRecord /\ y.kind = op[Boot].kind /\ y.crl0 = op[Boot].crl0 /\ y.certs = op[Boot].certs /\ y.pc = "make"
  BY <1>1 DEF OpRecord
<1> HIDE DEF x, y
<1>4. Carries(Boot, GroupsEnsured(x)) /\ Carries(Boot, y)
  BY <1>2, <1>3, EnsuredCarries, BootGoes
<1>5. QED
  BY <1>1, <1>4, TameLdap, GoesOn, Sets

LEMMA BootMakeGroupCert ==
    ASSUME CertInv, TypeInv, NEW g \in Group, BootMakeGroup(g) PROVE CertInv'
<1> DEFINE x == [op[Boot] EXCEPT !.todo = @ \ {g}, !.gone = @ \ {g}, !.missing = {}]
           made == /\ groups' = groups \cup {g}
                   /\ UNCHANGED <<users, member, utype, active, schema>>
<1>1. /\ Mutation(Boot, made, GroupsEnsured(x)) \/ Refused(Boot)
      /\ Aside /\ op[Boot] \in OpRecord
  BY OpOf, Sets DEF BootMakeGroup, Aside, history
<1>2. x \in OpRecord /\ x.kind = op[Boot].kind /\ x.crl0 = op[Boot].crl0 /\ x.certs = op[Boot].certs
  BY <1>1 DEF OpRecord
<1>3. made => Tame
  BY DEF Tame
<1> HIDE DEF x, made
<1>4. Carries(Boot, GroupsEnsured(x))
  BY <1>2, EnsuredCarries
<1>5. QED
  BY <1>1, <1>3, <1>4, MutationCert, RefusedCert, Sets

LEMMA BootWebadminCert == ASSUME CertInv, TypeInv, BootWebadmin PROVE CertInv'
<1> DEFINE x == [op[Boot] EXCEPT !.pc = "join", !.todo = DefaultGroups]
           made == /\ users' = users \cup {Webadmin}
                   /\ UNCHANGED <<groups, member, utype, active, schema>>
<1>1. Mutation(Boot, made, x) /\ Aside /\ op[Boot] \in OpRecord
  BY OpOf, Sets DEF BootWebadmin, Aside, history
<1>2. x \in OpRecord /\ x.kind = op[Boot].kind /\ x.crl0 = op[Boot].crl0 /\ x.certs = op[Boot].certs /\ x.pc = "join"
  BY <1>1, Sets DEF OpRecord
<1>3. made => Tame
  BY DEF Tame
<1> HIDE DEF x, made
<1>4. QED
  BY <1>1, <1>2, <1>3, BootGoes, MutationCert, Sets

LEMMA BootServiceCert == ASSUME CertInv, TypeInv, BootService PROVE CertInv'
<1> DEFINE x == [op[Boot] EXCEPT !.pc = "svctype"]
           made == /\ users' = users \cup {Builtin}
                   /\ UNCHANGED <<groups, member, utype, active, schema>>
<1>1. Mutation(Boot, made, x) /\ Aside /\ op[Boot] \in OpRecord
  BY OpOf, Sets DEF BootService, Aside, history
<1>2. x \in OpRecord /\ x.kind = op[Boot].kind /\ x.crl0 = op[Boot].crl0 /\ x.certs = op[Boot].certs /\ x.pc = "svctype"
  BY <1>1 DEF OpRecord
<1>3. made => Tame
  BY DEF Tame
<1> HIDE DEF x, made
<1>4. QED
  BY <1>1, <1>2, <1>3, BootGoes, MutationCert, Sets

\* The accounts the bootstrap types are none the operators create.
LEMMA SetTypeCert ==
    ASSUME CertInv, TypeInv, NEW a \in {Webadmin, Builtin}, NEW type,
           NEW pc \in {"service", "done"}, SetType(a, type, pc)
    PROVE  CertInv'
<1> DEFINE x == [op[Boot] EXCEPT !.pc = pc]
           made == /\ schema
                   /\ utype' = [utype EXCEPT ![a] = type]
                   /\ UNCHANGED <<groups, users, member, active, schema>>
<1>1. Mutation(Boot, made, x) /\ Aside /\ op[Boot] \in OpRecord
  BY OpOf, Sets DEF SetType, Aside, history
<1>2. x \in OpRecord /\ x.kind = op[Boot].kind /\ x.crl0 = op[Boot].crl0 /\ x.certs = op[Boot].certs /\ x.pc = pc
  BY <1>1 DEF OpRecord
<1>3. a \notin Service
  BY AccountsAssumption DEF AccountsAssumption
<1>4. made => Tame
  BY <1>3, Sets DEF Tame, TypeInv, LdapTyped
<1> HIDE DEF x, made
<1>5. Carries(Boot, x)
  BY <1>2, BootGoes
<1>6. QED
  BY <1>1, <1>4, <1>5, MutationCert, Sets

LEMMA BootNextCert == ASSUME CertInv, TypeInv, BootNext PROVE CertInv'
<1>1. CASE BootStart \/ BootCrash \/ BootSchema \/ BootWebadmin \/ BootService
  BY <1>1, BootStartCert, BootEnds, BootSchemaCert, BootWebadminCert, BootServiceCert
<1>2. CASE BootType \/ BootServiceType
  BY <1>2, SetTypeCert DEF BootType, BootServiceType
<1>3. ASSUME NEW g \in Group, BootLookGroup(g) \/ BootMakeGroup(g) PROVE CertInv'
  BY <1>3, BootLookGroupCert, BootMakeGroupCert
<1>4. CASE Groups(Boot)
  BY <1>4, Sets, MakeGroupCert, JoinCert, DropCert DEF Groups
<1>5. QED
  BY <1>1, <1>2, <1>3, <1>4 DEF BootNext

(***************************************************************************)
(* Downloads.                                                              *)
(***************************************************************************)
LEMMA DownloadCert ==
    ASSUME CertInv, TypeInv, NEW r \in Request, NEW a, Download(r, a)
    PROVE  CertInv'
<1> DEFINE x == [Idle EXCEPT !.pc = "look", !.kind = "download", !.acct = a,
                             !.crl0 = crl]
<1>1. /\ Become(r, x) /\ Aside /\ UNCHANGED ldap /\ fate' = fate
      /\ r \in Proc /\ files[a].p12 # 0 /\ a \in Person \cup Service
  BY Sets DEF Download, Aside, history, TypeInv, LdapTyped, Account
<1>2. /\ x.pc = "look" /\ x.kind = "download" /\ x.acct = a /\ x.crl0 = crl
      /\ Numbers(x, fresh)
  BY DEF Idle, Numbers
<1> HIDE DEF x
<1>3. Carries(r, x)
  BY <1>1, <1>2, AccountsAssumption
  DEF Carries, ProcGood, OpGood, Shape, Backed, Alone, Signs, AccountsAssumption
<1>4. QED
  BY <1>1, <1>3, TameLdap, GoesOn

LEMMA LookSerialCert ==
    ASSUME CertInv, TypeInv, NEW r \in Request, LookSerial(r) PROVE CertInv'
<1> DEFINE o == op[r]
           x == [o EXCEPT !.pc = "check", !.seen = files[o.acct].pem.serial]
<1>1. /\ Become(r, x) /\ Aside /\ UNCHANGED ldap /\ fate' = fate
      /\ r \in Proc /\ o.pc = "look" /\ o \in OpRecord /\ ProcGood(r, o)
      /\ Holds(o, users, groups, misled)
  BY Sets, OpOf DEF LookSerial, Aside, history, CertInv
<1>2. /\ x.pc = "check" /\ x.kind = o.kind /\ x.acct = o.acct /\ x.crl0 = o.crl0
      /\ x.seen = files[o.acct].pem.serial /\ x.certs = o.certs
  BY <1>1 DEF OpRecord
<1>3. /\ o.acct \in Person \cup Service /\ o.kind = "download"
      /\ files[o.acct].p12 # 0
  BY <1>1 DEF ProcGood, OpGood, Shape, Backed
<1> HIDE DEF x
<1>5. Carries(r, x)
  BY <1>1, <1>2, <1>3
  DEF Carries, ProcGood, OpGood, Shape, Backed, Numbers, Alone, Signs
<1>6. QED
  BY <1>1, <1>5, TameLdap, GoesOn

LEMMA CheckCrlCert ==
    ASSUME CertInv, TypeInv, NEW r \in Request, CheckCrl(r) PROVE CertInv'
<1> DEFINE o == op[r]
           x == [o EXCEPT !.pc = "send"]
           y == [o EXCEPT !.pc = "send", !.blind = TRUE]
<1>1. /\ \/ Become(r, Idle)
         \/ o.seen \notin crl /\ Become(r, x)
         \/ Become(r, y)
      /\ Aside /\ UNCHANGED ldap /\ fate' = fate
      /\ r \in Proc /\ o.pc = "check" /\ o \in OpRecord /\ ProcGood(r, o)
  BY Sets, OpOf DEF CheckCrl, Aside, history, CertInv
<1>2. o.seen \notin crl => Carries(r, x)
  BY <1>1 DEF Carries, ProcGood, OpGood, Shape, Backed, Numbers, Alone, Signs, OpRecord
<1>3. Carries(r, y)
  BY <1>1 DEF Carries, ProcGood, OpGood, Shape, Backed, Numbers, Alone, Signs, OpRecord
<1>4. Carries(r, Idle)
  BY IdleGood DEF Carries
<1> HIDE DEF x, y
<1>5. QED
  BY <1>1, <1>2, <1>3, <1>4, TameLdap, GoesOn


(***************************************************************************)
(* The certificate of an account.                                          *)
(***************************************************************************)
\* What a handler at its certificate knows.
LEMMA Signing ==
    ASSUME CertInv, TypeInv, NEW r \in Request,
           op[r].pc \in {"attrs", "csr", "sign", "p12", "pems", "certmod", "rollback"}
    PROVE  /\ r \in Proc /\ r # Boot /\ op[r] \in OpRecord /\ op[r].acct \in Account
           /\ Signs(op[r]) /\ Shape(op[r]) /\ Backed(op[r], files[op[r].acct], crl)
           /\ Numbers(op[r], fresh)
           /\ op[r].acct \notin raced =>
                 /\ Alone(op[r], files[op[r].acct], admins, utype[op[r].acct],
                          fate[op[r].acct])
                 /\ FilesGood(op[r].acct, files[op[r].acct], admins,
                              utype[op[r].acct], fate[op[r].acct])
           /\ fate[op[r].acct] = "failed" => ~active[op[r].acct]
<1>1. r \in Proc /\ r # Boot
  BY Sets, AccountsAssumption DEF AccountsAssumption
<1>2. /\ op[r] \in OpRecord /\ op[r].acct \in Account
      /\ Shape(op[r]) /\ Backed(op[r], files[op[r].acct], crl)
      /\ Numbers(op[r], fresh)
      /\ op[r].acct \notin raced =>
            Alone(op[r], files[op[r].acct], admins, utype[op[r].acct],
                  fate[op[r].acct])
  BY <1>1, OpOf DEF Holds, CertInv, ProcGood, OpGood
<1>3. Signs(op[r])
  BY <1>2 DEF Shape, Signs
<1>4. QED
  BY <1>1, <1>2, <1>3 DEF CertInv

LEMMA FailedCarries ==
    ASSUME CertInv, TypeInv, NEW r \in Request,
           op[r].pc \in {"csr", "sign", "p12", "certmod"}
    PROVE  Carries(r, Failed(op[r]))
<1> DEFINE x == [op[r] EXCEPT !.pc = "rollback"]
<1>1. ASSUME op[r].kind = "create" PROVE Carries(r, x)
  <2>1. /\ op[r] \in OpRecord /\ r # Boot
        /\ Shape(op[r]) /\ Backed(op[r], files[op[r].acct], crl)
        /\ Numbers(op[r], fresh)
        /\ op[r].acct \notin raced =>
              Alone(op[r], files[op[r].acct], admins, utype[op[r].acct], fate[op[r].acct])
    BY Signing
  <2>2. /\ x.pc = "rollback" /\ x.kind = "create" /\ x.acct = op[r].acct
        /\ x.mode = op[r].mode /\ x.ask = op[r].ask /\ x.crl0 = op[r].crl0
        /\ x.certs = op[r].certs
    BY <1>1, <2>1 DEF OpRecord
  <2> HIDE DEF x
  <2>3. Shape(x)
    BY <1>1, <2>1, <2>2 DEF Shape
  <2>4. Backed(x, files[x.acct], crl) /\ Numbers(x, fresh)
    BY <2>1, <2>2 DEF Backed, Numbers
  <2>5. x.acct \notin raced =>
           Alone(x, files[x.acct], admins, utype[x.acct], fate[x.acct])
    BY <1>1, <2>1, <2>2 DEF Alone
  <2>6. QED
    BY <1>1, <2>1, <2>2, <2>3, <2>4, <2>5 DEF Carries, ProcGood, OpGood, Signs
<1>2. Carries(r, Idle)
  BY IdleGood DEF Carries
<1>3. QED
  BY <1>1, <1>2 DEF Failed

\* A docker exec that fails changes nothing.
LEMMA ExecCert ==
    ASSUME CertInv, TypeInv, NEW r \in Request,
           op[r].pc \in {"csr", "sign", "p12", "certmod"},
           NEW ACTION effect, NEW o, Exec(r, effect, o)
    PROVE  \/ CertInv'
           \/ /\ effect /\ Become(r, o)
              /\ UNCHANGED <<utype, active, fate, raced, served>>
<1>1. /\ \/ effect /\ Become(r, o)
         \/ Become(r, Failed(op[r])) /\ UNCHANGED ca
      /\ UNCHANGED <<ldap, history, fate>>
  BY DEF Exec
<1>2. Tame /\ UNCHANGED <<utype, active, fate, raced, served>>
  BY <1>1, TameLdap DEF ldap, history
<1>3. CASE Become(r, Failed(op[r])) /\ UNCHANGED ca
  BY <1>2, <1>3, FailedCarries, GoesOn, Sets DEF Aside
<1>4. QED
  BY <1>1, <1>2, <1>3

LEMMA CsrCert ==
    ASSUME CertInv, TypeInv, NEW r \in Request, Csr(r) PROVE CertInv'
<1> DEFINE o == [op[r] EXCEPT !.pc = "sign"]
           a == op[r].acct
           f == [files[a] EXCEPT !.key = fresh + 1]
           made == /\ fresh' = fresh + 1
                   /\ files' = [files EXCEPT ![a].key = fresh + 1]
                   /\ UNCHANGED <<crl, admins>>
<1>1. op[r].pc = "csr" /\ Exec(r, made, o)
  BY DEF Csr
<1>2. SUFFICES ASSUME made, Become(r, o),
                      UNCHANGED <<utype, active, fate, raced, served>>
               PROVE  CertInv'
  <2> HIDE DEF made, o
  <2>1. QED
    BY <1>1, ExecCert
<1>3. /\ a \in Account /\ files[a] \in Files /\ fresh \in Nat
      /\ op[r] \in OpRecord
  BY <1>1, Signing, CertOp, NatSerials
<1>4. /\ f.pem = files[a].pem /\ f.p12 = files[a].p12 /\ f.nodered = files[a].nodered
      /\ Serials(f) = Serials(files[a])
  BY <1>3 DEF Files, Serials
<1>5. /\ o.pc = "sign" /\ o.kind = op[r].kind /\ o.acct = a /\ o.mode = op[r].mode
      /\ o.crl0 = op[r].crl0 /\ o.seen = op[r].seen /\ o.ask = op[r].ask
      /\ o.certs = op[r].certs
  BY <1>3 DEF OpRecord
<1>6. files' = [files EXCEPT ![a] = f]
  BY <1>2
<1> HIDE DEF f, o
<1>7. Own(r, a, f, o)
  <2>1. Signs(op[r]) /\ op' = [op EXCEPT ![r] = o]
    BY <1>1, <1>2, Signing DEF Become
  <2>2. fresh' \in Nat /\ fresh <= fresh' /\ (\A s \in {fresh + 1} : fresh < s /\ s <= fresh')
    BY <1>2, <1>3
  <2>3. UNCHANGED <<crl, admins, raced, served, utype, fate, active>>
    BY <1>2
  <2> HIDE DEF made
  <2>4. QED
    BY <1>4, <1>6, <2>1, <2>2, <2>3 DEF Own
<1>8. Leaves(r, a, f, o)
  <2>1. /\ Shape(op[r]) /\ Backed(op[r], files[a], crl) /\ r # Boot /\ Signs(op[r])
        /\ a \notin raced => /\ Alone(op[r], files[a], admins, utype[a], fate[a])
                             /\ FilesGood(a, files[a], admins, utype[a], fate[a])
        /\ fate[a] = "failed" => ~active[a]
    BY <1>1, Signing
  <2>2. Shape(o)
    BY <1>1, <1>5, <2>1 DEF Shape, Signs
  <2>3. Backed(o, f, crl) /\ Numbers(o, fresh)
    BY <1>1, <1>5, <2>1, Signing DEF Backed, Numbers
  <2>4. a \notin raced => Alone(o, f, admins, utype[a], fate[a])
    BY <1>1, <1>4, <1>5, <2>1 DEF Alone
  <2>5. a \notin raced => FilesGood(a, f, admins, utype[a], fate[a])
    BY <1>4, <2>1 DEF FilesGood
  <2>6. UNCHANGED <<admins, utype, fate, active>>
    BY <1>2
  <2>7. QED
    BY <1>5, <2>1, <2>2, <2>3, <2>4, <2>5, <2>6 DEF Leaves
<1>9. QED
  BY <1>3, <1>7, <1>8, OwnStep, Sets

LEMMA SignCert ==
    ASSUME CertInv, TypeInv, NEW r \in Request, Sign(r) PROVE CertInv'
<1> DEFINE o == [op[r] EXCEPT !.pc = "p12"]
           a == op[r].acct
           pem == [serial |-> fresh + 1, key |-> files[a].key]
           f == [files[a] EXCEPT !.pem = pem]
           made == /\ fresh' = fresh + 1
                   /\ files' = [files EXCEPT ![a].pem = pem]
                   /\ UNCHANGED <<crl, admins>>
<1>1. op[r].pc = "sign" /\ Exec(r, made, o)
  BY DEF Sign
<1>2. SUFFICES ASSUME made, Become(r, o),
                      UNCHANGED <<utype, active, fate, raced, served>>
               PROVE  CertInv'
  <2> HIDE DEF made, o
  <2>1. QED
    BY <1>1, ExecCert
<1>3. /\ a \in Account /\ files[a] \in Files /\ fresh \in Nat
      /\ op[r] \in OpRecord
  BY <1>1, Signing, CertOp, NatSerials
<1>4. /\ f.pem.serial = fresh + 1 /\ f.p12 = files[a].p12
      /\ f.nodered = files[a].nodered
      /\ Serials(f) \ Serials(files[a]) \subseteq {fresh + 1}
  BY <1>3 DEF Files, Serials
<1>5. /\ o.pc = "p12" /\ o.kind = op[r].kind /\ o.acct = a /\ o.mode = op[r].mode
      /\ o.crl0 = op[r].crl0 /\ o.seen = op[r].seen /\ o.ask = op[r].ask
      /\ o.certs = op[r].certs
  BY <1>3 DEF OpRecord
<1>6. files' = [files EXCEPT ![a] = f]
  BY <1>2
<1> HIDE DEF f, o
<1>7. Own(r, a, f, o)
  <2>1. Signs(op[r]) /\ op' = [op EXCEPT ![r] = o]
    BY <1>1, <1>2, Signing DEF Become
  <2>2. fresh' \in Nat /\ fresh <= fresh' /\ (\A s \in {fresh + 1} : fresh < s /\ s <= fresh')
    BY <1>2, <1>3
  <2>3. UNCHANGED <<crl, admins, raced, served, utype, fate, active>>
    BY <1>2
  <2> HIDE DEF made
  <2>4. QED
    BY <1>3, <1>4, <1>6, <2>1, <2>2, <2>3 DEF Own
\* The new serial is beyond all there are.
<1>8. fresh + 1 \notin admins \cup {files[a].nodered} /\ fresh + 1 # 0
  <2>1. /\ \A s \in admins : s \in Nat /\ s <= fresh
        /\ files[a].nodered \in Nat /\ files[a].nodered <= fresh
    BY <1>3, NatSerials DEF CertInv, Numbered, Serials
  <2>2. QED
    BY <1>3, <2>1
<1>9. Shape(o) /\ Backed(o, f, crl) /\ Numbers(o, fresh) /\ r # Boot
  BY <1>1, <1>4, <1>5, <1>8, Signing DEF Shape, Backed, Numbers, Signs
<1>10. ASSUME a \notin raced
       PROVE  /\ Alone(o, f, admins', utype'[a], fate'[a])
              /\ FilesGood(a, f, admins', utype'[a], fate'[a])
  <2>1. /\ Alone(op[r], files[a], admins, utype[a], fate[a])
        /\ FilesGood(a, files[a], admins, utype[a], fate[a])
        /\ Shape(op[r]) /\ Signs(op[r])
    BY <1>1, <1>10, Signing
  <2>2. Alone(o, f, admins', utype'[a], fate'[a])
    BY <1>1, <1>2, <1>4, <1>5, <1>8, <2>1 DEF Alone
  <2>3. (a \in Person => f.p12 = 0) /\ (a \in Service => fate[a] = "none")
    BY <1>1, <1>4, <2>1, AccountsAssumption DEF Alone, Shape, Signs, AccountsAssumption
  <2>4. QED
    BY <1>2, <1>4, <2>1, <2>2, <2>3 DEF FilesGood
<1>11. Leaves(r, a, f, o)
  BY <1>1, <1>2, <1>5, <1>9, <1>10, Signing DEF Leaves
<1>12. QED
  BY <1>3, <1>7, <1>11, OwnStep, Sets


LEMMA BundleCert ==
    ASSUME CertInv, TypeInv, NEW r \in Request, Bundle(r) PROVE CertInv'
<1> DEFINE o == Bundled(op[r])
           a == op[r].acct
           f == [files[a] EXCEPT !.p12 = files[a].pem.serial]
           made == /\ files' = [files EXCEPT ![a].p12 = files[a].pem.serial]
                   /\ UNCHANGED <<crl, admins, fresh>>
<1>1. op[r].pc = "p12"
  BY DEF Bundle
<1>2. CASE Exec(r, UNCHANGED ca, Failed(op[r]))
  <2>1. CASE /\ UNCHANGED ca /\ Become(r, Failed(op[r]))
             /\ UNCHANGED <<utype, active, fate, raced, served>>
    BY <1>1, <2>1, FailedCarries, GoesOn, Sets DEF Aside, Tame
  <2>2. QED
    BY <1>1, <1>2, <2>1, ExecCert
<1>3. CASE Exec(r, made, o)
  <2>1. SUFFICES ASSUME made, Become(r, o),
                        UNCHANGED <<utype, active, fate, raced, served>>
                 PROVE  CertInv'
    <3> HIDE DEF made, o
    <3>1. QED
      BY <1>1, <1>3, ExecCert
  <2>2. /\ a \in Account /\ files[a] \in Files /\ fresh \in Nat
        /\ op[r] \in OpRecord /\ Signs(op[r]) /\ Shape(op[r]) /\ r # Boot
        /\ Backed(op[r], files[a], crl)
        /\ a \notin raced =>
              /\ Alone(op[r], files[a], admins, utype[a], fate[a])
              /\ FilesGood(a, files[a], admins, utype[a], fate[a])
        /\ fate[a] = "failed" => ~active[a]
    BY <1>1, Signing, CertOp, NatSerials
  <2>3. /\ f.pem = files[a].pem /\ f.p12 = files[a].pem.serial
        /\ f.nodered = files[a].nodered
        /\ Serials(f) \subseteq Serials(files[a])
    BY <2>2 DEF Files, Serials
  <2>4. files[a].pem.serial # 0
    BY <1>1, <2>2 DEF Backed
  <2>5. /\ files' = [files EXCEPT ![a] = f] /\ op' = [op EXCEPT ![r] = o]
        /\ UNCHANGED <<crl, admins, fresh, raced, served, utype, active, fate>>
    BY <2>1 DEF Become
  <2>6. \/ o = Idle
        \/ /\ o.pc = (IF op[r].mode = "svc_data" THEN "pems" ELSE "certmod")
           /\ op[r].kind = "create" /\ o.kind = "create" /\ o.acct = a
           /\ o.mode = op[r].mode /\ o.ask = op[r].ask
           /\ o.crl0 = op[r].crl0 /\ o.seen = op[r].seen
           /\ o.certs = op[r].certs
    BY <1>1, <2>2 DEF Bundled, OpRecord, Signs
  <2>7. op[r].kind = "create" => /\ op[r].mode \in {"svc_data", "svc_admin"}
                                 /\ a \in Service
    BY <1>1, <2>2 DEF Shape
  <2>8. op[r].kind = "generate" => a \in Person
    BY <2>2 DEF Shape
  <2>9. Person \cap Service = {}
    BY AccountsAssumption DEF AccountsAssumption
  <2> HIDE DEF f, o, made
  <2>10. a \notin raced =>
            /\ a \in Person => files[a].p12 = 0
            /\ a \in Service => fate[a] = "none"
    BY <2>2, <2>7, <2>8, <2>9 DEF Alone, Signs
  <2>11. Own(r, a, f, o)
    <3>1. fresh' \in Nat /\ fresh <= fresh' /\ Serials(f) \ Serials(files[a]) = {}
      BY <2>2, <2>3, <2>5
    <3>2. a \in Person \ raced /\ files[a].p12 # 0 => f.p12 = files[a].p12
      BY <2>10
    <3>3. /\ files[a].pem.serial # 0 => f.pem.serial # 0
          /\ files[a].p12 # 0 => f.p12 # 0
          /\ f.pem.serial = files[a].pem.serial
      BY <2>3, <2>4
    <3>4. QED
      BY <2>2, <2>5, <3>1, <3>2, <3>3 DEF Own
  <2>12. ASSUME a \notin raced PROVE FilesGood(a, f, admins, utype[a], fate[a])
    BY <2>2, <2>3, <2>10, <2>12 DEF FilesGood
  <2>13. ASSUME o # Idle PROVE Shape(o) /\ Backed(o, f, crl) /\ Numbers(o, fresh)
    BY <1>1, <2>2, <2>3, <2>4, <2>6, <2>7, <2>13, Signing DEF Shape, Backed, Numbers, Signs
  <2>14. ASSUME o # Idle, a \notin raced
         PROVE  Alone(o, f, admins, utype[a], fate[a])
    <3>1. /\ files[a].pem.serial \notin admins \cup {files[a].nodered}
          /\ utype[a] = op[r].mode /\ fate[a] = "none"
      BY <1>1, <2>2, <2>6, <2>7, <2>14 DEF Alone
    <3>2. QED
      BY <2>3, <2>6, <2>7, <2>14, <3>1 DEF Alone
  <2>15. Leaves(r, a, f, o)
    BY <2>2, <2>5, <2>6, <2>12, <2>13, <2>14 DEF Leaves
  <2>16. QED
    BY <2>2, <2>11, <2>15, OwnStep, Sets
<1>4. QED
  BY <1>2, <1>3 DEF Bundle

LEMMA WritePemsCert ==
    ASSUME CertInv, TypeInv, NEW r \in Request, WritePems(r) PROVE CertInv'
<1> DEFINE a == op[r].acct
           g == [files[a] EXCEPT !.nodered = files[a].p12]
<1>1. op[r].pc = "pems"
  BY DEF WritePems
<1>2. /\ a \in Account /\ files[a] \in Files /\ fresh \in Nat
      /\ op[r] \in OpRecord /\ Signs(op[r]) /\ Shape(op[r])
      /\ Backed(op[r], files[a], crl)
      /\ a \notin raced =>
            /\ Alone(op[r], files[a], admins, utype[a], fate[a])
            /\ FilesGood(a, files[a], admins, utype[a], fate[a])
  BY <1>1, Signing, CertOp, NatSerials
<1>3. /\ op' = [op EXCEPT ![r] = Idle] /\ fate' = [fate EXCEPT ![a] = "ready"]
      /\ UNCHANGED <<crl, admins, fresh, raced, served, utype, active>>
  BY DEF WritePems, End, Become, history, ldap
<1>4. PICK f \in {g, files[a]} : files' = [files EXCEPT ![a] = f]
  BY DEF WritePems, TypeInv, CaTyped
<1>5. /\ f.pem = files[a].pem /\ f.p12 = files[a].p12
      /\ f.nodered \in {files[a].nodered, files[a].p12}
      /\ Serials(f) \subseteq Serials(files[a])
  BY <1>2, <1>4 DEF Files, Serials
<1> HIDE DEF g
<1>6. fate'[a] = "ready" /\ \A b \in Account \ {a} : fate'[b] = fate[b]
  BY <1>2, <1>3 DEF TypeInv, OthersTyped
<1>7. Own(r, a, f, Idle)
  BY <1>2, <1>3, <1>4, <1>5, <1>6 DEF Own
<1>8. (a \in Service /\ a \notin Person /\ op[r].mode = "svc_data") \/ a \in raced
  BY <1>1, <1>2, AccountsAssumption DEF Shape, Alone, AccountsAssumption
<1>9. ASSUME a \notin raced PROVE FilesGood(a, f, admins, utype[a], "ready")
  <2>1. /\ files[a].p12 = files[a].pem.serial /\ files[a].p12 \notin admins
        /\ files[a].nodered \notin admins
        /\ files[a].p12 # 0 /\ utype[a] = "svc_data"
    BY <1>1, <1>2, <1>8, <1>9 DEF Alone, Backed, FilesGood, Shape
  <2>2. QED
    BY <1>5, <1>8, <1>9, <2>1 DEF FilesGood
<1>10. Leaves(r, a, f, Idle)
  BY <1>3, <1>6, <1>9 DEF Leaves
<1>11. QED
  BY <1>2, <1>7, <1>10, OwnStep, Sets

LEMMA RegisterAdminCert ==
    ASSUME CertInv, TypeInv, NEW r \in Request, RegisterAdmin(r) PROVE CertInv'
<1> DEFINE a == op[r].acct
           f == files[a]
<1>1. op[r].pc = "certmod"
  BY DEF RegisterAdmin
<1>2. CASE Become(r, Failed(op[r])) /\ UNCHANGED <<admins, fate>>
  <2>1. Aside /\ UNCHANGED ldap
    BY <1>2 DEF RegisterAdmin, Aside, ca, history
  <2>2. QED
    BY <1>1, <1>2, <2>1, TameLdap, FailedCarries, GoesOn, Sets
<1>3. CASE admins' = admins \cup {f.pem.serial} /\ End(r, "ready")
  <2>1. /\ a \in Account /\ f \in Files /\ fresh \in Nat
        /\ op[r] \in OpRecord /\ Signs(op[r]) /\ Shape(op[r])
        /\ Backed(op[r], f, crl)
        /\ a \notin raced =>
              /\ Alone(op[r], f, admins, utype[a], fate[a])
              /\ FilesGood(a, f, admins, utype[a], fate[a])
    BY <1>1, Signing, CertOp, NatSerials
  <2>2. /\ op' = [op EXCEPT ![r] = Idle] /\ fate' = [fate EXCEPT ![a] = "ready"]
        /\ UNCHANGED <<files, crl, fresh, raced, served, utype, active>>
    BY <1>3 DEF RegisterAdmin, End, Become, history, ldap
  <2>3. files' = [files EXCEPT ![a] = f]
    BY <2>2 DEF TypeInv, CaTyped
  <2>4. fate'[a] = "ready" /\ \A b \in Account \ {a} : fate'[b] = fate[b]
    BY <2>1, <2>2 DEF TypeInv, OthersTyped
  <2>5. f.pem.serial # 0
    BY <1>1, <2>1 DEF Backed
  <2>6. a \in Service /\ a \notin Person
    BY <1>1, <2>1, AccountsAssumption DEF Shape, AccountsAssumption
  <2>7. ASSUME a \notin raced PROVE FilesGood(a, f, admins', utype[a], "ready")
    <3>1. /\ f.p12 = f.pem.serial /\ f.p12 # f.nodered
          /\ f.nodered \notin admins
          /\ utype[a] = "svc_admin"
      BY <1>1, <2>1, <2>6, <2>7 DEF Alone, FilesGood, Shape
    <3>2. QED
      BY <1>3, <2>5, <2>6, <3>1 DEF FilesGood
  <2> HIDE DEF f
  <2>8. Own(r, a, f, Idle)
    <3>1. fresh' = fresh /\ fresh <= fresh
      BY <2>1, <2>2
    <3>2. files[a].pem.serial # 0 /\ admins' = admins \cup {files[a].pem.serial}
      BY <1>3, <2>5 DEF f
    <3>3. QED
      BY <2>1, <2>2, <2>3, <2>4, <3>1, <3>2 DEF Own, f
  <2>9. Leaves(r, a, f, Idle)
    BY <2>2, <2>4, <2>7 DEF Leaves
  <2>10. QED
    BY <2>1, <2>8, <2>9, OwnStep, Sets
<1>4. QED
  BY <1>2, <1>3 DEF RegisterAdmin

LEMMA RollbackCert ==
    ASSUME CertInv, TypeInv, NEW r \in Request, Rollback(r) PROVE CertInv'
<1> DEFINE a == op[r].acct
           f == files[a]
<1>1. op[r].pc = "rollback"
  BY DEF Rollback
<1>2. /\ a \in Account /\ f \in Files /\ fresh \in Nat /\ Signs(op[r])
      /\ a \notin raced => FilesGood(a, f, admins, utype[a], fate[a])
  BY <1>1, Signing, CertOp, NatSerials
<1>3. /\ op' = [op EXCEPT ![r] = Idle]
      /\ UNCHANGED <<files, crl, admins, fresh, raced, served, utype>>
      /\ \/ active' = [active EXCEPT ![a] = FALSE] /\ fate' = [fate EXCEPT ![a] = "failed"]
         \/ active' = active /\ fate' = [fate EXCEPT ![a] = "none"]
  BY DEF Rollback, End, Become, history, ca
<1>4. files' = [files EXCEPT ![a] = f]
  BY <1>3 DEF TypeInv, CaTyped
<1>5. /\ fate'[a] = "none" \/ (fate'[a] = "failed" /\ ~active'[a])
      /\ \A b \in Account \ {a} : fate'[b] = fate[b] /\ active'[b] = active[b]
  BY <1>2, <1>3 DEF TypeInv, OthersTyped, LdapTyped
<1>6. Own(r, a, f, Idle)
  <2>1. fresh' = fresh /\ fresh <= fresh
    BY <1>2, <1>3
  <2>2. QED
    BY <1>2, <1>3, <1>4, <1>5, <2>1 DEF Own
<1>7. a \notin raced => FilesGood(a, f, admins', utype'[a], fate'[a])
  BY <1>2, <1>3, <1>5 DEF FilesGood
<1>8. Leaves(r, a, f, Idle)
  BY <1>5, <1>7 DEF Leaves
<1>9. QED
  BY <1>2, <1>6, <1>8, OwnStep, Sets


LEMMA CreateAttrsCert ==
    ASSUME CertInv, TypeInv, NEW r \in Request, CreateAttrs(r) PROVE CertInv'
<1> DEFINE o == [op[r] EXCEPT !.pc = IF op[r].ask = {} THEN "csr" ELSE "ensure"]
           a == op[r].acct
           f == files[a]
           typed == /\ utype' = [utype EXCEPT ![a] = op[r].mode]
                    /\ UNCHANGED <<groups, users, member, active, schema>>
<1>1. /\ op[r].pc = "attrs" /\ Mutation(r, typed, o) /\ Aside /\ raced' = raced
  BY DEF CreateAttrs, Aside, history
<1>2. \/ UNCHANGED ldap /\ Raise(r)
      \/ typed /\ fate' = fate /\ (Become(r, o) \/ Become(r, Idle))
  BY <1>1, Sets, AccountsAssumption DEF Mutation, Raise, AccountsAssumption
<1>3. CASE UNCHANGED ldap /\ Raise(r)
  BY <1>1, <1>3, TameLdap, GivesUp, Sets
<1>4. CASE typed /\ fate' = fate /\ (Become(r, o) \/ Become(r, Idle))
  <2>1. /\ a \in Account /\ fresh \in Nat /\ r # Boot
        /\ op[r] \in OpRecord /\ Signs(op[r]) /\ Shape(op[r])
        /\ Backed(op[r], f, crl)
        /\ a \notin raced =>
              /\ Alone(op[r], f, admins, utype[a], fate[a])
              /\ FilesGood(a, f, admins, utype[a], fate[a])
        /\ fate[a] = "failed" => ~active[a]
    BY <1>1, Signing, NatSerials
  <2>2. PICK x \in {o, Idle} : op' = [op EXCEPT ![r] = x]
    BY <1>4 DEF Become
  <2>3. /\ files' = [files EXCEPT ![a] = f] /\ fresh' = fresh /\ fresh <= fresh
        /\ UNCHANGED <<crl, admins, raced, served, active, fate>>
    BY <1>1, <1>4, <2>1 DEF Aside, ca, TypeInv, CaTyped
  <2>4. utype'[a] = op[r].mode /\ \A b \in Account \ {a} : utype'[b] = utype[b]
    BY <1>4, <2>1 DEF TypeInv, LdapTyped
  <2>5. /\ o.pc = (IF op[r].ask = {} THEN "csr" ELSE "ensure")
        /\ o.kind = op[r].kind /\ o.acct = a /\ o.mode = op[r].mode
        /\ o.ask = op[r].ask /\ o.crl0 = op[r].crl0 /\ o.seen = op[r].seen
        /\ o.certs = op[r].certs
    BY <2>1 DEF OpRecord
  <2>6. op[r].kind = "create"
    BY <1>1, <2>1 DEF Shape
  <2> HIDE DEF o, typed
  <2>7. Own(r, a, f, x)
    BY <2>1, <2>2, <2>3, <2>4 DEF Own
  <2>8. Shape(o) /\ Backed(o, f, crl) /\ Numbers(o, fresh)
    BY <1>1, <2>1, <2>5, <2>6, Signing DEF Shape, Backed, Numbers, Signs
  <2>9. a \notin raced => /\ Alone(o, f, admins, utype'[a], fate[a])
                          /\ FilesGood(a, f, admins, utype'[a], fate[a])
    BY <2>1, <2>4, <2>5, <2>6 DEF Alone, FilesGood
  <2>10. Leaves(r, a, f, x)
    BY <2>1, <2>2, <2>3, <2>5, <2>8, <2>9 DEF Leaves
  <2>11. QED
    BY <2>1, <2>7, <2>10, OwnStep, Sets
<1>5. QED
  BY <1>2, <1>3, <1>4

(***************************************************************************)
(* Steps with a hand in other people's accounts.                           *)
(***************************************************************************)
\* A request sets out to sign for an account: whoever is at it already is
\* raced by it from now on.
LEMMA StartsSigning ==
    ASSUME CertInv, TypeInv, NEW r \in Request, NEW a \in Account, NEW x,
           op' = [op EXCEPT ![r] = x],
           raced' = IF Working(a, {"create", "generate"})
                    THEN raced \cup {a} ELSE raced,
           UNCHANGED <<ca, utype, active, served>>,
           \A b \in Account : fate'[b] \in {fate[b], "none"},
           x.acct = a, Shape(x), x.crl0 = {}, x.certs = {},
           x.pc \notin {"p12", "pems", "certmod", "look", "check", "send"},
           Alone(x, files[a], admins, utype[a], fate'[a])
    PROVE  CertInv'
<1>1. /\ UNCHANGED <<files, crl, admins, fresh>> /\ raced \subseteq raced'
      /\ r \in Proc /\ r # Boot /\ op'[r] = x
      /\ \A q \in Proc \ {r} : op'[q] = op[q]
  BY Sets, AccountsAssumption DEF ca, TypeInv, OpsTyped, AccountsAssumption
<1>2. ASSUME NEW q \in Proc PROVE ProcGood(q, op[q])'
  <2>1. CASE q = r
    BY <1>1, <2>1 DEF ProcGood, OpGood, Backed, Numbers
  <2>2. CASE q # r
    <3> DEFINE y == op[q]
    <3>1. ProcGood(q, y) /\ op'[q] = y /\ Holds(y, users, groups, misled)
      BY <1>1, <2>2, OpOf DEF CertInv
    <3>2. y.acct \notin raced' => y.acct \notin raced
      BY <1>1
    <3>3. \A g, end : Alone(y, g, admins, utype[y.acct], end) =>
                          Alone(y, g, admins, utype[y.acct], "none")
      BY DEF Alone
    <3>4. CASE y.acct \in Account
      <4>1. fate'[y.acct] \in {fate[y.acct], "none"}
        BY <3>4
      <4> HIDE DEF y
      <4>2. QED
        BY <1>1, <3>1, <3>2, <3>3, <4>1 DEF ProcGood, OpGood
    <3>5. CASE y.pc = "idle"
      BY <1>1, <3>1, <3>2, <3>5 DEF ProcGood, OpGood, Shape, Backed, Alone
    <3>6. QED
      BY <3>1, <3>4, <3>5 DEF Holds
  <2>3. QED
    BY <2>1, <2>2
<1>3. Singly'
  <2> SUFFICES ASSUME NEW p \in Proc, NEW q \in Proc,
                      Signs(op'[p]), Signs(op'[q]),
                      op'[p].acct = op'[q].acct, op'[p].acct \notin raced'
               PROVE  p = q
    BY DEF Singly, Signs
  <2>1. CASE p # r /\ q # r
    BY <1>1, <2>1 DEF CertInv, Singly
  <2>2. ASSUME NEW s \in Proc \ {r}, Signs(op[s]), op[s].acct = a PROVE a \in raced'
    BY <2>2 DEF Working, Signs
  <2>3. QED
    BY <1>1, <2>1, <2>2
<1>4. Numbered' /\ OwnSerials'
  BY <1>1 DEF CertInv, Numbered, OwnSerials
<1>5. ServedGood'
  BY <1>1 DEF CertInv, ServedGood
<1>6. ASSUME NEW b \in Account \ raced'
      PROVE  FilesGood(b, files[b], admins, utype[b], fate[b])'
  <2>1. FilesGood(b, files[b], admins, utype[b], fate[b])
    BY <1>1, <1>6 DEF CertInv
  <2>2. QED
    BY <1>1, <2>1 DEF FilesGood
<1>7. \A b \in Account : fate'[b] = "failed" => ~active'[b]
  BY DEF CertInv
<1>8. QED
  BY <1>2, <1>3, <1>4, <1>5, <1>6, <1>7 DEF CertInv

LEMMA CreateCheckCert ==
    ASSUME CertInv, TypeInv, NEW r \in Request, NEW a \in Account, NEW mode,
           NEW gs, CreateCheck(r, a, mode, gs)
    PROVE  CertInv'
<1> DEFINE x == [Idle EXCEPT !.pc = "create", !.kind = "create", !.acct = a,
                             !.mode = mode, !.ask = gs]
<1>1. /\ op' = [op EXCEPT ![r] = x] /\ fate' = [fate EXCEPT ![a] = "none"]
      /\ raced' = IF Working(a, {"create", "generate"})
                  THEN raced \cup {a} ELSE raced
      /\ UNCHANGED <<ca, utype, active, served>> /\ ModeAllowed(a, mode, gs)
  BY DEF CreateCheck, Become, ldap
<1>2. /\ x.pc = "create" /\ x.kind = "create" /\ x.acct = a /\ x.mode = mode
      /\ x.ask = gs /\ x.crl0 = {} /\ x.certs = {}
  BY DEF Idle
<1>3. fate'[a] = "none" /\ \A b \in Account : fate'[b] \in {fate[b], "none"}
  BY <1>1 DEF TypeInv, OthersTyped
<1> HIDE DEF x
<1>4. Shape(x)
  BY <1>1, <1>2 DEF Shape, ModeAllowed, Signs
<1>5. Alone(x, files[a], admins, utype[a], fate'[a])
  BY <1>2, <1>3 DEF Alone
<1>6. QED
  BY <1>1, <1>2, <1>3, <1>4, <1>5, StartsSigning

LEMMA GenerateCheckCert ==
    ASSUME CertInv, TypeInv, NEW r \in Request, NEW a \in Account,
           GenerateCheck(r, a)
    PROVE  CertInv'
<1> DEFINE x == [Idle EXCEPT !.pc = "csr", !.kind = "generate", !.acct = a]
<1>1. /\ op' = [op EXCEPT ![r] = x] /\ fate' = fate
      /\ raced' = IF Working(a, {"create", "generate"})
                  THEN raced \cup {a} ELSE raced
      /\ UNCHANGED <<ca, utype, active, served>>
      /\ a \in Person /\ files[a].p12 = 0
  BY DEF GenerateCheck, Become, ldap
<1>2. /\ x.pc = "csr" /\ x.kind = "generate" /\ x.acct = a /\ x.crl0 = {}
      /\ x.certs = {}
  BY DEF Idle
<1> HIDE DEF x
<1>3. Shape(x) /\ Alone(x, files[a], admins, utype[a], fate'[a])
  BY <1>1, <1>2 DEF Shape, Alone, Signs
<1>4. QED
  BY <1>1, <1>2, <1>3, StartsSigning


\* A key that is no longer readable is nobody's.
LEMMA RemovePemsCert ==
    ASSUME CertInv, TypeInv, NEW r \in Request, RemovePems(r) PROVE CertInv'
<1> DEFINE a == op[r].acct
           f == [files[a] EXCEPT !.nodered = 0]
<1>1. /\ op[r].pc = "unpem" /\ Become(r, Idle)
      /\ UNCHANGED <<crl, admins, fresh, utype, active, raced, served, fate>>
      /\ files' = [files EXCEPT ![a] = f] \/ files' = files
  BY DEF RemovePems, ldap, history
<1>2. a \in Account /\ files[a] \in Files /\ r \in Proc
  BY <1>1, CertOp
<1>3. Carries(r, Idle)
  BY IdleGood DEF Carries
<1>4. CASE files' = files
  <2>1. Aside /\ Tame
    BY <1>1, <1>4 DEF Aside, Tame, ca
  <2>2. QED
    BY <1>1, <1>2, <1>3, <2>1, GoesOn
<1>5. CASE files' = [files EXCEPT ![a] = f]
  <2>1. \A b \in Account :
           /\ files'[b].pem = files[b].pem /\ files'[b].p12 = files[b].p12
           /\ files'[b].nodered \in {0, files[b].nodered}
    <3>1. f.pem = files[a].pem /\ f.p12 = files[a].p12 /\ f.nodered = 0
      BY <1>2 DEF Files
    <3> HIDE DEF f
    <3>2. QED
      BY <1>2, <1>5, <3>1, NatSerials
  <2>2. \A b \in Account : Serials(files'[b]) \subseteq Serials(files[b]) \cup {0}
    BY <2>1 DEF Serials
  <2>3. 0 \notin admins /\ 0 \notin crl /\ 0 <= fresh
    BY NatSerials DEF CertInv, Numbered
  <2>4. Numbered' /\ OwnSerials'
    <3>1. Numbered'
      BY <1>1, <2>2, <2>3 DEF CertInv, Numbered, Serials
    <3>2. OwnSerials'
      BY <2>2 DEF CertInv, OwnSerials, Serials
    <3>3. QED
      BY <3>1, <3>2
  <2>5. \A q \in Proc : op'[q] = op[q] \/ op'[q] = Idle
    BY <1>1 DEF Become, TypeInv, OpsTyped
  <2>6. ASSUME NEW q \in Proc PROVE ProcGood(q, op[q])'
    <3>1. CASE op'[q] = Idle
      BY <3>1 DEF ProcGood, OpGood, Shape, Backed, Numbers, Alone, Idle
    <3>2. CASE op'[q] = op[q]
      <4> DEFINE o == op[q]
      <4>1. ProcGood(q, o) /\ Holds(o, users, groups, misled)
        BY OpOf DEF CertInv
      <4>2. CASE o.pc = "idle"
        BY <1>1, <3>2, <4>1, <4>2 DEF ProcGood, OpGood, Shape, Backed, Alone
      <4>3. CASE o.acct \in Account
        <5>1. /\ files'[o.acct].pem = files[o.acct].pem
              /\ files'[o.acct].p12 = files[o.acct].p12
              /\ files'[o.acct].nodered \in {0, files[o.acct].nodered}
          BY <2>1, <4>3
        <5> HIDE DEF o
        <5>2. Shape(o) /\ Backed(o, files'[o.acct], crl)
          BY <4>1, <5>1 DEF ProcGood, OpGood, Backed
        <5>3. o.acct \notin raced =>
                 Alone(o, files'[o.acct], admins, utype[o.acct], fate[o.acct])
          BY <4>1, <5>1 DEF ProcGood, OpGood, Backed, Alone
        <5>4. QED
          BY <1>1, <3>2, <4>1, <5>2, <5>3 DEF ProcGood, OpGood, o
      <4>4. QED
        BY <4>1, <4>2, <4>3 DEF Holds
    <3>3. QED
      BY <2>5, <3>1, <3>2
  <2>7. Singly'
    BY <1>1, <2>5, IdleGood DEF CertInv, Singly, Signs
  <2>8. ServedGood'
    BY <1>1, <2>1, Sets DEF CertInv, ServedGood
  <2>9. ASSUME NEW b \in Account \ raced
        PROVE  FilesGood(b, files[b], admins, utype[b], fate[b])'
    BY <1>1, <2>1, <2>3 DEF CertInv, FilesGood
  <2>10. \A b \in Account : fate'[b] = "failed" => ~active'[b]
    BY <1>1 DEF CertInv
  <2>11. QED
    BY <1>1, <2>4, <2>6, <2>7, <2>8, <2>9, <2>10 DEF CertInv
<1>6. QED
  BY <1>1, <1>4, <1>5

\* What is sent is the bundle there is, the one that was looked at.
LEMMA SendCert ==
    ASSUME CertInv, TypeInv, NEW r \in Request, Send(r) PROVE CertInv'
<1> DEFINE a == op[r].acct
<1>1. /\ op[r].pc = "send" /\ Become(r, Idle) /\ r \in Proc
      /\ served' = served \cup {<<a, files[a].p12>>}
      /\ UNCHANGED <<files, crl, admins, fresh, utype, active, raced, fate>>
  BY Sets DEF Send, ldap, ca
<1>2. files[a].p12 # 0
  BY <1>1 DEF CertInv, ProcGood, OpGood, Backed
<1>3. ServedGood'
  BY <1>1, <1>2 DEF CertInv, ServedGood
<1>4. \A q \in Proc : op'[q] = op[q] \/ op'[q] = Idle
  BY <1>1 DEF Become, TypeInv, OpsTyped
<1>5. \A q \in Proc : ProcGood(q, op[q])'
  BY <1>1, <1>4, IdleGood DEF CertInv, ProcGood, OpGood
<1>6. Singly'
  BY <1>1, <1>4, IdleGood DEF CertInv, Singly, Signs
<1>7. Numbered' /\ OwnSerials'
  BY <1>1 DEF CertInv, Numbered, OwnSerials
<1>8. /\ \A b \in Account \ raced' : FilesGood(b, files[b], admins, utype[b], fate[b])'
      /\ \A b \in Account : fate'[b] = "failed" => ~active'[b]
  BY <1>1 DEF CertInv, FilesGood
<1>9. QED
  BY <1>3, <1>5, <1>6, <1>7, <1>8 DEF CertInv

\* The serial in a person's .pem is in nobody else's files.
LEMMA RevokeByNameCert ==
    ASSUME CertInv, TypeInv, NEW a \in Account, RevokeByName(a) PROVE CertInv'
<1> DEFINE s == files[a].pem.serial
<1>1. /\ a \in Person /\ s # 0 /\ crl' = crl \cup {s}
      /\ UNCHANGED <<files, admins, fresh, utype, active, raced, served, op, fate>>
  BY DEF RevokeByName, ldap, history
<1>2. s \in Serials(files[a]) /\ s \in Nat /\ s <= fresh
  BY NatSerials DEF Serials, CertInv, Numbered
<1>3. Numbered'
  BY <1>1, <1>2 DEF CertInv, Numbered, Serials
<1>4. OwnSerials'
  BY <1>1 DEF CertInv, OwnSerials
<1>6. Singly' /\ ServedGood'
  BY <1>1 DEF CertInv, Singly, ServedGood
<1>7. \A q \in Proc : ProcGood(q, op[q])'
  BY <1>1 DEF CertInv, ProcGood, OpGood, Backed
<1>8. /\ \A b \in Account \ raced' : FilesGood(b, files[b], admins, utype[b], fate[b])'
      /\ \A b \in Account : fate'[b] = "failed" => ~active'[b]
  BY <1>1 DEF CertInv, FilesGood
<1>9. QED
  BY <1>3, <1>4, <1>6, <1>7, <1>8 DEF CertInv

\* The deletion of a service account: what it lists has been signed, and what
\* it types an account as, if it is not the type there is, makes it raced.
LEMMA Deleting ==
    ASSUME CertInv, TypeInv, NEW r \in Request, op[r].pc \in {"list", "revoke", "mark"}
    PROVE  /\ r \in Proc /\ op[r] \in OpRecord /\ op[r].acct \in Account
           /\ op[r].kind \in {"none", "set", "delete", "boot"} /\ op[r].crl0 \subseteq crl
           /\ r # Boot /\ Numbers(op[r], fresh)
           /\ Serials(files[op[r].acct]) \subseteq 0..fresh
<1>1. /\ r \in Proc /\ op[r] \in OpRecord /\ op[r].acct \in Account
      /\ r # Boot /\ OpGood(op[r])
  BY Sets, CertOp, AccountsAssumption DEF CertInv, ProcGood, AccountsAssumption
<1>2. op[r].kind \in {"none", "set", "delete", "boot"}
  BY <1>1 DEF OpGood, Shape, OpRecord
<1>3. Serials(files[op[r].acct]) \subseteq 0..fresh
  BY <1>1, NatSerials DEF CertInv, Numbered
<1>4. QED
  BY <1>1, <1>2, <1>3 DEF OpGood, Backed

LEMMA DeletionCarries ==
    ASSUME CertInv, TypeInv, NEW r \in Request, NEW x,
           op[r].pc \in {"list", "revoke", "mark"},
           x.kind = op[r].kind, x.crl0 = op[r].crl0, Numbers(x, fresh),
           x.pc \in {"revoke", "mark", "unpem"}
    PROVE  Carries(r, x)
<1>1. OpGood(x) /\ ~Signs(x)
  BY Deleting, Unconcerned
<1>2. QED
  BY <1>1, Deleting DEF Carries, ProcGood

LEMMA ListCertsCert ==
    ASSUME CertInv, TypeInv, NEW r \in Request, ListCerts(r) PROVE CertInv'
<1> DEFINE o == op[r]
           y == [o EXCEPT !.pc = "unpem"]
           listing(listed, left) == [o EXCEPT !.pc = "revoke", !.certs = listed,
                                              !.left = left]
<1>1. /\ o.pc = "list" /\ Aside /\ Tame /\ fate' = fate
      /\ \/ \E listed \in SUBSET Held(o.acct), left \in BOOLEAN :
               Become(r, listing(listed, left))
         \/ Become(r, y) \/ Become(r, Idle)
  BY TameLdap DEF ListCerts, Aside, history
<1>2. ASSUME NEW listed \in SUBSET Held(o.acct), NEW left \in BOOLEAN
      PROVE  Carries(r, listing(listed, left))
  <2> DEFINE x == listing(listed, left)
  <2>0. o \in OpRecord
    BY <1>1, Deleting
  <2>1. x.kind = o.kind /\ x.crl0 = o.crl0 /\ x.pc = "revoke" /\ x.certs = listed
    BY <2>0 DEF OpRecord
  <2>2. listed \subseteq 1..fresh
    <3>1. Serials(files[o.acct]) \subseteq 0..fresh /\ fresh \in Nat
      BY <1>1, Deleting, NatSerials
    <3>2. listed \subseteq Serials(files[o.acct]) \ {0}
      BY DEF Held, Serials
    <3>3. QED
      BY <3>1, <3>2
  <2> HIDE DEF listing
  <2>3. QED
    BY <1>1, <2>1, <2>2, DeletionCarries DEF Numbers
<1>3. Carries(r, y)
  <2>0. o \in OpRecord /\ Numbers(o, fresh)
    BY <1>1, Deleting
  <2>1. y.kind = o.kind /\ y.crl0 = o.crl0 /\ y.pc = "unpem" /\ Numbers(y, fresh)
    BY <2>0 DEF OpRecord, Numbers
  <2> HIDE DEF y, listing
  <2>2. QED
    BY <1>1, <2>1, DeletionCarries
<1>4. Carries(r, Idle)
  BY IdleGood DEF Carries
<1> HIDE DEF listing, y
<1>5. QED
  BY <1>1, <1>2, <1>3, <1>4, Deleting, GoesOn

LEMMA MarkReadCert ==
    ASSUME CertInv, TypeInv, NEW r \in Request, MarkRead(r) PROVE CertInv'
<1> DEFINE o == op[r]
           x == [o EXCEPT !.pc = "mark", !.mode = utype[o.acct]]
           y == [o EXCEPT !.pc = "unpem"]
<1>1. /\ o.pc = "revoke" /\ Aside /\ Tame /\ fate' = fate
      /\ Become(r, x) \/ Become(r, y)
  BY TameLdap DEF MarkRead, Aside, history
<1>2. /\ x.kind = o.kind /\ x.crl0 = o.crl0 /\ x.pc = "mark" /\ Numbers(x, fresh)
      /\ y.kind = o.kind /\ y.crl0 = o.crl0 /\ y.pc = "unpem" /\ Numbers(y, fresh)
  BY <1>1, Deleting DEF OpRecord, Numbers
<1> HIDE DEF x, y
<1>3. Carries(r, x) /\ Carries(r, y)
  BY <1>1, <1>2, DeletionCarries
<1>4. QED
  BY <1>1, <1>3, Deleting, GoesOn

LEMMA MarkWriteCert ==
    ASSUME CertInv, TypeInv, NEW r \in Request, MarkWrite(r) PROVE CertInv'
<1> DEFINE a == op[r].acct
           type == IF op[r].mode = "none" THEN utype[a] ELSE op[r].mode
           y == [op[r] EXCEPT !.pc = "unpem"]
           typed == /\ utype' = [utype EXCEPT ![a] = type]
                    /\ UNCHANGED <<groups, users, member, active, schema>>
<1>1. /\ op[r].pc = "mark" /\ Aside /\ Mutation(r, typed, y)
      /\ raced' = IF type # utype[a] THEN raced \cup {a} ELSE raced
  BY DEF MarkWrite, Aside
<1>2. y.kind = op[r].kind /\ y.crl0 = op[r].crl0 /\ y.pc = "unpem" /\ Numbers(y, fresh)
  BY <1>1, Deleting DEF OpRecord, Numbers
<1>3. typed => Tame
  BY <1>1, Deleting DEF Tame, TypeInv, LdapTyped
<1> HIDE DEF typed, y
<1>4. Carries(r, y)
  BY <1>1, <1>2, DeletionCarries
<1>5. QED
  BY <1>1, <1>3, <1>4, Deleting, MutationCert

LEMMA RevokeListedCert ==
    ASSUME CertInv, TypeInv, NEW r \in Request, NEW serial \in op[r].certs,
           RevokeListed(r, serial)
    PROVE  CertInv'
<1> DEFINE o == op[r]
           x == [o EXCEPT !.certs = @ \ {serial}]
           y == [o EXCEPT !.certs = @ \ {serial}, !.left = TRUE]
<1>1. /\ o.pc = "revoke"
      /\ Become(r, x) \/ Become(r, y)
      /\ UNCHANGED <<files, admins, fresh, utype, active, raced, served, fate>>
      /\ crl' = crl \cup {serial} \/ crl' = crl
  BY DEF RevokeListed, ldap, history
<1>2. /\ r \in Proc /\ serial \in 1..fresh /\ fresh \in Nat
  BY <1>1, Deleting, NatSerials DEF Numbers
<1>2a. /\ x.kind = o.kind /\ x.crl0 = o.crl0 /\ x.pc = "revoke" /\ x.certs \subseteq o.certs
       /\ y.kind = o.kind /\ y.crl0 = o.crl0 /\ y.pc = "revoke" /\ y.certs \subseteq o.certs
  BY <1>1, Deleting DEF OpRecord
<1> HIDE DEF x, y
<1>2b. Numbers(x, fresh) /\ Numbers(y, fresh)
  BY <1>1, <1>2a, Deleting DEF Numbers
<1>3. Carries(r, x) /\ Carries(r, y)
  BY <1>1, <1>2a, <1>2b, DeletionCarries
<1>4. ASSUME NEW q \in Proc PROVE Carries(q, op'[q])
  <2>1. \/ op'[q] = op[q]
        \/ q = r /\ op'[q] \in {x, y}
    BY <1>1, <1>2 DEF Become, TypeInv, OpsTyped
  <2>2. QED
    BY <1>3, <2>1 DEF CertInv, Carries
<1>5. Numbered'
  BY <1>1, <1>2 DEF CertInv, Numbered, Serials
<1>6. OwnSerials' /\ ServedGood'
  BY <1>1 DEF CertInv, OwnSerials, ServedGood
<1>7. Singly'
  BY <1>1, <1>4 DEF Carries, CertInv, Singly
<1>8. \A q \in Proc : ProcGood(q, op[q])'
  BY <1>1, <1>4 DEF Carries, ProcGood, OpGood, Backed
<1>9. /\ \A b \in Account \ raced' : FilesGood(b, files[b], admins, utype[b], fate[b])'
      /\ \A b \in Account : fate'[b] = "failed" => ~active'[b]
  BY <1>1 DEF CertInv, FilesGood
<1>10. QED
  BY <1>5, <1>6, <1>7, <1>8, <1>9 DEF CertInv

(***************************************************************************)
(* The invariant, and what follows from it.                                *)
(***************************************************************************)
LEMMA CertInit == Init => CertInv
<1> SUFFICES ASSUME Init PROVE CertInv
  OBVIOUS
<1>1. /\ \A a \in Account : Serials(files[a]) = {0}
      /\ \A a \in Account : files[a].p12 = 0 /\ files[a].nodered = 0
      /\ crl = {} /\ admins = {} /\ fresh = 0 /\ served = {}
      /\ \A a \in Account : fate[a] = "none"
      /\ \A p \in Proc : op[p] = Idle
  BY DEF Init, NoFiles, Serials
<1>2. Numbered /\ OwnSerials /\ ServedGood
  BY <1>1 DEF Numbered, OwnSerials, ServedGood
<1>3. Singly /\ \A p \in Proc : ProcGood(p, op[p])
  BY <1>1, IdleGood DEF Singly
<1>4. \A a \in Account : FilesGood(a, files[a], admins, utype[a], fate[a])
  BY <1>1 DEF FilesGood
<1>5. QED
  BY <1>1, <1>2, <1>3, <1>4 DEF CertInv

LEMMA CertStep == CertInv /\ TypeInv /\ [Next]_vars => CertInv'
<1> SUFFICES ASSUME CertInv, TypeInv, [Next]_vars PROVE CertInv'
  OBVIOUS
<1>1. CASE BootNext \/ Crash
  BY <1>1, BootNextCert, CrashCert
<1>2. ASSUME NEW g \in Tak, CreateGroup(g) \/ DeleteGroup(g) PROVE CertInv'
  BY <1>2, CreateGroupCert, DeleteGroupCert
<1>3. ASSUME NEW a \in Account, RevokeByName(a) PROVE CertInv'
  BY <1>3, RevokeByNameCert
<1>4. ASSUME NEW r \in Request, ArriveAny(r) PROVE CertInv'
  BY <1>4, SetCheckCert, CreateCheckCert, GenerateCheckCert, DeleteServiceCert,
     DownloadCert DEF ArriveAny
<1>5. ASSUME NEW r \in Request, Step(r) PROVE CertInv'
  <2>1. CASE SetPlan(r) \/ Groups(r)
    BY <2>1, Sets, SetPlanCert, MakeGroupCert, JoinCert, DropCert DEF Groups
  <2>2. CASE CreateUser(r) \/ CreateAttrs(r) \/ EnsureGroups(r)
    BY <2>2, CreateUserCert, CreateAttrsCert, EnsureGroupsCert
  <2>3. CASE Csr(r) \/ Sign(r) \/ Bundle(r)
    BY <2>3, CsrCert, SignCert, BundleCert
  <2>4. CASE WritePems(r) \/ RegisterAdmin(r) \/ Rollback(r)
    BY <2>4, WritePemsCert, RegisterAdminCert, RollbackCert
  <2>5. CASE \/ Deactivate(r) \/ RemovePems(r)
             \/ \E serial \in op[r].certs : RevokeListed(r, serial)
             \/ ListCerts(r) \/ MarkRead(r) \/ MarkWrite(r)
    BY <2>5, DeactivateCert, RemovePemsCert, ListCertsCert, RevokeListedCert,
       MarkReadCert, MarkWriteCert
  <2>6. CASE LookSerial(r) \/ CheckCrl(r) \/ Send(r)
    BY <2>6, LookSerialCert, CheckCrlCert, SendCert
  <2>7. QED
    BY <1>5, <2>1, <2>2, <2>3, <2>4, <2>5, <2>6 DEF Step
<1>6. CASE UNCHANGED vars
  BY <1>6, OpMoves DEF vars, ldap, history
<1>7. QED
  BY <1>1, <1>2, <1>3, <1>4, <1>5, <1>6 DEF Next

LEMMA CertInvariant == Spec => [](CertInv /\ TypeInv)
  BY CertInit, CertStep, TypeInit, TypeStep, PTL DEF Spec

\* write_nodered_pems: no key in the directory mounted into Node-RED is ever
\* registered with certmod -A, whatever creations, deletions, failures and
\* crashes come in between.
THEOREM AdminKeysStayPrivate == Spec => []AdminKeyNotShared
<1>1. CertInv => AdminKeyNotShared
  BY DEF CertInv, FilesGood, AdminKeyNotShared
<1>2. QED
  BY <1>1, CertInvariant, PTL

\* create_service_account: an account whose creation is reported as done has
\* the bundle of its .pem and the admin role exactly when it is of that type;
\* one whose creation was rolled back is not active.
THEOREM ServicesAreSound == Spec => []ServiceSound
<1>1. CertInv => ServiceSound
  BY Sets DEF CertInv, FilesGood, ServiceSound
<1>2. QED
  BY <1>1, CertInvariant, PTL

\* The 409 of generate_user_cert: whatever a person has downloaded is still
\* the certificate in the .pem that a revocation by name reads.
THEOREM DownloadsStayRevocable == Spec => []HandedOutRevocable
<1>1. CertInv => HandedOutRevocable
  BY Sets DEF CertInv, ServedGood, FilesGood, HandedOutRevocable
<1>2. QED
  BY <1>1, CertInvariant, PTL

\* The download handlers: what they send was not revoked when the request
\* came, unless the CRL could not be read: the serial that was checked is in
\* the .pem still, or the .pem holds one that was signed since.
THEOREM RevokedStaysIn == Spec => []RevokedNotServed
<1>1. CertInv /\ TypeInv => RevokedNotServed
  <2> SUFFICES ASSUME CertInv, TypeInv, NEW r \in Request, op[r].pc = "send",
                      ~op[r].blind, op[r].acct \notin raced,
                      op[r].acct \in Service =>
                          files[op[r].acct].p12 = files[op[r].acct].pem.serial
               PROVE  files[op[r].acct].p12 \notin op[r].crl0
    BY DEF RevokedNotServed
  <2>1. /\ r \in Proc /\ OpGood(op[r]) /\ op[r].acct \in Person \cup Service
    BY Sets, OpOf DEF CertInv, ProcGood, OpGood, Shape
  <2>2. files[op[r].acct].pem.serial \notin op[r].crl0 /\ files[op[r].acct].p12 # 0
    BY <2>1 DEF OpGood, Backed
  <2>3. op[r].acct \in Person => files[op[r].acct].p12 = files[op[r].acct].pem.serial
    BY <2>1, <2>2, Sets DEF CertInv, FilesGood
  <2>4. QED
    BY <2>1, <2>2, <2>3
<1>2. QED
  BY <1>1, CertInvariant, PTL
=============================================================================
