--------------------------- MODULE GpsPluginProofs ---------------------------
(***************************************************************************)
(* What the table is given by the GPS plugin, for any number of providers  *)
(* and records: as long as no provider was made while another's dialog was *)
(* open, only the last provider has a dialog, the plugin listens to it and *)
(* no record of it was used; so an answer installs that provider, whole.   *)
(***************************************************************************)
EXTENDS GpsPlugin, TLAPS

Answers == {"none", "accepted", "cancelled"}

\* Each provider: a dialog that is open was not answered, a GPS provider reads
\* nothing before its answer, and the plugin never hears a deleted one.
EachInv(ps) ==
  \A q \in DOMAIN ps :
    /\ ps[q].dialog => ps[q].answer = "none"
    /\ ps[q].dialog /\ ps[q].kind = "gps" => ~ps[q].cvValid
    /\ ps[q].deleted => ~ps[q].connected

\* The table's provider is heard no more, and is deleted only by a mistake.
TableInv(ps, t, u) ==
  t # 0 => ~ps[t].connected /\ (ps[t].deleted => u)

\* Without overlap an open dialog is that of the provider made last.
OpenInv(ps) ==
  \A q \in DOMAIN ps : ps[q].dialog => /\ q = Len(ps) /\ ps[q].connected
                                       /\ ps[q].cvCurrentRecord = -1

\* Without overlap: what was confirmed is in the table, but for provider x.
AcceptedInv(ps, t, x) ==
  \A q \in DOMAIN ps : q # x /\ ps[q].answer = "accepted" /\ ps[q].cvValid => q <= t

\* Whether a table with those rows is that of an answered provider.
Shows(p, rws) ==
  /\ ~p.deleted /\ rws = 0..p.size - 1
  /\ \/ p.answer = "accepted" /\ p.cvValid
     \/ p.answer = "cancelled" /\ p.kind = "text" /\ rws = {}

\* Only the table's provider has read past its first record.
RecordInv(ps, t) ==
  \A q \in DOMAIN ps : ~ps[q].deleted /\ q # t => ps[q].cvCurrentRecord = -1

\* Without overlap a preview begins with the first record.
FirstShown == ~overlapped => preview \in {{}, {0}, {0, 1}, {0, 1, 2}}

Inv ==
  /\ TypeOK
  /\ EachInv(providers)
  /\ TableInv(providers, table, undefined)
  /\ ~overlapped => /\ OpenInv(providers)
                    /\ ~undefined
                    /\ AcceptedInv(providers, table, 0)
                    /\ table # 0 => Shows(providers[table], rows)
  /\ RecordInv(providers, table)
  /\ FirstShown

-----------------------------------------------------------------------------
(* What the parts of the handlers make of a provider.                      *)

LEMMA FreshFields ==
  ASSUME NEW kind \in {"text", "gps"}
  PROVE  LET p == Fresh(kind) IN
         /\ p \in Provider
         /\ p.kind = kind /\ p.dialog = FALSE /\ p.connected = TRUE
         /\ p.deleted = FALSE /\ p.cvValid = FALSE /\ p.size = 0
         /\ p.cvCurrentRecord = -1 /\ p.answer = "none"
  BY BoundsAssumption DEF Fresh, Provider

LEMMA AnsweredFields ==
  ASSUME NEW p \in Provider, NEW answer \in Answers
  PROVE  LET r == Answered(p, answer) IN
         /\ r \in Provider
         /\ r.kind = p.kind /\ r.dialog = FALSE /\ r.connected = p.connected
         /\ r.deleted = p.deleted /\ r.cvValid = p.cvValid /\ r.size = p.size
         /\ r.cvCurrentRecord = p.cvCurrentRecord /\ r.answer = answer
  BY DEF Answered, Provider, Answers

LEMMA ClearedFields ==
  ASSUME NEW p \in Provider
  PROVE  LET r == Cleared(p) IN
         /\ r \in Provider
         /\ r.kind = p.kind /\ r.dialog = p.dialog /\ r.connected = p.connected
         /\ r.deleted = p.deleted /\ r.cvValid = p.cvValid /\ r.size = 0
         /\ r.cvCurrentRecord = p.cvCurrentRecord /\ r.answer = p.answer
  BY BoundsAssumption DEF Cleared, Provider

LEMMA ResetFields ==
  ASSUME NEW p \in Provider
  PROVE  LET r == Reset(p) IN
         /\ r \in Provider
         /\ r.kind = p.kind /\ r.dialog = p.dialog /\ r.connected = p.connected
         /\ r.deleted = p.deleted /\ r.cvValid = p.cvValid /\ r.size = p.size
         /\ r.cvCurrentRecord = -1 /\ r.answer = p.answer
  BY BoundsAssumption DEF Reset, Provider

LEMMA ReadFields ==
  ASSUME NEW p \in Provider, NEW least \in 0..1, NEW r \in ReadOutcomes(p, least)
  PROVE  /\ r \in Provider
         /\ r.kind = p.kind /\ r.dialog = p.dialog /\ r.connected = p.connected
         /\ r.deleted = p.deleted
         /\ r.cvCurrentRecord = p.cvCurrentRecord /\ r.answer = p.answer
  <1>1. CASE r = Unread(p)
    <2>1. 0 \in 0..MaxRecords
      BY BoundsAssumption
    <2> QED  BY <1>1, <2>1 DEF Unread, Provider
  <1>2. ASSUME NEW n \in 0..MaxRecords, r = Reads(p, n)
        PROVE  /\ r \in Provider
               /\ r.kind = p.kind /\ r.dialog = p.dialog /\ r.connected = p.connected
               /\ r.deleted = p.deleted
               /\ r.cvCurrentRecord = p.cvCurrentRecord /\ r.answer = p.answer
    BY <1>2, BoundsAssumption DEF Reads, Provider
  <1>3. least..MaxRecords \subseteq 0..MaxRecords
    BY BoundsAssumption
  <1> QED  BY <1>1, <1>2, <1>3 DEF ReadOutcomes

LEMMA DeletedFields ==
  ASSUME NEW p \in Provider
  PROVE  LET r == Deleted(p) IN
         /\ r \in Provider
         /\ r.kind = p.kind /\ (r.dialog => p.dialog) /\ r.connected = p.connected
         /\ r.deleted = TRUE /\ r.cvValid = p.cvValid /\ r.size = p.size
         /\ r.cvCurrentRecord = p.cvCurrentRecord /\ r.answer = p.answer
  <1> DEFINE open == p.dialog /\ p.kind = "text"
             r == [p EXCEPT !.deleted = TRUE, !.dialog = open]
  <1>1. open \in BOOLEAN /\ (open => p.dialog)
    BY Zenon
  <1>2. Deleted(p) = r
    BY DEF Deleted
  <1> HIDE DEF open
  <1>3. /\ r \in Provider /\ r.dialog = open
        /\ r.kind = p.kind /\ r.connected = p.connected
        /\ r.deleted = TRUE /\ r.cvValid = p.cvValid /\ r.size = p.size
        /\ r.cvCurrentRecord = p.cvCurrentRecord /\ r.answer = p.answer
    BY <1>1 DEF Provider
  <1> QED  BY <1>1, <1>2, <1>3

\* A provider given to the table.
Given(p) == [p EXCEPT !.connected = FALSE,
                      !.cvCurrentRecord = After(Reset(p), p.size)]

LEMMA GivenFields ==
  ASSUME NEW p \in Provider
  PROVE  LET r == Given(p) IN
         /\ r \in Provider
         /\ r.kind = p.kind /\ r.dialog = p.dialog /\ r.connected = FALSE
         /\ r.deleted = p.deleted /\ r.cvValid = p.cvValid /\ r.size = p.size
         /\ r.answer = p.answer
  <1>1. After(Reset(p), p.size) \in -1..MaxRecords - 1
    BY ResetFields, BoundsAssumption DEF After, Provider
  <1> QED  BY <1>1 DEF Given, Provider

\* All its records are read, from the first one.
LEMMA AllRecords ==
  ASSUME NEW p \in Provider
  PROVE  /\ Following(Reset(p), p.size) = 0..p.size - 1
         /\ 0..p.size - 1 \subseteq 0..MaxRecords - 1
  BY ResetFields, BoundsAssumption DEF Following, Provider

-----------------------------------------------------------------------------
(* A provider is ready.                                                    *)

LEMMA ReadyStep ==
  ASSUME TypeOK, NEW ps \in Seq(Provider), NEW p \in DOMAIN ps,
         Len(ps) <= MaxProviders, cvDataProvider' = Len(ps), table <= Len(ps),
         EachInv(ps), TableInv(ps, table, FALSE), RecordInv(ps, table),
         undefined = FALSE, Ready(ps, p)
  PROVE  /\ providers' \in Seq(Provider) /\ Len(providers') = Len(ps)
         /\ table' \in 0..Len(ps) /\ rows' \subseteq 0..MaxRecords - 1
         /\ undefined' \in BOOLEAN
         /\ EachInv(providers') /\ TableInv(providers', table', undefined')
         /\ RecordInv(providers', table')
  <1> DEFINE d == Len(ps)
  <1>1. d \in DOMAIN ps /\ d \in Nat /\ table \in 0..d
    BY DEF TypeOK, Made
  <1>2. CASE UNCHANGED <<table, rows, undefined>> /\ providers' = ps
    BY <1>1, <1>2 DEF TypeOK
  <1>3. CASE undefined' = TRUE /\ providers' = ps /\ UNCHANGED <<table, rows>>
    BY <1>1, <1>3 DEF TypeOK, TableInv
  <1>4. CASE ~ps[d].deleted /\ Install(ps, d)
    <2>1. ps[d] \in Provider
      BY <1>1
    <2>2. rows' \subseteq 0..MaxRecords - 1
      BY <1>4, <2>1, AllRecords DEF Install
    <2>3. /\ table' = d /\ undefined' = (table = d)
          /\ providers' = [q \in DOMAIN ps |-> IF q = table THEN Deleted(ps[q])
                                               ELSE IF q = d THEN Given(ps[q])
                                               ELSE ps[q]]
      BY <1>4, Zenon DEF Install, Given
    <2>4. undefined' \in BOOLEAN /\ (undefined' <=> table = d)
      BY <2>3, Zenon
    <2>5. ASSUME NEW q \in DOMAIN ps
          PROVE  ps[q] \in Provider /\ Deleted(ps[q]) \in Provider
                 /\ Given(ps[q]) \in Provider
      <3>1. ps[q] \in Provider
        OBVIOUS
      <3> QED  BY <3>1, DeletedFields, GivenFields
    <2>6. providers' \in Seq(Provider) /\ Len(providers') = d
      BY <2>3, <2>5
    <2>7. EachInv(providers')
      <3> SUFFICES ASSUME NEW q \in DOMAIN ps
                   PROVE  /\ providers'[q].dialog => providers'[q].answer = "none"
                          /\ providers'[q].dialog /\ providers'[q].kind = "gps"
                               => ~providers'[q].cvValid
                          /\ providers'[q].deleted => ~providers'[q].connected
        BY <2>3 DEF EachInv
      <3>1. CASE q = table
        <4>1. ps[q] \in Provider /\ providers'[q] = Deleted(ps[q])
          BY <2>3, <3>1
        <4>2. q # 0 /\ ~ps[q].connected
          BY <3>1 DEF TableInv
        <4> DEFINE r == Deleted(ps[q])
        <4>3. /\ r.dialog => ps[q].dialog
              /\ r.kind = ps[q].kind /\ r.connected = ps[q].connected
              /\ r.cvValid = ps[q].cvValid /\ r.answer = ps[q].answer
          BY <4>1, DeletedFields
        <4> HIDE DEF r
        <4>4. /\ r.dialog => r.answer = "none"
              /\ r.dialog /\ r.kind = "gps" => ~r.cvValid
              /\ ~r.connected
          BY <4>2, <4>3 DEF EachInv
        <4> QED  BY <4>1, <4>4 DEF r
      <3>2. CASE q # table /\ q = d
        BY <1>4, <2>3, <2>5, <3>2, GivenFields DEF EachInv
      <3>3. CASE q # table /\ q # d
        BY <2>3, <2>5, <3>3 DEF EachInv
      <3> QED  BY <3>1, <3>2, <3>3
    <2>8. TableInv(providers', table', undefined')
      <3>1. CASE table = d
        BY <1>1, <2>3, <2>4, <2>5, <3>1, DeletedFields DEF TableInv
      <3>2. CASE table # d
        BY <1>1, <1>4, <2>3, <2>4, <2>5, <3>2, GivenFields DEF TableInv
      <3> QED  BY <3>1, <3>2
    <2>9. RecordInv(providers', table')
      <3>1. \A q \in DOMAIN ps : Deleted(ps[q]).deleted
        BY <2>5, DeletedFields
      <3> QED  BY <2>3, <3>1 DEF RecordInv
    <2> QED  BY <1>1, <2>2, <2>3, <2>4, <2>6, <2>7, <2>8, <2>9
  <1> QED  BY <1>2, <1>3, <1>4 DEF Ready

\* Without overlap the provider that is ready is the last, and it was heard.
LEMMA ReadyAlone ==
  ASSUME TypeOK, NEW ps \in Seq(Provider), NEW p \in DOMAIN ps, p = Len(ps),
         cvDataProvider' = Len(ps), table <= Len(ps),
         EachInv(ps), TableInv(ps, table, FALSE), undefined = FALSE,
         ps[p].connected, \A q \in DOMAIN ps : ~ps[q].dialog,
         AcceptedInv(ps, table, p), table # 0 => Shows(ps[table], rows),
         ps[p].cvValid =>
           \/ ps[p].answer = "accepted"
           \/ ps[p].answer = "cancelled" /\ ps[p].kind = "text" /\ ps[p].size = 0,
         Ready(ps, p)
  PROVE  /\ OpenInv(providers') /\ ~undefined'
         /\ AcceptedInv(providers', table', 0)
         /\ table' # 0 => Shows(providers'[table'], rows')
  <1>1. p \in Nat /\ p # 0 /\ table \in 0..p /\ ps[p] \in Provider
    BY DEF TypeOK, Made
  <1>2. ~ps[p].deleted /\ table # p
    BY <1>1 DEF EachInv, TableInv
  <1>3. CASE ~ps[p].cvValid
    <2>1. UNCHANGED <<table, rows, undefined>> /\ providers' = ps
      BY <1>2, <1>3 DEF Ready
    <2> QED  BY <1>3, <2>1 DEF OpenInv, AcceptedInv
  <1>4. CASE ps[p].cvValid
    <2>1. Install(ps, p)
      BY <1>2, <1>4 DEF Ready
    <2>2. /\ table' = p /\ rows' = Following(Reset(ps[p]), ps[p].size)
          /\ undefined' = (table = p)
          /\ providers' = [q \in DOMAIN ps |-> IF q = table THEN Deleted(ps[q])
                                               ELSE IF q = p THEN Given(ps[q])
                                               ELSE ps[q]]
      BY <2>1, Zenon DEF Install, Given
    <2>3. ~undefined'
      BY <1>2, <2>2, Zenon
    <2>4. ASSUME NEW q \in DOMAIN ps PROVE ~providers'[q].dialog
      <3>1. ps[q] \in Provider /\ ~ps[q].dialog
        OBVIOUS
      <3>2. ~Deleted(ps[q]).dialog /\ ~Given(ps[q]).dialog
        BY <3>1, DeletedFields, GivenFields
      <3> QED  BY <2>2, <3>1, <3>2
    <2>5. OpenInv(providers')
      BY <2>2, <2>4 DEF OpenInv
    <2>6. AcceptedInv(providers', table', 0)
      BY <1>1, <2>2 DEF AcceptedInv
    <2>7. providers'[p] = Given(ps[p]) /\ rows' = 0..ps[p].size - 1
      BY <1>1, <1>2, <2>2, AllRecords
    <2>8. Shows(Given(ps[p]), 0..ps[p].size - 1)
      <3> DEFINE r == Given(ps[p])
      <3>1. /\ ~r.deleted /\ r.cvValid /\ r.size = ps[p].size
            /\ r.answer = ps[p].answer /\ r.kind = ps[p].kind
        BY <1>1, <1>2, <1>4, GivenFields
      <3>2. ps[p].size = 0 => 0..ps[p].size - 1 = {}
        OBVIOUS
      <3> HIDE DEF r
      <3>3. Shows(r, 0..ps[p].size - 1)
        BY <1>4, <3>1, <3>2 DEF Shows
      <3> QED  BY <3>3 DEF r
    <2> QED  BY <2>2, <2>3, <2>5, <2>6, <2>7, <2>8
  <1> QED  BY <1>3, <1>4

-----------------------------------------------------------------------------
(* A provider is made, or changed.                                         *)

\* What an open dialog and a deletion mean for one provider.
Sound(r) ==
  /\ r.dialog => r.answer = "none"
  /\ r.dialog /\ r.kind = "gps" => ~r.cvValid
  /\ r.deleted => ~r.connected

LEMMA MakeProvider ==
  ASSUME Inv, undefined = FALSE, Len(providers) < MaxProviders,
         NEW n \in Provider, Sound(n), n.answer # "accepted", n.cvCurrentRecord = -1
  PROVE  LET ps == Append(providers, n) IN
         /\ ps \in Seq(Provider) /\ Len(ps) = cvDataProvider + 1
         /\ Len(ps) \in DOMAIN ps /\ ps[Len(ps)] = n
         /\ Len(ps) <= MaxProviders /\ table <= Len(ps)
         /\ \A q \in DOMAIN ps : q # Len(ps) => q \in Made /\ ps[q] = providers[q]
         /\ EachInv(ps) /\ TableInv(ps, table, FALSE) /\ RecordInv(ps, table)
         /\ ~overlapped => /\ AcceptedInv(ps, table, 0)
                           /\ table # 0 => Shows(ps[table], rows)
  <1> DEFINE ps == Append(providers, n)
  <1>1. /\ providers \in Seq(Provider) /\ Len(providers) \in Nat
        /\ cvDataProvider = Len(providers) /\ table \in 0..Len(providers)
    BY DEF Inv, TypeOK, Made
  <1>2. /\ ps \in Seq(Provider) /\ Len(ps) = Len(providers) + 1
        /\ DOMAIN ps = 1..Len(providers) + 1 /\ ps[Len(ps)] = n
        /\ \A q \in 1..Len(providers) : ps[q] = providers[q]
    BY <1>1
  <1>3. \A q \in DOMAIN ps : q # Len(ps) => q \in Made /\ ps[q] = providers[q]
    BY <1>1, <1>2 DEF Made
  <1>4. EachInv(ps)
    BY <1>2, <1>3 DEF EachInv, Sound, Inv, Made
  <1>5. table # 0 => ps[table] = providers[table]
    BY <1>1, <1>2
  <1>6. TableInv(ps, table, FALSE)
    BY <1>5 DEF TableInv, Inv
  <1>7. ~overlapped => AcceptedInv(ps, table, 0)
    BY <1>1, <1>2, <1>3 DEF AcceptedInv, Inv, Made
  <1>8. ~overlapped => (table # 0 => Shows(ps[table], rows))
    BY <1>5 DEF Inv
  <1>9. Len(providers) + 1 <= MaxProviders
    BY <1>1, BoundsAssumption
  <1>10. /\ Len(ps) = cvDataProvider + 1 /\ Len(ps) \in DOMAIN ps
         /\ Len(ps) <= MaxProviders /\ table <= Len(ps)
    BY <1>1, <1>2, <1>9
  <1>11. RecordInv(ps, table)
    BY <1>2, <1>3 DEF RecordInv, Inv, Made
  <1> QED  BY <1>2, <1>3, <1>4, <1>6, <1>7, <1>8, <1>10, <1>11

LEMMA ChangeProvider ==
  ASSUME Inv, undefined = FALSE, NEW p \in Made, providers[p].dialog,
         NEW n \in Provider, Sound(n), n.connected = providers[p].connected,
         n.deleted = providers[p].deleted,
         n.deleted \/ n.cvCurrentRecord \in {-1, providers[p].cvCurrentRecord}
  PROVE  LET ps == [providers EXCEPT ![p] = n] IN
         /\ ps \in Seq(Provider) /\ Len(ps) = cvDataProvider
         /\ p \in DOMAIN ps /\ DOMAIN ps = Made /\ ps[p] = n
         /\ Len(ps) <= MaxProviders /\ table <= Len(ps)
         /\ \A q \in Made : q # p => ps[q] = providers[q]
         /\ EachInv(ps) /\ TableInv(ps, table, FALSE) /\ RecordInv(ps, table)
         /\ ~overlapped => /\ p = Len(ps) /\ n.connected
                           /\ providers[p].cvCurrentRecord = -1
                           /\ \A q \in Made : q # p => ~ps[q].dialog
                           /\ AcceptedInv(ps, table, p)
                           /\ table # 0 => Shows(ps[table], rows)
  <1> DEFINE ps == [providers EXCEPT ![p] = n]
  <1>1. /\ providers \in Seq(Provider) /\ Len(providers) \in Nat
        /\ cvDataProvider = Len(providers) /\ table \in Made \cup {0}
        /\ Len(providers) <= MaxProviders /\ Made = 1..Len(providers)
    BY DEF Inv, TypeOK, Made
  <1>2. /\ ps \in Seq(Provider) /\ Len(ps) = Len(providers)
        /\ DOMAIN ps = Made /\ ps[p] = n
        /\ \A q \in Made : q # p => ps[q] = providers[q]
    BY <1>1 DEF Made
  <1>3. EachInv(ps)
    BY <1>2 DEF EachInv, Sound, Inv, Made
  <1>4. TableInv(ps, table, FALSE)
    BY <1>1, <1>2 DEF TableInv, Inv
  <1>5. ASSUME ~overlapped
        PROVE  /\ p = Len(ps) /\ n.connected
               /\ providers[p].cvCurrentRecord = -1
               /\ \A q \in Made : q # p => ~ps[q].dialog
               /\ AcceptedInv(ps, table, p)
               /\ table # 0 => Shows(ps[table], rows)
    <2>1. /\ OpenInv(providers) /\ AcceptedInv(providers, table, 0)
          /\ table # 0 => Shows(providers[table], rows)
      BY <1>5 DEF Inv
    <2>2. p = Len(ps) /\ n.connected /\ providers[p].cvCurrentRecord = -1
      BY <1>2, <2>1 DEF OpenInv, Made
    <2>3. \A q \in Made : q # p => ~ps[q].dialog
      BY <1>2, <2>1, <2>2 DEF OpenInv, Made
    <2>4. AcceptedInv(ps, table, p)
      BY <1>1, <1>2, <2>1 DEF AcceptedInv, Made
    <2>5. table # p
      <3>1. providers[p].connected /\ p # 0
        BY <1>1, <2>1 DEF OpenInv, Made
      <3> QED  BY <3>1 DEF TableInv, Inv
    <2>6. table # 0 => Shows(ps[table], rows)
      <3>1. table # 0 => ps[table] = providers[table]
        BY <1>1, <1>2, <2>5
      <3> QED  BY <2>1, <3>1
    <2> QED  BY <2>2, <2>3, <2>4, <2>6
  <1>6. Len(ps) = cvDataProvider /\ Len(ps) <= MaxProviders /\ table <= Len(ps)
    BY <1>1, <1>2
  <1>7. RecordInv(ps, table)
    BY <1>2 DEF RecordInv, Inv, Made
  <1> QED  BY <1>2, <1>3, <1>4, <1>5, <1>6, <1>7

-----------------------------------------------------------------------------
(* The operations.                                                         *)

LEMMA InvInit == Init => Inv
  <1> SUFFICES ASSUME Init PROVE Inv
    OBVIOUS
  <1>1. /\ providers = <<>> /\ table = 0 /\ rows = {} /\ preview = {}
        /\ undefined = FALSE /\ overlapped = FALSE /\ typeDialog = FALSE
        /\ cvDataProvider = 0
    BY DEF Init
  <1>2. DOMAIN providers = {} /\ Len(providers) = 0 /\ providers \in Seq(Provider)
    BY <1>1
  <1>3. TypeOK
    <2>1. /\ typeDialog \in BOOLEAN /\ undefined \in BOOLEAN /\ overlapped \in BOOLEAN
          /\ rows \subseteq 0..MaxRecords - 1 /\ preview \subseteq 0..MaxRecords - 1
          /\ table \in DOMAIN providers \cup {0}
      BY <1>1
    <2>2. Len(providers) <= MaxProviders /\ cvDataProvider = Len(providers)
      BY <1>1, <1>2, BoundsAssumption
    <2> QED  BY <1>2, <2>1, <2>2, Zenon DEF TypeOK, Made
  <1> QED  BY <1>1, <1>2, <1>3 DEF Inv, EachInv, TableInv, OpenInv, AcceptedInv,
                                   RecordInv, FirstShown

\* A dialog is used or closed, and the plugin is not told.
LEMMA QuietChange ==
  ASSUME Inv, undefined = FALSE, NEW p \in Made, providers[p].dialog,
         NEW n \in Provider, Sound(n), n.connected = providers[p].connected,
         n.deleted = providers[p].deleted, n.answer = "none",
         n.cvCurrentRecord \in {-1, providers[p].cvCurrentRecord},
         providers' = [providers EXCEPT ![p] = n],
         undefined' \in BOOLEAN, undefined' => overlapped,
         UNCHANGED <<typeDialog, cvDataProvider, table, rows, overlapped>>,
         preview' \subseteq 0..MaxRecords - 1, FirstShown'
  PROVE  Inv'
  <1>1. /\ providers' \in Seq(Provider) /\ Len(providers') = cvDataProvider
        /\ DOMAIN providers' = Made /\ providers'[p] = n
        /\ Len(providers') <= MaxProviders
        /\ EachInv(providers') /\ TableInv(providers', table, FALSE)
        /\ RecordInv(providers', table)
    BY ChangeProvider
  <1>2. TypeOK'
    BY <1>1 DEF Inv, TypeOK, Made
  <1>3. ASSUME ~overlapped
        PROVE  /\ OpenInv(providers') /\ AcceptedInv(providers', table, 0)
               /\ table # 0 => Shows(providers'[table], rows)
    <2>1. /\ p = Len(providers') /\ n.connected
          /\ providers[p].cvCurrentRecord = -1
          /\ \A q \in Made : q # p => ~providers'[q].dialog
          /\ AcceptedInv(providers', table, p)
          /\ table # 0 => Shows(providers'[table], rows)
      BY <1>3, ChangeProvider
    <2>2. OpenInv(providers')
      BY <1>1, <1>3, <2>1 DEF OpenInv
    <2>3. AcceptedInv(providers', table, 0)
      BY <1>1, <2>1 DEF AcceptedInv
    <2> QED  BY <2>1, <2>2, <2>3
  <1>4. TableInv(providers', table', undefined')
    BY <1>1 DEF TableInv
  <1> QED  BY <1>1, <1>2, <1>3, <1>4 DEF Inv

\* A dialog is answered: its provider, changed by that, is ready.
LEMMA AnsweredChange ==
  ASSUME Inv, undefined = FALSE, NEW p \in Made, providers[p].dialog,
         NEW n \in Provider, Sound(n), n.connected = providers[p].connected,
         n.deleted = providers[p].deleted, n.dialog = FALSE,
         n.cvCurrentRecord = providers[p].cvCurrentRecord,
         n.cvValid => \/ n.answer = "accepted"
                      \/ n.answer = "cancelled" /\ n.kind = "text" /\ n.size = 0,
         Ready([providers EXCEPT ![p] = n], p),
         UNCHANGED <<typeDialog, cvDataProvider, preview, overlapped>>
  PROVE  Inv'
  <1> DEFINE ps == [providers EXCEPT ![p] = n]
  <1>1. /\ ps \in Seq(Provider) /\ Len(ps) = cvDataProvider
        /\ p \in DOMAIN ps /\ DOMAIN ps = Made /\ ps[p] = n
        /\ Len(ps) <= MaxProviders /\ table <= Len(ps)
        /\ EachInv(ps) /\ TableInv(ps, table, FALSE) /\ RecordInv(ps, table)
    BY ChangeProvider
  <1>2. ~overlapped => /\ p = Len(ps) /\ n.connected
                       /\ \A q \in Made : q # p => ~ps[q].dialog
                       /\ AcceptedInv(ps, table, p)
                       /\ table # 0 => Shows(ps[table], rows)
    BY ChangeProvider
  <1>3. TypeOK /\ cvDataProvider' = Len(ps) /\ Ready(ps, p)
    BY <1>1 DEF Inv
  <1> HIDE DEF ps
  <1>4. /\ providers' \in Seq(Provider) /\ Len(providers') = Len(ps)
        /\ table' \in 0..Len(ps) /\ rows' \subseteq 0..MaxRecords - 1
        /\ undefined' \in BOOLEAN
        /\ EachInv(providers') /\ TableInv(providers', table', undefined')
        /\ RecordInv(providers', table')
    BY <1>1, <1>3, ReadyStep
  <1>5. TypeOK'
    BY <1>1, <1>3, <1>4 DEF TypeOK, Made
  <1>6. ASSUME ~overlapped
        PROVE  /\ OpenInv(providers') /\ ~undefined'
               /\ AcceptedInv(providers', table', 0)
               /\ table' # 0 => Shows(providers'[table'], rows')
    <2>1. \A q \in DOMAIN ps : ~ps[q].dialog
      BY <1>1, <1>2, <1>6
    <2> QED  BY <1>1, <1>2, <1>3, <1>6, <2>1, ReadyAlone
  <1>7. FirstShown'
    BY DEF Inv, FirstShown
  <1> QED  BY <1>4, <1>5, <1>6, <1>7 DEF Inv

\* overlapped after a provider was made.
LEMMA Overlap ==
  ASSUME Inv, overlapped' = (overlapped \/ Configuring)
  PROVE  /\ overlapped' \in BOOLEAN
         /\ ~overlapped' => ~overlapped /\ \A q \in Made : ~providers[q].dialog
  BY Zenon DEF Configuring

LEMMA SelectStep ==
  ASSUME Inv, undefined = FALSE, NEW kind \in {"text", "gps"}, SelectDataProvider(kind)
  PROVE  Inv'
  <1>1. PICK p \in IF kind = "text" THEN ReadOutcomes(Fresh(kind), 1) ELSE {Fresh(kind)} :
          providers' = Append(providers, [p EXCEPT !.dialog = TRUE])
    BY DEF SelectDataProvider
  <1> DEFINE n == [p EXCEPT !.dialog = TRUE]
             ps == Append(providers, n)
  <1>2. /\ Len(providers) < MaxProviders /\ typeDialog' = FALSE
        /\ cvDataProvider' = cvDataProvider + 1
        /\ overlapped' = (overlapped \/ Configuring)
        /\ UNCHANGED <<table, rows, preview, undefined>>
    BY DEF SelectDataProvider
  <1>3. /\ p \in Provider /\ p.kind = kind /\ p.connected = TRUE
        /\ p.deleted = FALSE /\ p.cvCurrentRecord = -1 /\ p.answer = "none"
        /\ kind = "gps" => p.cvValid = FALSE
    <2> DEFINE f == Fresh(kind)
    <2>1. /\ f \in Provider /\ f.kind = kind /\ f.connected = TRUE
          /\ f.deleted = FALSE /\ f.cvCurrentRecord = -1 /\ f.answer = "none"
          /\ f.cvValid = FALSE
      BY FreshFields
    <2>2. p = f \/ (p \in ReadOutcomes(f, 1) /\ kind = "text")
      BY <1>1
    <2> HIDE DEF f
    <2>3. CASE p \in ReadOutcomes(f, 1) /\ kind = "text"
      BY <2>1, <2>3, ReadFields
    <2>4. CASE p = f
      BY <2>1, <2>4
    <2> QED  BY <2>2, <2>3, <2>4
  <1>4. /\ n \in Provider /\ n.kind = kind /\ n.dialog = TRUE /\ n.connected = TRUE
        /\ n.deleted = FALSE /\ n.cvValid = p.cvValid
        /\ n.cvCurrentRecord = -1 /\ n.answer = "none"
    BY <1>3 DEF Provider
  <1> HIDE DEF n
  <1>5. Sound(n) /\ n.answer # "accepted"
    BY <1>3, <1>4 DEF Sound
  <1>6. /\ ps \in Seq(Provider) /\ Len(ps) = cvDataProvider + 1
        /\ Len(ps) \in DOMAIN ps /\ ps[Len(ps)] = n
        /\ Len(ps) <= MaxProviders /\ table <= Len(ps)
        /\ \A q \in DOMAIN ps : q # Len(ps) => q \in Made /\ ps[q] = providers[q]
        /\ EachInv(ps) /\ TableInv(ps, table, FALSE) /\ RecordInv(ps, table)
        /\ ~overlapped => /\ AcceptedInv(ps, table, 0)
                          /\ table # 0 => Shows(ps[table], rows)
    BY <1>2, <1>4, <1>5, MakeProvider
  <1>7. providers' = ps
    BY <1>1 DEF n
  <1> HIDE DEF ps
  <1>8. /\ overlapped' \in BOOLEAN
        /\ ~overlapped' => ~overlapped /\ \A q \in Made : ~providers[q].dialog
    BY <1>2, Overlap
  <1>9. table \in DOMAIN ps \cup {0}
    BY <1>6 DEF Inv, TypeOK, Made
  <1>10. TypeOK'
    BY <1>2, <1>6, <1>7, <1>8, <1>9 DEF Inv, TypeOK, Made
  <1>11. ~overlapped' => OpenInv(ps)
    BY <1>4, <1>6, <1>8 DEF OpenInv
  <1>12. ~overlapped' => FirstShown
    BY DEF Inv
  <1>13. FirstShown'
    BY <1>2, <1>8, <1>12 DEF FirstShown
  <1> QED  BY <1>2, <1>6, <1>7, <1>8, <1>10, <1>11, <1>13 DEF Inv

LEMMA NoFileStep ==
  ASSUME Inv, undefined = FALSE, NEW kind \in {"text", "gps"}, NoFileSelected(kind)
  PROVE  Inv'
  <1> DEFINE n == Answered(Fresh(kind), "cancelled")
             ps == Append(providers, n)
  <1>1. /\ Len(providers) < MaxProviders /\ typeDialog' = FALSE
        /\ cvDataProvider' = cvDataProvider + 1
        /\ overlapped' = (overlapped \/ Configuring)
        /\ preview' = preview /\ Ready(ps, cvDataProvider')
    BY DEF NoFileSelected
  <1>2. /\ n \in Provider /\ n.dialog = FALSE /\ n.connected = TRUE
        /\ n.deleted = FALSE /\ n.cvValid = FALSE /\ n.answer = "cancelled"
        /\ n.cvCurrentRecord = -1
    <2> DEFINE f == Fresh(kind)
    <2>1. /\ f \in Provider /\ f.connected = TRUE /\ f.deleted = FALSE
          /\ f.cvValid = FALSE /\ f.cvCurrentRecord = -1
      BY FreshFields
    <2> HIDE DEF f
    <2>2. LET r == Answered(f, "cancelled") IN
          /\ r \in Provider /\ r.dialog = FALSE /\ r.connected = TRUE
          /\ r.deleted = FALSE /\ r.cvValid = FALSE /\ r.answer = "cancelled"
          /\ r.cvCurrentRecord = -1
      BY <2>1, AnsweredFields DEF Answers
    <2> QED  BY <2>2 DEF f
  <1> HIDE DEF n
  <1>3. Sound(n) /\ n.answer # "accepted"
    BY <1>2 DEF Sound
  <1>4. /\ ps \in Seq(Provider) /\ Len(ps) = cvDataProvider + 1
        /\ Len(ps) \in DOMAIN ps /\ ps[Len(ps)] = n
        /\ Len(ps) <= MaxProviders /\ table <= Len(ps)
        /\ \A q \in DOMAIN ps : q # Len(ps) => q \in Made /\ ps[q] = providers[q]
        /\ EachInv(ps) /\ TableInv(ps, table, FALSE) /\ RecordInv(ps, table)
        /\ ~overlapped => /\ AcceptedInv(ps, table, 0)
                          /\ table # 0 => Shows(ps[table], rows)
    BY <1>1, <1>2, <1>3, MakeProvider
  <1> HIDE DEF ps
  <1>5. TypeOK /\ cvDataProvider' = Len(ps) /\ Ready(ps, Len(ps))
    BY <1>1, <1>4 DEF Inv
  <1>6. /\ providers' \in Seq(Provider) /\ Len(providers') = Len(ps)
        /\ table' \in 0..Len(ps) /\ rows' \subseteq 0..MaxRecords - 1
        /\ undefined' \in BOOLEAN
        /\ EachInv(providers') /\ TableInv(providers', table', undefined')
        /\ RecordInv(providers', table')
    BY <1>4, <1>5, ReadyStep
  <1>7. /\ overlapped' \in BOOLEAN
        /\ ~overlapped' => ~overlapped /\ \A q \in Made : ~providers[q].dialog
    BY <1>1, Overlap
  <1>8. TypeOK'
    <2>1. table' \in DOMAIN providers' \cup {0} /\ Len(providers') <= MaxProviders
      BY <1>4, <1>6
    <2>2. typeDialog' \in BOOLEAN /\ preview' \subseteq 0..MaxRecords - 1
      BY <1>1, <1>5 DEF TypeOK
    <2>3. cvDataProvider' = Len(providers')
      BY <1>5, <1>6
    <2> QED  BY <1>6, <1>7, <2>1, <2>2, <2>3, Zenon DEF TypeOK, Made
  <1>9. ASSUME ~overlapped'
        PROVE  /\ OpenInv(providers') /\ ~undefined'
               /\ AcceptedInv(providers', table', 0)
               /\ table' # 0 => Shows(providers'[table'], rows')
    <2>1. \A q \in DOMAIN ps : ~ps[q].dialog
      BY <1>2, <1>4, <1>7, <1>9
    <2>2. AcceptedInv(ps, table, Len(ps)) /\ (table # 0 => Shows(ps[table], rows))
      BY <1>4, <1>7, <1>9 DEF AcceptedInv
    <2>3. ps[Len(ps)].connected /\ ~ps[Len(ps)].cvValid
      BY <1>2, <1>4
    <2> QED  BY <1>4, <1>5, <2>1, <2>2, <2>3, ReadyAlone
  <1>10. ~overlapped' => FirstShown
    BY DEF Inv
  <1>11. FirstShown'
    BY <1>1, <1>7, <1>10 DEF FirstShown
  <1> QED  BY <1>6, <1>8, <1>9, <1>11 DEF Inv

\* A provider with an open dialog.
LEMMA OpenFields ==
  ASSUME Inv, NEW p \in Made, providers[p].dialog
  PROVE  /\ providers[p] \in Provider /\ Sound(providers[p])
         /\ providers[p].answer = "none"
         /\ providers[p].kind = "gps" => ~providers[p].cvValid
         /\ ~overlapped => providers[p].cvCurrentRecord = -1
  BY DEF Inv, TypeOK, Made, EachInv, OpenInv, Sound

\* The dialog of a deleted provider: it was open with another.
LEMMA DanglingStep ==
  ASSUME Inv, NEW p \in Made, providers[p].dialog, providers[p].deleted, Dangling,
         UNCHANGED <<typeDialog, cvDataProvider, overlapped>>
  PROVE  Inv'
  <1>1. undefined' = TRUE /\ UNCHANGED <<providers, table, rows, preview>>
    BY DEF Dangling
  <1>2. overlapped
    BY DEF Inv, EachInv, OpenInv, Made
  <1>3. TypeOK'
    BY <1>1 DEF Inv, TypeOK, Made
  <1>4. /\ EachInv(providers') /\ TableInv(providers', table', undefined')
        /\ RecordInv(providers', table')
    BY <1>1 DEF Inv, TableInv
  <1>5. FirstShown'
    BY <1>1 DEF Inv, FirstShown
  <1> QED  BY <1>2, <1>3, <1>4, <1>5 DEF Inv

LEMMA ChangedStep ==
  ASSUME Inv, undefined = FALSE, NEW p \in Made, DelimiterChanged(p)
  PROVE  Inv'
  <1>1. providers[p].kind = "text" /\ providers[p].dialog
        /\ UNCHANGED <<typeDialog, cvDataProvider, overlapped>>
    BY DEF DelimiterChanged
  <1>2. CASE providers[p].deleted /\ Dangling
    BY <1>1, <1>2, DanglingStep
  <1>3. CASE ~providers[p].deleted
    <2>1. PICK q \in ReadOutcomes(providers[p], 0) :
            /\ providers' = [providers EXCEPT ![p] = IF PastEnd(q) THEN q ELSE Reset(q)]
            /\ preview' = IF PastEnd(q) THEN preview ELSE Following(q, Previewed(q))
            /\ undefined' = PastEnd(q)
            /\ UNCHANGED <<table, rows>>
      BY <1>3 DEF DelimiterChanged
    <2>2. /\ providers[p] \in Provider /\ Sound(providers[p])
          /\ providers[p].answer = "none"
          /\ ~overlapped => providers[p].cvCurrentRecord = -1
      BY <1>1, OpenFields
    <2>3. /\ q \in Provider
          /\ q.kind = "text" /\ q.connected = providers[p].connected
          /\ q.deleted = providers[p].deleted /\ q.answer = "none"
          /\ q.cvCurrentRecord = providers[p].cvCurrentRecord
      BY <1>1, <2>1, <2>2, ReadFields
    <2> DEFINE n == IF PastEnd(q) THEN q ELSE Reset(q)
    <2>4. /\ n \in Provider
          /\ n.kind = "text" /\ n.connected = providers[p].connected
          /\ n.deleted = providers[p].deleted /\ n.answer = "none"
          /\ n.cvCurrentRecord \in {-1, providers[p].cvCurrentRecord}
      <3>1. CASE PastEnd(q)
        BY <2>3, <3>1
      <3>2. CASE ~PastEnd(q)
        BY <2>3, <3>2, ResetFields
      <3> QED  BY <3>1, <3>2
    <2>5. providers' = [providers EXCEPT ![p] = n]
      BY <2>1
    <2> HIDE DEF n
    <2>6. Sound(n)
      BY <2>2, <2>4 DEF Sound
    <2>7. q.size \in 0..MaxRecords
      BY <2>3 DEF Provider
    <2>8. undefined' \in BOOLEAN /\ (undefined' => overlapped)
      <3>1. PastEnd(q) \in BOOLEAN
        BY DEF PastEnd
      <3>2. ~overlapped => ~PastEnd(q)
        BY <2>2, <2>3, <2>7 DEF PastEnd
      <3> QED  BY <2>1, <3>1, <3>2, Zenon
    <2>9. preview' \subseteq 0..MaxRecords - 1
      <3>1. Following(q, Previewed(q)) \subseteq 0..MaxRecords - 1
        BY <2>7, BoundsAssumption DEF Following
      <3> QED  BY <2>1, <3>1 DEF Inv, TypeOK
    <2>10. ASSUME ~overlapped PROVE preview' \in {{}, {0}, {0, 1}, {0, 1, 2}}
      <3> DEFINE k == Previewed(q)
      <3>1. k \in 0..3 /\ k <= q.size
        BY <2>7 DEF Previewed
      <3>2. ~PastEnd(q)
        BY <2>1, <2>8, <2>10
      <3>3. preview' = {r \in 0..q.size - 1 : r > -1 /\ r <= -1 + k}
        BY <2>1, <2>2, <2>3, <2>10, <3>2 DEF Following
      <3> HIDE DEF k
      <3>4. preview' = 0..k - 1
        BY <2>7, <3>1, <3>3
      <3>5. k = 0 \/ k = 1 \/ k = 2 \/ k = 3
        BY <3>1
      <3>6. 0..0 - 1 = {} /\ 0..1 - 1 = {0} /\ 0..2 - 1 = {0, 1} /\ 0..3 - 1 = {0, 1, 2}
        OBVIOUS
      <3> QED  BY <3>4, <3>5, <3>6
    <2>11. FirstShown'
      BY <1>1, <2>10 DEF FirstShown
    <2> QED  BY <1>1, <2>1, <2>4, <2>5, <2>6, <2>8, <2>9, <2>11, QuietChange
  <1> QED  BY <1>2, <1>3, Zenon DEF DelimiterChanged

\* The dialog is closed, and nothing else of the provider changes.
LEMMA ShutStep ==
  ASSUME Inv, undefined = FALSE, NEW p \in Made, providers[p].dialog,
         providers' = [providers EXCEPT ![p].dialog = FALSE],
         UNCHANGED <<typeDialog, cvDataProvider, table, rows, preview, undefined,
                     overlapped>>
  PROVE  Inv'
  <1> DEFINE n == [providers[p] EXCEPT !.dialog = FALSE]
  <1>1. /\ providers[p] \in Provider /\ Sound(providers[p])
        /\ providers[p].answer = "none"
    BY OpenFields
  <1>2. /\ n \in Provider /\ n.dialog = FALSE /\ n.answer = "none"
        /\ n.connected = providers[p].connected /\ n.deleted = providers[p].deleted
        /\ n.cvCurrentRecord = providers[p].cvCurrentRecord
    BY <1>1 DEF Provider
  <1>3. providers' = [providers EXCEPT ![p] = n]
    OBVIOUS
  <1> HIDE DEF n
  <1>4. Sound(n)
    BY <1>1, <1>2 DEF Sound
  <1>5. preview' \subseteq 0..MaxRecords - 1 /\ FirstShown'
    BY DEF Inv, TypeOK, FirstShown
  <1> QED  BY <1>2, <1>3, <1>4, <1>5, QuietChange

LEMMA TextStep ==
  ASSUME Inv, undefined = FALSE, NEW p \in Made, TextAccepted(p)
  PROVE  Inv'
  <1>1. /\ providers[p].dialog
        /\ UNCHANGED <<typeDialog, cvDataProvider, preview, overlapped>>
    BY DEF TextAccepted
  <1>2. CASE providers[p].deleted /\ Dangling
    BY <1>1, <1>2, DanglingStep
  <1>3. CASE /\ providers' = [providers EXCEPT ![p].dialog = FALSE]
             /\ UNCHANGED <<table, rows, undefined>>
    BY <1>1, <1>3, ShutStep
  <1>4. CASE Ready([providers EXCEPT ![p] = Answered(@, "accepted")], p)
    <2> DEFINE n == Answered(providers[p], "accepted")
    <2>1. providers[p] \in Provider /\ Sound(providers[p])
      BY <1>1, OpenFields
    <2>2. /\ n \in Provider /\ n.dialog = FALSE /\ n.answer = "accepted"
          /\ n.connected = providers[p].connected /\ n.deleted = providers[p].deleted
          /\ n.cvCurrentRecord = providers[p].cvCurrentRecord
      BY <2>1, AnsweredFields DEF Answers
    <2>3. Ready([providers EXCEPT ![p] = n], p)
      BY <1>4
    <2> HIDE DEF n
    <2>4. Sound(n)
      BY <2>1, <2>2 DEF Sound
    <2> QED  BY <1>1, <2>2, <2>3, <2>4, AnsweredChange
  <1> QED  BY <1>2, <1>3, <1>4, Zenon DEF TextAccepted

LEMMA GpsStep ==
  ASSUME Inv, undefined = FALSE, NEW p \in Made, GpsAccepted(p)
  PROVE  Inv'
  <1>1. /\ providers[p].dialog
        /\ UNCHANGED <<typeDialog, cvDataProvider, preview, overlapped>>
    BY DEF GpsAccepted
  <1>2. PICK q \in ReadOutcomes(providers[p], 0) :
          LET r == Answered(q, "accepted") IN
          Ready([providers EXCEPT ![p] = IF q.cvValid THEN r ELSE Cleared(r)], p)
    BY DEF GpsAccepted
  <1> DEFINE r == Answered(q, "accepted")
             n == IF q.cvValid THEN r ELSE Cleared(r)
  <1>3. providers[p] \in Provider /\ Sound(providers[p])
    BY <1>1, OpenFields
  <1>4. /\ q \in Provider /\ q.connected = providers[p].connected
        /\ q.deleted = providers[p].deleted
        /\ q.cvCurrentRecord = providers[p].cvCurrentRecord
    BY <1>2, <1>3, ReadFields
  <1>5. /\ r \in Provider /\ r.dialog = FALSE /\ r.answer = "accepted"
        /\ r.connected = providers[p].connected /\ r.deleted = providers[p].deleted
        /\ r.cvCurrentRecord = providers[p].cvCurrentRecord
    BY <1>4, AnsweredFields DEF Answers
  <1>6. Ready([providers EXCEPT ![p] = n], p)
    BY <1>2
  <1> HIDE DEF r
  <1>7. /\ n \in Provider /\ n.dialog = FALSE /\ n.answer = "accepted"
        /\ n.connected = providers[p].connected /\ n.deleted = providers[p].deleted
        /\ n.cvCurrentRecord = providers[p].cvCurrentRecord
    <2>1. CASE q.cvValid
      BY <1>5, <2>1
    <2>2. CASE ~q.cvValid
      BY <1>5, <2>2, ClearedFields
    <2> QED  BY <2>1, <2>2
  <1> HIDE DEF n
  <1>8. Sound(n)
    BY <1>3, <1>7 DEF Sound
  <1> QED  BY <1>1, <1>6, <1>7, <1>8, AnsweredChange

LEMMA CancelStep ==
  ASSUME Inv, undefined = FALSE, NEW p \in Made, Cancelled(p)
  PROVE  Inv'
  <1>1. /\ providers[p].dialog
        /\ UNCHANGED <<typeDialog, cvDataProvider, preview, overlapped>>
    BY DEF Cancelled
  <1>2. CASE providers[p].deleted /\ Dangling
    BY <1>1, <1>2, DanglingStep
  <1>3. CASE Ready([providers EXCEPT ![p] = Cleared(Answered(@, "cancelled"))], p)
    <2> DEFINE r == Answered(providers[p], "cancelled")
               n == Cleared(r)
    <2>1. /\ providers[p] \in Provider /\ Sound(providers[p])
          /\ providers[p].kind = "gps" => ~providers[p].cvValid
      BY <1>1, OpenFields
    <2>2. /\ r \in Provider /\ r.dialog = FALSE /\ r.answer = "cancelled"
          /\ r.kind = providers[p].kind /\ r.cvValid = providers[p].cvValid
          /\ r.connected = providers[p].connected /\ r.deleted = providers[p].deleted
          /\ r.cvCurrentRecord = providers[p].cvCurrentRecord
      BY <2>1, AnsweredFields DEF Answers
    <2>3. Ready([providers EXCEPT ![p] = n], p)
      BY <1>3
    <2> HIDE DEF r
    <2>4. /\ n \in Provider /\ n.dialog = FALSE /\ n.answer = "cancelled" /\ n.size = 0
          /\ n.kind = providers[p].kind /\ n.cvValid = providers[p].cvValid
          /\ n.connected = providers[p].connected /\ n.deleted = providers[p].deleted
          /\ n.cvCurrentRecord = providers[p].cvCurrentRecord
      BY <2>2, ClearedFields
    <2> HIDE DEF n
    <2>5. Sound(n)
      BY <2>1, <2>4 DEF Sound
    <2>6. n.cvValid => n.kind = "text"
      BY <2>1, <2>4 DEF Provider
    <2> QED  BY <1>1, <2>3, <2>4, <2>5, <2>6, AnsweredChange
  <1> QED  BY <1>2, <1>3, Zenon DEF Cancelled

LEMMA InvStep == Inv /\ [Next]_vars => Inv'
  <1> SUFFICES ASSUME Inv, [Next]_vars PROVE Inv'
    OBVIOUS
  <1>1. CASE UNCHANGED vars
    BY <1>1 DEF vars, Inv, TypeOK, Made, FirstShown
  <1>2. CASE Next
    <2>1. undefined = FALSE
      BY <1>2 DEF Next, Inv, TypeOK
    <2>2. CASE ShowAvailableDataProviders \/ NothingSelected
      <3>1. /\ typeDialog' \in BOOLEAN
            /\ UNCHANGED <<cvDataProvider, providers, table, rows, preview, undefined,
                           overlapped>>
        BY <2>2 DEF ShowAvailableDataProviders, NothingSelected
      <3>2. TypeOK'
        BY <3>1 DEF Inv, TypeOK, Made
      <3>3. FirstShown'
        BY <3>1 DEF Inv, FirstShown
      <3> QED  BY <3>1, <3>2, <3>3 DEF Inv
    <2>3. ASSUME NEW kind \in {"text", "gps"},
                 SelectDataProvider(kind) \/ NoFileSelected(kind)
          PROVE  Inv'
      BY <2>1, <2>3, SelectStep, NoFileStep
    <2>4. ASSUME NEW p \in Made,
                 DelimiterChanged(p) \/ TextAccepted(p) \/ GpsAccepted(p) \/ Cancelled(p)
          PROVE  Inv'
      BY <2>1, <2>4, ChangedStep, TextStep, GpsStep, CancelStep
    <2>5. ASSUME NEW p \in Made, Closed(p) PROVE Inv'
      BY <2>1, <2>5, ShutStep DEF Closed
    <2> QED  BY <1>2, <2>2, <2>3, <2>4, <2>5 DEF Next
  <1> QED  BY <1>1, <1>2

LEMMA InvAlways == Spec => []Inv
  BY InvInit, InvStep, PTL DEF Spec

-----------------------------------------------------------------------------
(* The theorems.                                                           *)

\* Every variable keeps its type, for any number of providers and records.
THEOREM TypeCorrect == Spec => []TypeOK
  <1>1. Inv => TypeOK  BY DEF Inv
  <1> QED  BY <1>1, InvAlways, PTL

\* Unless two dialogs were open at once, the table has all the records of the
\* provider confirmed last, however many were made, cancelled or closed.
THEOREM ConfirmedShown == Spec => []TableIsConfirmed
  <1>1. Inv => TableIsConfirmed
    <2> SUFFICES ASSUME Inv, ~overlapped
                 PROVE  /\ ~undefined
                        /\ \A p \in Made :
                             providers[p].answer = "accepted" /\ providers[p].cvValid
                               => p <= table
                        /\ table # 0 => Shows(providers[table], rows)
      BY DEF TableIsConfirmed, Shows
    <2>1. \A p \in Made : p # 0
      BY DEF Inv, TypeOK, Made
    <2> QED  BY <2>1 DEF Inv, AcceptedInv, Made
  <1> QED  BY <1>1, InvAlways, PTL

\* A preview begins with the file's first record, however often it is read, and
\* only the table's provider can be read after its last one.
THEOREM PreviewCorrect == Spec => []PreviewFromFirst
  <1>1. Inv => PreviewFromFirst
    BY DEF Inv, PreviewFromFirst, RecordInv, FirstShown, Made
  <1> QED  BY <1>1, InvAlways, PTL

\* Unless two dialogs were open at once, the plugin listens to the open one.
THEOREM AnswersHeard == Spec => []AnswerIsHeard
  <1>1. Inv => AnswerIsHeard
    BY DEF Inv, AnswerIsHeard, OpenInv, Made
  <1> QED  BY <1>1, InvAlways, PTL

\* Only the provider that the table had is ever deleted, with or without overlap.
THEOREM DeletedOnce == Spec => []DeletedWhenReplaced
  <1>1. Inv => DeletedWhenReplaced
    <2> SUFFICES ASSUME Inv, NEW p \in Made, providers[p].deleted
                 PROVE  ~providers[p].connected /\ (p # table \/ undefined)
      BY DEF DeletedWhenReplaced
    <2>1. p # 0
      BY DEF Inv, TypeOK, Made
    <2>2. ~providers[p].connected
      BY DEF Inv, EachInv, Made
    <2>3. p # table \/ undefined
      BY <2>1 DEF Inv, TableInv
    <2> QED  BY <2>2, <2>3
  <1> QED  BY <1>1, InvAlways, PTL
=============================================================================
