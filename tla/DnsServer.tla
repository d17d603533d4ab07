----------------------------- MODULE DnsServer ------------------------------
(***************************************************************************)
(* Zones and answers of the DNS server (internal/server/dns/server.go).    *)
(*                                                                         *)
(* An environment variable SIDEQUEST_DNS_ZONE_<key>_<type>=<value> is an   *)
(* entry.  A key spells a name with dots or underscores, in capitals or    *)
(* not, and Canonical gives the name it stands for.  A question may use    *)
(* capitals, which Lower takes away, but its underscores stay.  A record   *)
(* is told apart by its name, its type and the entry it comes from.        *)
(***************************************************************************)
EXTENDS Naturals, Sequences

CONSTANTS
    Spellings,   \* ways to write the names, in keys and in questions
    Canonical,   \* Canonical[s]: the name that a key s stands for
    Lower,       \* Lower[s]: s without capitals
    RecordTypes, \* the types the switch of loadZonesFromEnv knows
    OtherType,   \* any other type
    AnyType,     \* the question for every type
    Apex,        \* sidequest.local.
    Wildcard,    \* *.sidequest.local.
    Address      \* the type A

DnsNames == {Canonical[s] : s \in Spellings}
QueryTypes == RecordTypes \union {OtherType, AnyType}

ASSUME DnsAssumption ==
    /\ Canonical \in [Spellings -> Spellings]
    /\ Lower \in [Spellings -> Spellings]
    /\ \A n \in DnsNames : Canonical[n] = n /\ Lower[n] = n
    /\ Apex \in DnsNames /\ Wildcard \in DnsNames /\ Apex # Wildcard
    /\ Address \in RecordTypes
    /\ OtherType \notin RecordTypes /\ AnyType \notin RecordTypes \union {OtherType}

\* parses: NewRR accepts the name and the value as a record of the type.
Entry == [key : Spellings, type : RecordTypes \union {OtherType}, parses : BOOLEAN]

Questions == [name : Spellings, type : QueryTypes]

Own == 0 \* the origin of the records of addDefaultZone

-----------------------------------------------------------------------------
\* What a loop over s leaves that appends the elements at the places in J.
Kept(s, J) ==
    LET upTo[n \in 0 .. Len(s)] ==
            IF n = 0 THEN << >>
            ELSE IF n \in J THEN Append(upTo[n - 1], s[n]) ELSE upTo[n - 1]
    IN  upTo[Len(s)]

Named(records, n) == {i \in DOMAIN records : records[i].name = n}

\* The records of the entries, in the order of the environment.
Parsed(environ) ==
    LET record == [i \in DOMAIN environ |->
            [name |-> Canonical[environ[i].key], type |-> environ[i].type, origin |-> i]]
    IN  Kept(record, {i \in DOMAIN environ : environ[i].parses /\ environ[i].type \in RecordTypes})

\* Mutant: the keys keep the capitals they were written in.
loadWithCapitals(environ) ==
    LET records == Parsed(environ)
    IN  [n \in DnsNames |->
            Kept(records, {i \in Named(records, n) : environ[records[i].origin].key = n})]

loadZonesFromEnv(environ) ==
    LET records == Parsed(environ)
    IN  [n \in DnsNames |-> Kept(records, Named(records, n))]

addDefaultZone(zones) ==
    [n \in DnsNames |->
        IF n \in {Apex, Wildcard}
        THEN Append(zones[n], [name |-> n, type |-> Address, origin |-> Own])
        ELSE zones[n]]

NewZones(environ) == addDefaultZone(loadZonesFromEnv(environ))

\* The records that answer q; the wildcard is a name like any other.  No
\* records are kept under a name that no key can stand for.
LocalAnswer(zones, q) ==
    LET name == Lower[q.name]
        records == IF name \in DnsNames THEN zones[name] ELSE <<>>
    IN  Kept(records, {i \in DOMAIN records : q.type \in {records[i].type, AnyType}})

\* The reply to one question (a message holds exactly one).  Without records
\* of its own the server asks upstream, and if that fails within its time
\* limit replies with no records.
handleDNS(zones, q, upstreamAnswers) ==
    LET own == LocalAnswer(zones, q)
    IN  IF own = <<>> /\ upstreamAnswers
        THEN [from |-> "upstream", records |-> <<>>]
        ELSE [from |-> "local", records |-> own]
=============================================================================
