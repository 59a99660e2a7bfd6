-------------------------------- MODULE Nam --------------------------------
(***************************************************************************)
(* The namespace: a table of prefixes, each with a replacement and a        *)
(* device.  A string is a sequence of symbols, each of some width in bytes, *)
(* none of which begins another; a name is such a sequence and a tail, a    *)
(* number of characters that occur in no prefix.                            *)
(***************************************************************************)
EXTENDS Integers, Sequences, SequencesExt

CONSTANTS NamDevs,              \* devices that exist
          NAMESPACE,            \* the namespace device
          DevNames,             \* the names of the devices, in the order of devtab
          Width,                \* the width of each symbol
          NewPrefixes, NewReplacements, Paths, Tails, \* what is mounted and looked up
          NNAMES, NM_PRELEN, NM_REPLLEN, NM_MAXLEN

ASSUME NamAssumption == {NNAMES, NM_PRELEN, NM_REPLLEN, NM_MAXLEN} \cup Tails \subseteq Nat

VARIABLES nametab,  \* the table: nnames is its length
          asked,    \* history: the name looked up last
          mapped    \* and the result
namVars == <<nametab, asked, mapped>>

SYSERR == "SYSERR"
Entry(prefix, replace, device) == [prefix |-> prefix, replace |-> replace, device |-> device]
Name(path, tail) == [path |-> path, tail |-> tail]

Bytes(path) == FoldLeft(LAMBDA n, s: n + Width[s], 0, path)
namlen(name) == Bytes(name.path) + name.tail + 1      \* counts the null byte

\* mount adds an entry unless a string is too long, the device is bad or the table is full.
Mounted(tab, e) ==
    IF /\ namlen(Name(e.prefix, 0)) <= NM_PRELEN /\ namlen(Name(e.replace, 0)) <= NM_REPLLEN
       /\ e.device \in NamDevs /\ Len(tab) < NNAMES
    THEN Append(tab, e) ELSE tab

\* naminit: /dev/<name> for each device, then the other prefixes, longest first.
Slash == <<"/">>
DevPrefix == <<"/", "dev", "/">>
Standard == <<Entry(DevPrefix \o <<"null">>, <<>>, "NULLDEV"),
              Entry(<<"/", "remote", "/">>, <<"remote", ":">>, "RFILESYS"),
              Entry(<<"/", "local", "/">>, <<>>, "LFILESYS"), Entry(DevPrefix, <<>>, SYSERR),
              Entry(<<"~", "/">>, <<>>, "LFILESYS"), Entry(Slash, <<"root", ":">>, "RFILESYS"),
              Entry(<<>>, <<>>, "LFILESYS")>>
Booted == FoldLeft(Mounted, <<>>,
                   [i \in DOMAIN DevNames |-> Entry(DevPrefix \o DevNames[i].name, <<>>, DevNames[i].dev)]
                   \o Standard)

Unmapped == [dev |-> SYSERR]
NamInit == nametab = Booted /\ asked = Name(<<>>, 0) /\ mapped = Unmapped

mount(e) ==
    /\ nametab' = Mounted(nametab, e)
    /\ mapped' = Unmapped /\ UNCHANGED asked

\* A (signed) char: negative or 0 for a length of more than 127 bytes.
Char(n) == ((n + 128) % 256) - 128


\* The bytes beyond a prefix of plen bytes, the null byte included, computed from a length
\* that is kept in a char.
Remain(name, plen) == Char(namlen(name)) - plen

\* namrepl: the first prefix that matches is replaced, and as many bytes of the rest are copied
\* as the length says; with none, whatever was in the buffer follows the replacement.
Matches(name) == {i \in DOMAIN nametab : IsPrefix(nametab[i].prefix, name.path)}
namrepl(name) ==
    IF Matches(name) = {} THEN Unmapped
    ELSE LET i == CHOOSE k \in Matches(name) : \A l \in Matches(name) : k <= l
             e == nametab[i]
             remain == Remain(name, Bytes(e.prefix))
         IN  IF Bytes(e.replace) + remain > NM_MAXLEN THEN Unmapped
             ELSE [dev |-> e.device, replaced |-> e.replace, copied |-> IF remain > 0 THEN remain ELSE 0,
                   rest |-> SubSeq(name.path, Len(e.prefix) + 1, Len(name.path))]

\* nammap.  An entry with the namespace device is followed again and again with the same
\* name, until the number of iterations is exhausted.
nammap(name) ==
    LET r == namrepl(name)
    IN  IF namlen(name) > NM_MAXLEN \/ r.dev = NAMESPACE THEN Unmapped ELSE r

namopen(name) ==
    /\ asked' = name /\ mapped' = nammap(name)
    /\ UNCHANGED nametab

NamNext ==
    \/ \E p \in NewPrefixes, r \in NewReplacements, d \in NamDevs : mount(Entry(p, r, d))
    \/ \E p \in Paths, t \in Tails : namopen(Name(p, t))

NamSpec == NamInit /\ [][NamNext]_namVars

-----------------------------------------------------------------------------

=============================================================================
