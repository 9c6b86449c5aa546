--------------------------- MODULE NamenodeProtocol ---------------------------
(***************************************************************************)
(* The bodies of the namenode protocol on the wire and in the driver.  All *)
(* fields are two, four or eight bytes wide, most significant byte first:  *)
(* a buffer is a sequence of 16-bit words, an offset counts words, and an  *)
(* eight byte number is the tuple of its words.                            *)
(***************************************************************************)
EXTENDS Integers, Sequences, SequencesExt

WORD == 65536

\* What lies behind the received bytes: the receiver clears the buffer for each body.
Word(buf, o) == IF o < Len(buf) THEN buf[o + 1] ELSE 0

\* What a short keeps of a number.
Short(n) == IF n % WORD < WORD \div 2 THEN n % WORD ELSE (n % WORD) - WORD

READ_NET_SHORT(buf, o) == Short(Word(buf, o))
READ_NET_INT(buf, o) == READ_NET_SHORT(buf, o) * WORD + Word(buf, o + 1)
READ_NET_LONG(buf, o) == [i \in 1..4 |-> Word(buf, o + i - 1)]

WRITE_NET_SHORT(n) == <<n % WORD>>
WRITE_NET_INT(n) == <<(n \div WORD) % WORD, n % WORD>>
WRITE_NET_LONG(t) == t

\* What fits into the fields: a short and an int with their signs, the words of eight bytes,
\* a sequence whose length fits into a short, and one that fits into the arrays of the driver,
\* which have room for the blocks of the largest request.  The parser does not look whether a
\* number that arrives goes beyond the array.
KSECTORS_TO_DSECTORS(n) == n \div 8
MAX_KSECTORS == 128
Shorts == {n \in Int : -32768 <= n /\ n <= 32767}
Ints == {n \in Int : -2147483647 - 1 <= n /\ n <= 2147483647}
Words == 0..WORD - 1
Longs == {t \in Seq(Words) : Len(t) = 4}
Counted(S) == {s \in Seq(S) : Len(s) <= 32767}
Arrays(S) == {s \in Counted(S) : Len(s) <= KSECTORS_TO_DSECTORS(MAX_KSECTORS)}
Locations == [ip : Ints, port : Words, triplets : Arrays(Longs)]
LocatedRequests == [state : Shorts, hbids : Arrays(Longs), locs : Counted(Locations)]

\* A small number in eight bytes, and the sum of eight bytes and a short, with its carries.
Long(n) == <<0, 0, 0, n>>
Plus(t, n) ==
    LET c3 == (t[4] + n) \div WORD
        c2 == (t[3] + c3) \div WORD
        c1 == (t[2] + c2) \div WORD
    IN  <<(t[1] + c1) % WORD, (t[2] + c2) % WORD, (t[3] + c3) % WORD, (t[4] + n) % WORD>>

-----------------------------------------------------------------------------
(* Slips: what a run finds when a definition is replaced by its slip.       *)

\* The next located request starts at the block of the first.
SlipNextBlock(before, r) == before

-----------------------------------------------------------------------------
(* Parsing.                                                                 *)

\* IP, port and number of triplets, then the triplets.
LocationSize(n) == 5 + 4 * n

\* How often the loop over a number that may be negative runs.
Times(nr) == IF nr > 0 THEN nr ELSE 0

\* The number of triplets arrives as an int and is kept in a short; the port is unsigned.
NrTriplets(buf, o) == Times(Short(READ_NET_INT(buf, o + 3)))

Parse_Datanode_Location(buf, o) ==
    [ip |-> READ_NET_INT(buf, o),
     port |-> READ_NET_SHORT(buf, o + 2) % WORD,
     triplets |-> [j \in 1..NrTriplets(buf, o) |-> READ_NET_LONG(buf, o + 5 + 4 * (j - 1))]]

\* One location more, behind those parsed so far.
NextLocation(buf, o, parsed) ==
    LET loc == Parse_Datanode_Location(buf, o + parsed.size)
    IN  [size |-> parsed.size + LocationSize(Len(loc.triplets)), locs |-> Append(parsed.locs, loc)]

\* The locations from o on, and the words they take.
Parse_Datanode_Locations(buf, o, nr) ==
    LET upto[i \in 0..Times(nr)] ==
            IF i = 0 THEN [size |-> 0, locs |-> <<>>] ELSE NextLocation(buf, o, upto[i - 1])
    IN  upto[Times(nr)]

\* State and number of HBIDs, the HBIDs, number of locations, the locations.
\* The result is that of the last part: without a location it is zero.
Parse_Located_Request(buf, o, slbid) ==
    LET nr == READ_NET_SHORT(buf, o + 1)
        behind == 3 + 4 * nr
        dns == Parse_Datanode_Locations(buf, o + behind, READ_NET_SHORT(buf, o + 2 + 4 * nr))
    IN  [ret |-> IF dns.size > 0 THEN behind + dns.size ELSE 0,
         lr |-> [slbid |-> slbid,
                 state |-> READ_NET_SHORT(buf, o),
                 hbids |-> [i \in 1..nr |-> READ_NET_LONG(buf, o + 2 + 4 * (i - 1))],
                 locs |-> dns.locs]]

\* The blocks before the next located request, counted in a short.
NextBlock(before, r) == Short(before + Len(r.lr.hbids))

\* The i-th located request, behind those parsed so far; the first that fails ends the loop.
NextRequest(buf, o, slbid, parsed, i) ==
    LET r == Parse_Located_Request(buf, o + parsed.ret, Plus(slbid, parsed.before))
    IN  IF i > 1 /\ parsed.ret <= 0 THEN parsed
        ELSE IF r.ret <= 0 THEN [parsed EXCEPT !.ret = r.ret]
        ELSE [ret |-> parsed.ret + r.ret,
              before |-> NextBlock(parsed.before, r),
              lrs |-> Append(parsed.lrs, r.lr)]

Parse_Located_Requests(buf, o, nr, slbid) ==
    LET upto[i \in 0..Times(nr)] ==
            IF i = 0 THEN [ret |-> 0, before |-> 0, lrs |-> <<>>]
            ELSE NextRequest(buf, o, slbid, upto[i - 1], i)
    IN  upto[Times(nr)]

\* Volume, first block, number of blocks, commit ID and number of located requests.
Parse_Metadata_Response(buf) ==
    LET nr_lrs == READ_NET_SHORT(buf, 13)
        r == Parse_Located_Requests(buf, 14, nr_lrs, READ_NET_LONG(buf, 4))
    IN  [ret |-> IF r.ret > 0 THEN r.ret + 14 ELSE r.ret,
         created |-> TRUE,
         res |-> [volumeID |-> READ_NET_LONG(buf, 0), start_LBID |-> READ_NET_LONG(buf, 4),
                  nr_LBIDs |-> READ_NET_SHORT(buf, 8), commit_ID |-> READ_NET_LONG(buf, 9),
                  lrs |-> r.lrs]]

Queries == {"QUERY_FOR_READ", "QUERY_FOR_WRITE", "QUERY_FOR_OVERWRITE"}

\* Only a body whose header does not say RESPONSE is looked into; no other type is parsed.
Parse_NN_Protocol_Body(header, buf) ==
    IF header.sub_type # "RESPONSE" /\ header.service_type \in Queries
    THEN Parse_Metadata_Response(buf)
    ELSE [ret |-> -1, created |-> FALSE]

-----------------------------------------------------------------------------
(* Packing.  The driver has it for a namenode of its own and never uses it: *)
(* the parts are taken here for the namenode.                               *)

Pack_Datanode_Location(loc) ==
    WRITE_NET_INT(loc.ip) \o WRITE_NET_SHORT(loc.port)
      \o WRITE_NET_INT(Len(loc.triplets)) \o FlattenSeq(loc.triplets)

Packed_Locations(lr) == FlattenSeq([i \in DOMAIN lr.locs |-> Pack_Datanode_Location(lr.locs[i])])

\* All before the locations.
Pack_Head(lr) ==
    WRITE_NET_SHORT(lr.state) \o WRITE_NET_SHORT(Len(lr.hbids)) \o FlattenSeq(lr.hbids)
      \o WRITE_NET_SHORT(Len(lr.locs))

\* All before the located requests.
Pack_Response(res) ==
    WRITE_NET_LONG(res.volumeID) \o WRITE_NET_LONG(res.start_LBID)
      \o WRITE_NET_SHORT(res.nr_LBIDs) \o WRITE_NET_LONG(res.commit_ID)
      \o WRITE_NET_SHORT(Len(res.lrs))

-----------------------------------------------------------------------------
(* The bodies on the namenode's side: what the parsers above expect.        *)

Wire_Located_Request(lr) == Pack_Head(lr) \o Packed_Locations(lr)

Wire_Metadata_Response(res) ==
    Pack_Response(res) \o FlattenSeq([i \in DOMAIN res.lrs |-> Wire_Located_Request(res.lrs[i])])

=============================================================================
