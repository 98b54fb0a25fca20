---------------------------- MODULE ProxyProtocol ----------------------------
(***************************************************************************)
(* The pure half of src/proxy_protocol.rs: which sources are trusted (the  *)
(* CIDR list) and what a PROXY protocol v2 header says.  Everything is on  *)
(* bytes; the widths are scaled down and named here:                       *)
(*                                                                         *)
(*   Signature   the bytes a header opens with        (code: 12 bytes)     *)
(*   Width       bytes of an IP address by family     (code: 4 and 16)     *)
(*   ByteBits    bits of a byte                       (code: 8)            *)
(*   MaxBlock    MAX_ADDRESS_BLOCK                     (code: 1024)        *)
(*                                                                         *)
(* Ports and the declared length are one byte each (code: two).            *)
(***************************************************************************)
EXTENDS Integers, Sequences, FiniteSets

CONSTANTS Signature, Width, ByteBits, MaxBlock, MappedPrefix

Pow2[n \in Nat] == IF n = 0 THEN 1 ELSE 2 * Pow2[n - 1]

Byte == 0..(Pow2[ByteBits] - 1)

ASSUME ProxyAssumption ==
    /\ Signature \in Seq(Nat) /\ Signature # <<>>
    /\ ByteBits \in Nat \ {0}
    /\ MappedPrefix \in Seq(Byte)
    /\ Width[4] \in Nat \ {0} /\ Width[6] = Len(MappedPrefix) + Width[4]
    /\ MaxBlock \in Nat

CMD_PROXY == 1
CMD_LOCAL == 0
AF_TCP4 == 17
AF_TCP6 == 33

V2_FIXED_LEN == Len(Signature) + 3

(***************************************************************************)
(* Addresses.                                                              *)
(***************************************************************************)

Ip(fam, bytes) == [fam |-> fam, bytes |-> bytes]

IsIp(ip) == ip \in [fam : {4, 6}, bytes : Seq(Byte)] /\ Len(ip.bytes) = Width[ip.fam]

\* IpAddr::to_canonical: an IPv4-mapped IPv6 address becomes its IPv4 form.
Canonical(ip) ==
    IF ip.fam = 6 /\ SubSeq(ip.bytes, 1, Len(MappedPrefix)) = MappedPrefix
    THEN Ip(4, SubSeq(ip.bytes, Len(MappedPrefix) + 1, Width[6]))
    ELSE ip

(***************************************************************************)
(* The trusted-proxy list.  An entry of the configured list is an address  *)
(* and a prefix length, or no prefix length (NoPrefix, a host route).      *)
(***************************************************************************)

NoPrefix == -1
BadAddress == [base |-> Ip(0, <<>>), prefix_len |-> NoPrefix]
Blank == [base |-> Ip(1, <<>>), prefix_len |-> NoPrefix]

BitsOf(ip) == ByteBits * Width[ip.fam]

CidrOK(entry) ==
    /\ entry.base.fam \in {4, 6}
    /\ entry.prefix_len <= BitsOf(entry.base)

ParseCidr(entry) ==
    [base |-> entry.base,
     prefix_len |-> IF entry.prefix_len = NoPrefix THEN BitsOf(entry.base)
                    ELSE entry.prefix_len]

\* TrustedProxies::parse: blank entries are skipped, one bad entry refuses
\* the whole list.
Entries(list) == {list[i] : i \in DOMAIN list} \ {Blank}

ListOK(list) == \A e \in Entries(list) : CidrOK(e)

ParseList(list) == {ParseCidr(e) : e \in Entries(list)}

\* prefix_matches: the whole bytes first, then the high bits of the next.
PrefixMatches(a, b, prefix_len) ==
    LET whole_bytes == prefix_len \div ByteBits
        remaining_bits == prefix_len % ByteBits
        HighBits(byte) == byte \div Pow2[ByteBits - remaining_bits]
    IN  /\ SubSeq(a, 1, whole_bytes) = SubSeq(b, 1, whole_bytes)
        /\ \/ remaining_bits = 0
           \/ HighBits(a[whole_bytes + 1]) = HighBits(b[whole_bytes + 1])

\* Cidr::contains: the address is canonicalised, the base is not.
CidrContains(cidr, ip) ==
    LET c == Canonical(ip)
    IN  /\ cidr.base.fam = c.fam
        /\ PrefixMatches(cidr.base.bytes, c.bytes, cidr.prefix_len)

Trusts(cidrs, ip) == \E c \in cidrs : CidrContains(c, ip)

\* For reference: an address as one number, most significant byte first.
Number(bytes) ==
    LET upTo[i \in 0..Len(bytes)] ==
            IF i = 0 THEN 0 ELSE Pow2[ByteBits] * upTo[i - 1] + bytes[i]
    IN  upTo[Len(bytes)]

\* A source is trusted when it agrees with some block on its leading bits.
AgreesOnBits(cidr, ip) ==
    LET low == Pow2[BitsOf(cidr.base) - cidr.prefix_len]
    IN  /\ cidr.base.fam = Canonical(ip).fam
        /\ Number(cidr.base.bytes) \div low = Number(Canonical(ip).bytes) \div low

(***************************************************************************)
(* The header.                                                             *)
(***************************************************************************)

NotProxyProtocol == [kind |-> "not_proxy", cmd |-> 0, family |-> 0, len |-> 0]
Malformed == [NotProxyProtocol EXCEPT !.kind = "malformed"]

\* parse_fixed: signature, version nibble, command nibble, length cap.
ParseFixed(fixed) ==
    LET n == Len(Signature)
        ver_cmd == fixed[n + 1]
    IN  CASE SubSeq(fixed, 1, n) # Signature -> NotProxyProtocol
          [] SubSeq(fixed, 1, n) = Signature
             /\ (\/ ver_cmd \div 16 # 2
                 \/ ver_cmd % 16 \notin {CMD_PROXY, CMD_LOCAL}
                 \/ fixed[n + 3] > MaxBlock) -> Malformed
          [] OTHER -> [kind |-> "ok", cmd |-> ver_cmd % 16,
                       family |-> fixed[n + 2], len |-> fixed[n + 3]]

\* The observed address stays: LOCAL, an untranslated family, a short block.
NoSource == [declared |-> FALSE, ip |-> Ip(0, <<>>), port |-> 0]

Translated(family) == family \in {AF_TCP4, AF_TCP6}
FamilyOf(family) == IF family = AF_TCP4 THEN 4 ELSE 6

\* Mutant: a LOCAL header's block is read as a client's address.
ParseAddressBlockOfLocal(header, block) ==
    LET w == Width[FamilyOf(header.family)]
    IN  IF ~Translated(header.family) \/ Len(block) < 2 * w + 2
        THEN NoSource
        ELSE [declared |-> TRUE,
              ip |-> Ip(FamilyOf(header.family), SubSeq(block, 1, w)),
              port |-> block[2 * w + 1]]

\* parse_address_block: source, destination, source port, destination port,
\* then TLVs that are ignored.
ParseAddressBlock(header, block) ==
    LET w == Width[FamilyOf(header.family)]
    IN  IF \/ header.cmd = CMD_LOCAL
           \/ ~Translated(header.family)
           \/ Len(block) < 2 * w + 2
        THEN NoSource
        ELSE [declared |-> TRUE,
              ip |-> Ip(FamilyOf(header.family), SubSeq(block, 1, w)),
              port |-> block[2 * w + 1]]
==============================================================================
