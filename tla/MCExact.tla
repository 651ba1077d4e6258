------------------------------- MODULE MCExact -------------------------------
(***************************************************************************)
(* Instances of module Exact for TLC: configuration files, definitions and *)
(* log lines.                                                              *)
(***************************************************************************)
EXTENDS Exact

MCAddress == 1000000  \* beyond every time and timeout
MCPaths == {"relay", "relay2"}
MCAtoi == ("1" :> 1) @@ ("2" :> 2)
MCCaptures == ("uwre" :> <<"user", "host">>) @@ ("cyre" :> <<"host", "user">>)

\* The second host is longer than its array.
MCLogLines ==
  { [by |-> "uwre", user |-> <<9>>, host |-> <<1>>],
    [by |-> "uwre", user |-> <<9>>, host |-> <<1, 1, 1>>],
    [by |-> "cyre", user |-> <<9>>, host |-> <<1>>] }

-----------------------------------------------------------------------------
(* exact.conf                                                              *)

L(name, value) == [name |-> name, value |-> value]

BaseConf ==
  << L("pidfile", "pid"), L("maillog", "log"), L("serverdefs", "defs"), L("server", "uw"),
     L("timeout", "1"), L("authtype", "text"), L("authfile", "relay"), L("authtemp", "tmp"),
     L("dumpfile", "dump"), L("flush", "1"), L("suspicious", "1"), L("logging", "internal") >>

With(name, value) == [k \in DOMAIN BaseConf |-> IF BaseConf[k].name = name THEN L(name, value) ELSE BaseConf[k]]
Without(name) == SelectSeq(BaseConf, LAMBDA line : line.name # name)
Also(name, value) == Append(BaseConf, L(name, value))

\* exact.conf.in as configure completes it: fifteen settings.
ShippedConf ==
  <<L("user", "mail"), L("group", "mail")>> \o BaseConf \o <<L("logfile", "exact.log")>>

-----------------------------------------------------------------------------
(* exact-servers.conf.  A line with a newline is at least TOKEN_BLANK.     *)

T(tokens, text) == [has |-> tokens, text |-> text]
Server(name) == T({TOKEN_SERVER, TOKEN_BLANK}, name)
Order(order) == T({TOKEN_ORDER, TOKEN_BLANK}, order)
Match(e)     == T({TOKEN_MATCH, TOKEN_BLANK}, e)
Close        == T({TOKEN_CLOSE, TOKEN_BLANK}, "")
Comment      == T({TOKEN_COMMENT, TOKEN_BLANK}, "")
Unterminated == T({}, "")
OldServer(name) == T({TOKEN_SERVER, TOKEN_COMMENT, TOKEN_BLANK}, name)  \* #<server name>

Stanza(name, order, e) == <<Server(name), Order(order), Match(e), Close>>
Uw == Stanza("uw", "username,address", "uwre")
Cy == Stanza("cy", "address,username", "cyre")
BaseDefs == <<Comment>> \o Uw \o Cy

LineKinds ==
  {Server("uw"), OldServer("uw"), Order("username,address"), Match("uwre"), Close, Comment, Unterminated}

OddDefs ==
  { Absent,
    Uw \o Uw \o Cy,                                                       \* one too many
    Uw \o Stanza("uw", "address,username", "cyre"),
    Cy \o <<Server("uw"), Close>>,                                        \* cy's settings
    <<Server("uw"), Order("both"), Match("uwre"), Close>>,                \* no such order
    <<Server("uw"), Order("both"), Order("username,address"), Match("uwre"), Close>>,
    Stanza("uw", "username,address", "("),                                \* does not compile
    <<OldServer("uw"), Order("address,username"), Match("cyre"), Close>> \o Uw,
    Stanza("uw", "address,username", "uwre") }                            \* swapped

OddConfs ==
  { Absent,
    With("authtype", "ldap"), With("timeout", "soon"), With("logging", "file"),
    Without("pidfile"), Without("authtype"), Without("authtemp"), Without("timeout"), Without("logging"),
    Also("logfile", "exact.log"), Also("order", "address,username") }

AllDefs == UNION {[1..n -> LineKinds] : n \in 0..4}

MCBoots ==
  ({BaseConf} \X (AllDefs \cup OddDefs) \X {FALSE})
  \cup (OddConfs \X {BaseDefs} \X {FALSE})
  \cup ({BaseConf} \X {BaseDefs} \X BOOLEAN)
  \cup ({With("authtype", "db")} \X {BaseDefs} \X {TRUE})

MCEdits ==
  ({ Absent, Without("timeout"), Without("authtemp"), Without("logging"),
     With("timeout", "2"), With("authfile", "relay2"), With("authtype", "db"), With("server", "cy"),
     Also("timeout", "2") }
     \X {BaseDefs})
  \cup ({BaseConf} \X {Absent, Cy \o <<Server("uw"), Close>>})

MCSignalled == ReloadPoints \cup {"loop", "dump"}

BaseOnly == {<<BaseConf, BaseDefs, FALSE>>}
ShippedOnly == {<<ShippedConf, BaseDefs, FALSE>>}
DbOnly == {<<With("authtype", "db"), BaseDefs, FALSE>>}
=============================================================================
