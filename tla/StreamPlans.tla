---------------------------- MODULE StreamPlans ----------------------------
(***************************************************************************)
(* What a bot's stream rules subscribe it to (framework/streams.py and     *)
(* cli/runner/streams.py).  A rule names markets and wallets: independent  *)
(* rules follow each of them, filtered rules follow the wallets in the     *)
(* markets only.  A plan is the set of the rules in force.                 *)
(***************************************************************************)
EXTENDS FiniteSets

CONSTANTS Wallets, Markets, Anyone

ASSUME AnyoneIsNoWallet == Anyone \notin Wallets

Independent(markets, wallets) ==
  [relation |-> "independent", markets |-> markets, wallets |-> wallets]
Filtered(markets, wallets) ==
  [relation |-> "filtered", markets |-> markets, wallets |-> wallets]

\* __post_init__ refuses any other rule.
Rules ==
  {r \in [relation : {"independent", "filtered"},
          markets : SUBSET Markets, wallets : SUBSET Wallets] :
     /\ r.relation = "filtered" => r.markets # {} /\ r.wallets # {}
     /\ r.relation = "independent" => r.markets # {} \/ r.wallets # {}}

\* A scope without markets is of every market.
Scopes(rule) ==
  IF rule.relation = "filtered"
  THEN {[wallet |-> w, markets |-> rule.markets] : w \in rule.wallets}
  ELSE {[wallet |-> w, markets |-> {}] : w \in rule.wallets}
         \cup {[wallet |-> Anyone, markets |-> m] : m \in {rule.markets} \ {{}}}

Covers(scope, wallet, market) ==
  /\ scope.wallet \in {Anyone, wallet}
  /\ scope.markets = {} \/ market \in scope.markets

AcceptsTrade(plan, wallet, market) ==
  \/ plan = {}
  \/ \E rule \in plan : \E s \in Scopes(rule) : Covers(s, wallet, market)

AllScopes(plan) == UNION {Scopes(rule) : rule \in plan}

ConfiguredMarkets(plan) == UNION {rule.markets : rule \in plan}

WalletEnabled(plan) == \E rule \in plan : rule.wallets # {}

\* The wallets a plan follows, and where: {} stands for everywhere.
DiscoveryWallets(plan) == {s.wallet : s \in AllScopes(plan)} \ {Anyone}
DiscoveryScope(plan, wallet) ==
  LET own == {s \in AllScopes(plan) : s.wallet = wallet} IN
  IF \E s \in own : s.markets = {} THEN {} ELSE UNION {s.markets : s \in own}

\* One poll each: a scope's slugs are resolved to conditions one to one.
Selectors(plan) == AllScopes(plan)

=============================================================================
