---------------------------- MODULE MCAppClient ----------------------------
(***************************************************************************)
(* Two users, one of whom runs the REST server with an address of his own, *)
(* and words of all kinds: a denom, a coin, a list ("5tok,7abc"), hex with *)
(* and without 0x, numbers and addresses.                                  *)
(***************************************************************************)
EXTENDS AppClient

CONSTANTS u1, u2, \* users
          b       \* bytes

\* What the words are: the parsers that take them.
Nothing == [hex |-> Empty, coins |-> {}]
Tok == [denom |-> "tok", after10 |-> "tok", coinsAfter10 |-> {"tok"}]
FiveTok == [coin |-> [denom |-> Tok, amount |-> 5], coins |-> {"tok"}, after10 |-> "tok",
            coinsAfter10 |-> {"tok"}]
List == [coinsAfter10 |-> {"tok", "abc"}, coins |-> {"tok", "abc"}]
Plain == [hex |-> b, hex0x |-> b, hexPrefix |-> b, denom |-> "ab12", after10 |-> "ab12",
          coinsAfter10 |-> {"ab12"}]
Prefixed == [hex0x |-> b]
Proxy1 == [hex |-> u1, hex0x |-> u1, addrOrHex |-> u1]
Chain == [uint |-> 3, int |-> 3, intOrZero |-> 3]
NoChain == [uint |-> 0, int |-> 0]
Minus == [int |-> -1]
Me == [addr |-> u1, addrOrHex |-> u1, hexPrefix |-> Empty, intOrZero |-> 0]

MCNoText == Nothing
MCProxy == {Empty, u1}
MCHash == {Empty, b}
MCDenom == {Nothing, Tok, List}
MCCoin == {FiveTok.coin, [denom |-> List, amount |-> 1], [denom |-> Tok, amount |-> -1]}
MCText == {Nothing, Plain}
MCChainId == {0, 3}
MCValue == {-1, 1}

L(module, cmd, args) == [module |-> module, cmd |-> cmd, args |-> args]

MCLine ==
    {L("lockproxy", "create-lock-proxy", <<Me>>),
     L("lockproxy", "bind-proxy-hash", <<Chain, Prefixed>>),
     L("lockproxy", "bind-proxy-hash", <<Chain, Prefixed, Nothing>>),
     L("lockproxy", "bind-asset-hash", <<Tok, Chain, Plain, Chain>>),
     L("lockproxy", "bind-asset-hash", <<List, Chain, Plain, Chain>>),
     L("lockproxy", "lock", <<Proxy1, Tok, Chain, Plain, Chain>>),
     L("lockproxy", "lock", <<Proxy1, Tok, NoChain, Plain, Chain>>),
     L("lockproxy", "lock", <<Proxy1, Tok, Chain, Prefixed, Chain>>),
     L("lockproxypip1", "create-lock-proxy-pip1", <<Me>>),
     L("btcx", "create-coin", <<List, Plain>>),
     L("btcx", "bind-asset-hash", <<Tok, Chain, Prefixed>>),
     L("btcx", "lock", <<Tok, Chain, Plain, Minus>>),
     L("btcx", "lock", <<Tok, Chain, Plain, Chain>>),
     L("ft", "create-denom", <<Me, FiveTok>>),
     L("ft", "create-coins", <<Me, List>>),
     L("ft", "bind-asset-hash", <<Tok, Chain, Plain, Nothing>>),
     L("ft", "lock", <<Tok, Chain, Plain, NoChain>>),
     L("poly", "sync-genesis", <<Plain>>),
     L("poly", "sync-header", <<Plain>>),
     L("lockproxy", "proxy-hash-by-operator", <<Me>>),
     L("lockproxy", "proxy-hash", <<Me, Chain>>),
     L("lockproxy", "asset-hash", <<Proxy1, Tok, Chain>>),
     L("lockproxypip1", "proxy-hash-by-operator", <<Me>>),
     L("btcx", "denom-info", <<Tok>>),
     L("btcx", "denom-cc-info", <<Tok, Chain>>),
     L("ft", "denom-info", <<Tok>>),
     L("ft", "denom-cross-chain-info", <<Tok, Chain>>),
     L("poly", "consensus-peer", <<NoChain, Nothing>>),
     L("poly", "if-contain-contract", <<Tok, Plain, Chain>>),
     L("poly", "if-contain-contract", <<Tok, Me, Me>>),
     L("poly", "parameters", <<>>),
     L("poly", "module-balance", <<Tok>>)}

MCRequest ==
    {[module |-> "lockproxy", route |-> "create_lock_proxy"],
     [module |-> "lockproxy", route |-> "create_and_delegate", coin |-> FiveTok,
      lock_proxy_hash |-> Proxy1],
     [module |-> "lockproxy", route |-> "bind_proxy", to_chain_id |-> Chain,
      to_lock_proxy_hash |-> Prefixed],
     [module |-> "lockproxy", route |-> "bind_asset", denom |-> Tok, to_chain_id |-> 3,
      to_asset_hash |-> b],
     [module |-> "lockproxy", route |-> "lock", lock_proxy |-> u1, denom |-> Tok,
      to_chain_id |-> 3, to_address |-> b, amount |-> 1],
     [module |-> "lockproxypip1", route |-> "create_lock_proxy"],
     [module |-> "btcx", route |-> "create_coin", denom |-> Tok, redeem_script |-> Plain],
     [module |-> "btcx", route |-> "bind_asset_hash", denom |-> Tok, redeem_script |-> 3,
      to_asset_hash |-> b],
     [module |-> "btcx", route |-> "bind_asset_hash", denom |-> Tok, to_chain_id |-> 3,
      to_asset_hash |-> b],
     [module |-> "btcx", route |-> "bind_asset_hash", denom |-> Tok, redeem_script |-> 5,
      to_chain_id |-> 3, to_asset_hash |-> b],
     [module |-> "btcx", route |-> "lock", source_asset_denom |-> Tok, to_Chain_id |-> 3,
      to_address_bs |-> b, value |-> 1],
     [module |-> "btcx", route |-> "lock", source_asset_denom |-> Tok, to_chain_id |-> 3,
      to_address_bs |-> b, value |-> 1],
     [module |-> "ft", route |-> "create_coins", coins |-> FiveTok],
     [module |-> "ft", route |-> "create_denom", denom |-> Tok],
     [module |-> "ft", route |-> "bind_asset_hash", denom |-> Tok, to_chain_id |-> 3,
      to_asset_hash |-> Plain],
     [module |-> "ft", route |-> "lock", denom |-> Tok, to_chain_id |-> 3, to_address |-> b,
      amount |-> 1],
     [module |-> "poly", route |-> "sync_headers", headers |-> <<Plain>>],
     [module |-> "poly", route |-> "process_crosschain_tx", from_chain_id |-> 0,
      proof |-> Plain, header |-> Plain, header_proof |-> Nothing, cur_header |-> Nothing],
     [module |-> "lockproxy", route |-> "proxy_hash_by_operator", operator |-> Me],
     [module |-> "lockproxy", route |-> "proxy_hash", lock_proxy_hash |-> Proxy1,
      to_chain_id |-> Chain],
     [module |-> "lockproxy", route |-> "asset_hash", lock_proxy_hash |-> Proxy1,
      asset_denom |-> Tok, to_chain_id |-> Chain],
     [module |-> "lockproxypip1", route |-> "proxy_hash_by_operator", operator |-> Me],
     [module |-> "btcx", route |-> "denom_info", denom |-> Tok],
     [module |-> "btcx", route |-> "denom_cc_info", denom |-> Tok, chain_id |-> Chain],
     [module |-> "ft", route |-> "denom_info", denom |-> Tok],
     [module |-> "ft", route |-> "denom_cc_info", denom |-> Tok, chain_id |-> Chain],
     [module |-> "poly", route |-> "current_consensus_peers", chain_id |-> NoChain],
     [module |-> "poly", route |-> "if_contain_contract", module_store_key |-> Tok,
      to_contract |-> Plain, from_chain_id |-> Chain],
     [module |-> "poly", route |-> "parameters"],
     [module |-> "poly", route |-> "module_balance", module_name |-> Tok]}
=============================================================================
