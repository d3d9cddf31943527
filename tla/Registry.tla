------------------------------ MODULE Registry ------------------------------
(***************************************************************************)
(* What the vault remembers of the parachain's registries: the metadata of *)
(* foreign assets and the lend tokens, which are global to the process     *)
(* (runtime/src/assets.rs), and the vault ids it serves (VaultIdManager),  *)
(* which every generation of the service collects anew.                    *)
(*                                                                         *)
(* Each is read once while the service starts and then kept up to date     *)
(* from events.  Every kind of event has a subscription of its own, so     *)
(* events of two kinds are handled in any order; those of blocks between   *)
(* the reading and the subscription, and those of a block whose events     *)
(* cannot be fetched, are never seen.  The periodic restart repairs this.  *)
(*                                                                         *)
(* Abstractions.  The metadata of an asset is its symbol.  The chain has   *)
(* no two assets of the same symbol at the same time, none that is a       *)
(* token's and none that is a lend token's.  The lend token of a market    *)
(* never changes.  The vault has one vault id per collateral asset.        *)
(***************************************************************************)
EXTENDS Naturals, Sequences, FiniteSets, SequencesExt

CONSTANTS
    Assets,         \* foreign assets
    Symbols,        \* symbols they can have
    FirstSymbol,    \* symbol an asset has when the process starts, 0 for none
    MaxChanges,     \* bound: changes on the parachain
    MaxFaults       \* bound: blocks of events lost and calls that fail

ASSUME RegistryAssumption ==
    /\ 0 \notin Assets \cup Symbols
    /\ FirstSymbol \in [Assets -> Symbols \cup {0}]
    /\ {MaxChanges, MaxFaults} \subseteq Nat

VARIABLES
    \* the parachain
    symbol,         \* symbol of each registered asset
    markets,        \* assets that have a market, and so a lend token
    vaults,         \* the vault's registered vault ids
    liquidated,     \* those that are liquidated
    changes,        \* changes so far
    \* the process
    symbolLookup,   \* symbol_lookup of ASSET_REGISTRY
    metadataLookup, \* metadata_lookup of ASSET_REGISTRY
    lendTokens,     \* LENDING_ASSETS, both ways
    \* the generation of the service
    phase,          \* how far its start is
    queue,          \* events each subscription holds
    entries,        \* keys of vault_data
    faults

chainVars == <<symbol, markets, vaults, liquidated, changes>>
assetVars == <<symbolLookup, metadataLookup, lendTokens>>
registryVars == <<chainVars, assetVars, phase, queue, entries, faults>>

Kinds == {"RegisteredAsset", "UpdatedAsset", "NewMarket", "RegisterVault"}
NoEvents == [k \in Kinds |-> <<>>]
Known(f) == {x \in DOMAIN f : f[x] # 0}

RegistryTypeOK ==
    /\ symbol \in [Assets -> Symbols \cup {0}]
    /\ markets \subseteq Assets
    /\ liquidated \subseteq vaults /\ vaults \subseteq Assets
    /\ changes \in 0..MaxChanges
    /\ symbolLookup \in [Symbols -> Assets \cup {0}]
    /\ metadataLookup \in [Assets -> Symbols \cup {0}]
    /\ lendTokens \subseteq markets
    /\ phase \in {"down", "stored", "fetched", "running"}
    /\ \A k \in Kinds : Len(queue[k]) <= MaxChanges /\ (phase # "running" => queue[k] = <<>>)
    /\ entries \subseteq vaults
    /\ faults \in 0..MaxFaults

RegistryInit ==
    /\ symbol = FirstSymbol
    /\ markets = {}
    /\ vaults = Known(FirstSymbol)
    /\ liquidated = {}
    /\ changes = 0
    /\ symbolLookup = [s \in Symbols |-> 0]
    /\ metadataLookup = [a \in Assets |-> 0]
    /\ lendTokens = {}
    /\ phase = "down"
    /\ queue = NoEvents
    /\ entries = {}
    /\ faults = 0

----------------------------------------------------------------------------
(***************************************************************************)
(* The registries.                                                         *)
(***************************************************************************)

\* AssetRegistry::inner_insert of the assets S with symbols f: what another
\* symbol pointed to stays.
SymbolsWith(S, f) ==
    [s \in Symbols |-> IF \E a \in S : f[a] = s THEN CHOOSE a \in S : f[a] = s
                       ELSE symbolLookup[s]]
MetadataWith(S, f) == [a \in Assets |-> IF a \in S THEN f[a] ELSE metadataLookup[a]]

InnerInsert(S, f) ==
    /\ symbolLookup' = SymbolsWith(S, f)
    /\ metadataLookup' = MetadataWith(S, f)

\* try_from_symbol: the symbol is a foreign asset's, or that of the lend
\* token of one, which is the symbol with a prefix.
GetForeignAssetBySymbol(s) == symbolLookup[s]
GetLendTokenId(a) == IF a \in lendTokens THEN a ELSE 0
FromLendTokenSymbol(s) == GetLendTokenId(GetForeignAssetBySymbol(s))
\* symbol(): empty if the metadata is missing, as label() has it.
SymbolOf(a) == metadataLookup[a]

----------------------------------------------------------------------------
(***************************************************************************)
(* The parachain.  Events reach those who are subscribed, unless the       *)
(* events of the block cannot be fetched: on_event skips such a block.     *)
(***************************************************************************)

Publish(k, e) ==
    \/ /\ queue' = IF phase = "running" THEN [queue EXCEPT ![k] = Append(@, e)] ELSE queue
       /\ UNCHANGED faults
    \/ /\ phase = "running" /\ faults < MaxFaults
       /\ faults' = faults + 1
       /\ UNCHANGED queue

Change(k, e) ==
    /\ changes < MaxChanges
    /\ changes' = changes + 1
    /\ Publish(k, e)
    /\ UNCHANGED <<assetVars, phase, entries>>

\* An asset is registered, or gets another symbol.
SetAsset(a, s) ==
    /\ s \notin {symbol[b] : b \in Assets}
    /\ symbol' = [symbol EXCEPT ![a] = s]
    /\ Change(IF symbol[a] = 0 THEN "RegisteredAsset" ELSE "UpdatedAsset", <<a, s>>)
    /\ UNCHANGED <<markets, vaults, liquidated>>

AddMarket(a) ==
    /\ symbol[a] # 0 /\ a \notin markets
    /\ markets' = markets \cup {a}
    /\ Change("NewMarket", <<a>>)
    /\ UNCHANGED <<symbol, vaults, liquidated>>

RegisterVault(v) ==
    /\ symbol[v] # 0 /\ v \notin vaults
    /\ vaults' = vaults \cup {v}
    /\ Change("RegisterVault", <<v>>)
    /\ UNCHANGED <<symbol, markets, liquidated>>

Liquidate(v) ==
    /\ v \in vaults \ liquidated
    /\ changes < MaxChanges
    /\ changes' = changes + 1
    /\ liquidated' = liquidated \cup {v}
    /\ UNCHANGED <<symbol, markets, vaults, assetVars, phase, queue, entries, faults>>

----------------------------------------------------------------------------
(***************************************************************************)
(* A generation of the service.                                            *)
(***************************************************************************)

\* Mutant: the metadata is read by the first generation only.
StoreAssetsMetadata_Once ==
    /\ phase = "down"
    /\ phase' = "stored"
    /\ IF Known(metadataLookup) = {}
       THEN InnerInsert(Known(symbol), symbol) /\ lendTokens' = markets
       ELSE UNCHANGED assetVars
    /\ UNCHANGED <<chainVars, queue, entries, faults>>

\* InterBtcParachain::new: store_assets_metadata and store_lend_tokens.
StoreAssetsMetadata ==
    /\ phase = "down"
    /\ phase' = "stored"
    /\ InnerInsert(Known(symbol), symbol)
    /\ lendTokens' = lendTokens \cup markets
    /\ UNCHANGED <<chainVars, queue, entries, faults>>

\* get_vaults_by_account_id, less those get_vault finds liquidated.
LiveVaults == vaults \ liquidated

\* fetch_vault_ids adds every vault id that is not liquidated.
FetchVaultIds ==
    /\ phase = "stored"
    /\ phase' = "fetched"
    /\ entries' = LiveVaults
    /\ UNCHANGED <<chainVars, assetVars, queue, faults>>

\* An error of add_vault_id ends the generation.
FetchFails ==
    /\ phase = "stored"
    /\ faults < MaxFaults
    /\ faults' = faults + 1
    /\ phase' = "down"
    /\ UNCHANGED <<chainVars, assetVars, queue, entries>>

Subscribe ==
    /\ phase = "fetched"
    /\ phase' = "running"
    /\ UNCHANGED <<chainVars, assetVars, queue, entries, faults>>

\* The callback of a listener.
Handle(k) ==
    /\ queue[k] # <<>>
    /\ queue' = [queue EXCEPT ![k] = Tail(@)]
    /\ UNCHANGED <<chainVars, phase>>

\* listen_for_registered_assets: two subscriptions with the same callback.
ListenForRegisteredAssets(k) ==
    /\ k \in {"RegisteredAsset", "UpdatedAsset"}
    /\ Handle(k)
    /\ LET a == Head(queue[k])[1] IN InnerInsert({a}, [b \in {a} |-> Head(queue[k])[2]])
    /\ UNCHANGED <<lendTokens, entries, faults>>

ListenForLendingMarkets ==
    /\ Handle("NewMarket")
    /\ lendTokens' = lendTokens \cup {Head(queue["NewMarket"])[1]}
    /\ UNCHANGED <<symbolLookup, metadataLookup, entries, faults>>

ListenForVaultIdRegistrations ==
    /\ Handle("RegisterVault")
    /\ entries' = entries \cup {Head(queue["RegisterVault"])[1]}
    /\ UNCHANGED <<assetVars, faults>>

\* listen_for_vault_id_registrations drops the error of add_vault_id.
AddVaultIdFails ==
    /\ Handle("RegisterVault")
    /\ faults < MaxFaults
    /\ faults' = faults + 1
    /\ UNCHANGED <<assetVars, entries>>

\* The restart timer, or an error of a task: the subscriptions end with
\* what they hold, and the next generation has a VaultIdManager of its own.
Restart ==
    /\ phase = "running"
    /\ phase' = "down"
    /\ queue' = NoEvents
    /\ entries' = {}
    /\ UNCHANGED <<chainVars, assetVars, faults>>

\* Steps that add no vault id and do not end the generation.
RegistryStep ==
    \/ \E a \in Assets, s \in Symbols : SetAsset(a, s)
    \/ \E a \in Assets : AddMarket(a) \/ RegisterVault(a) \/ Liquidate(a)
    \/ StoreAssetsMetadata \/ FetchFails \/ Subscribe
    \/ \E k \in Kinds : ListenForRegisteredAssets(k)
    \/ ListenForLendingMarkets \/ AddVaultIdFails

----------------------------------------------------------------------------
(***************************************************************************)
(* Properties.                                                             *)
(***************************************************************************)

\* Every asset and lend token of the parachain is found under its symbol.
AssetsRight ==
    \A a \in Known(symbol) :
        /\ SymbolOf(a) = symbol[a]
        /\ GetForeignAssetBySymbol(symbol[a]) = a
        /\ a \in markets => FromLendTokenSymbol(symbol[a]) = a

\* A renaming overtaken by the registration it follows, an event that was
\* lost or one that came before the subscription leaves a symbol on the
\* wrong asset, and an event that failed to add a vault id leaves it without
\* service; whatever happened, the restart sets it right for good.  (A vault
\* id liquidated meanwhile is served until the restart.)
RegistriesSettle ==
    <>[](AssetsRight /\ (phase = "running" => entries = vaults \ liquidated))
=============================================================================
