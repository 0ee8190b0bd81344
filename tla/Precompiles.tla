----------------------------- MODULE Precompiles ---------------------------
(***************************************************************************)
(* evm/precompiles: the EVM's way into the keepers.  Calldata is a         *)
(* selector and 32-byte words; the keeper call is made for the caller, and *)
(* an error reverts the EVM transaction with all it wrote.                 *)
(*                                                                         *)
(* Words are unsigned and hold a decimal's last digits: decodeUint256      *)
(* reads the word as it is, be its argument declared uint256 or int256,    *)
(* and encodeUint256 writes the absolute value, big.Int.Bytes having no    *)
(* sign.  A decimal of the chain always fits in a word.                    *)
(***************************************************************************)
EXTENDS Liquidation

CONSTANT WordSize   \* 2^256, the number of words

ASSUME WordAssumption == WordSize \in Nat \ {0}

Words == 0 .. WordSize - 1

(* An unknown selector, like too few words, is an error. *)
Selectors == {"deposit", "getHealthRatio", "executeTrade", "unknown"}

(* market is the bytes32 argument of the calls that have one. *)
Call == [selector : Selectors, market : Markets, words : Seq(Words)]

VARIABLE entered    \* market -> signed size traded by executeTrade calls (history)

PrecompilesTypeOK == entered \in [Markets -> Int]

PrecompilesInit == entered = [m \in Markets |-> 0]

DecodeUint256(word) == word
EncodeUint256(dec) == Abs(dec)

(* The answer to getHealthRatio. *)
HealthRatioWord(a) == EncodeUint256(HealthRatio(a))

(* runDeposit's call of Deposit for the caller is the keeper's; here, the  *)
(* conditions under which it is made.                                      *)
IsDepositCall(call) == call.selector = "deposit" /\ Len(call.words) >= 1

(* One leg, without a counterparty. *)
ExecuteTradeCall(caller, call) ==
  LET size  == DecodeUint256(call.words[1])
      price == DecodeUint256(call.words[2])
  IN  /\ call.selector = "executeTrade" /\ Len(call.words) >= 2
      /\ ExecuteTrade(caller, call.market, size, price)
      /\ entered' = [entered EXCEPT ![call.market] = @ + size]
=============================================================================
