--------------------------- MODULE MCCreditWallet ---------------------------
(* A small instance of CreditWallet: two balances, and one grant request    *)
(* for each, which an administrator may repeat under the same note.         *)
EXTENDS CreditWallet

CONSTANTS productBalance, skuBalance, goodwill, launch

MCGrants ==
  { [balance |-> productBalance, quantity |-> 1, note |-> goodwill],
    [balance |-> skuBalance,     quantity |-> 1, note |-> launch] }

=============================================================================
