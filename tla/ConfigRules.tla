---------------------------- MODULE ConfigRules ----------------------------
(***************************************************************************)
(* A market's settings (perpswap contracts/market/config.rs): the defaults, *)
(* the update of some of them, and the rules every saved configuration      *)
(* satisfies.  Numbers have four decimals (Whole = 1), times are in hours.    *)
(***************************************************************************)
EXTENDS Integers, TLC

Whole == 10000

\* The first trading fee that is refused, 0.0999.
FeeLimit == 999

\* ConfigDefaults and Config::new
Default == [
  trading_fee_notional_size |-> 10, trading_fee_counter_collateral |-> 10,
  crank_execs |-> 7, max_leverage |-> 30 * Whole, carry_leverage |-> 10 * Whole,
  funding_rate_sensitivity |-> 10 * Whole, funding_rate_max_annualized |-> 9000,
  borrow_fee_rate_min_annualized |-> 100, borrow_fee_rate_max_annualized |-> 6000,
  mute_events |-> FALSE, liquifunding_delay |-> 24, liquifunding_delay_fuzz |-> 1,
  protocol_tax |-> 3000, unstake_period |-> 45 * 24, target_utilization |-> 8000,
  borrow_fee_sensitivity |-> 833, max_xlp_rewards_multiplier |-> 2 * Whole,
  min_xlp_rewards_multiplier |-> Whole, delta_neutrality_fee_sensitivity |-> 50000000,
  delta_neutrality_fee_cap |-> 50, delta_neutrality_fee_tax |-> 500,
  crank_fee_charged |-> 1000, crank_fee_surcharge |-> 800, crank_fee_reward |-> 900,
  minimum_deposit_usd |-> 5 * Whole, max_liquidity |-> "unlimited",
  disable_position_nft_exec |-> FALSE, liquidity_cooldown |-> 1,
  exposure_margin_ratio |-> 50, referral_reward_ratio |-> 500,
  spot_price |-> [kind |-> "manual", valid |-> TRUE]]

\* convert_spot_price_init: an oracle needs a feed for each of its two
\* prices; every address named (the admin, the Pyth, Stride and feed
\* contracts) must be a valid one.
Converts(spot) ==
  /\ spot.valid
  /\ spot.kind = "oracle" => spot.feeds # << >> /\ spot.feeds_usd # << >>

\* Config::validate, every rule but the one on the fuzz.
ValidateNoFuzz(c) ==
  /\ c.trading_fee_notional_size < FeeLimit
  /\ c.trading_fee_counter_collateral < FeeLimit
  /\ c.crank_execs # 0
  /\ c.max_leverage > Whole /\ c.carry_leverage > Whole
  /\ c.carry_leverage + Whole <= c.max_leverage
  /\ c.borrow_fee_rate_min_annualized <= c.borrow_fee_rate_max_annualized
  /\ c.protocol_tax < Whole
  /\ c.unstake_period # 0
  /\ c.target_utilization < Whole
  /\ c.min_xlp_rewards_multiplier >= Whole
  /\ c.min_xlp_rewards_multiplier <= c.max_xlp_rewards_multiplier
  /\ c.crank_fee_reward <= c.crank_fee_charged
  /\ c.delta_neutrality_fee_tax <= Whole
  /\ c.exposure_margin_ratio < Whole
  /\ c.referral_reward_ratio < Whole

\* Mutants: protocol_tax may be 1; the reward is not compared to the charge.
ValidateTaxOne(c) ==
  /\ ValidateNoFuzz([c EXCEPT !.protocol_tax = IF @ = Whole THEN 0 ELSE @])
  /\ c.liquifunding_delay_fuzz < c.liquifunding_delay

ValidateNoReward(c) ==
  /\ ValidateNoFuzz([c EXCEPT !.crank_fee_reward = 0])
  /\ c.liquifunding_delay_fuzz < c.liquifunding_delay

Validate(c) ==
  /\ ValidateNoFuzz(c)
  /\ c.liquifunding_delay_fuzz < c.liquifunding_delay

\* update_config: the fields present replace the market's, and the whole is
\* validated before anything is saved.  config_init is the same update of
\* the defaults.
Updated(c, u) == u @@ c

Accepted(c, u) ==
  /\ "spot_price" \in DOMAIN u => Converts(u.spot_price)
  /\ Validate(Updated(c, u))
=============================================================================
