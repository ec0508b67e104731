\* The default impact and margin; the news is early so that the cascade fits.
CONSTANTS
    fuel = fuel
    fund = fund
    noise = noise
    Traders <- MCTraders
    Leveraged <- MCLeveraged
    Leverage <- MCLeverage
    RefShares = 2
    StartPrice = 10000
    Kappa = 12
    Margin = 25
    NewsRound = 4
    Rounds = 7
    Sizes = {1}
SPECIFICATION Spec
INVARIANTS
    SoldOnce
    BreachesAreCalled

