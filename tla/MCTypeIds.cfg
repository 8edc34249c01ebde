\* An editor build: HktBase and another module are images of their own.
CONSTANTS
    Base = base
    game = game
    sample = sample
    move = move
    attack = attack
    Image = {base, game}
    Flagment = {sample, move, attack}
    Registrars <- MCRegistrars
    NoBehavior = NoBehavior
SPECIFICATION Spec
INVARIANT AlwaysAsSent
